----------------------------- MODULE AskedProofs -----------------------------
(***************************************************************************)
(* Proofs about what is asked of the bridge.  The command gate, for any    *)
(* slots, request shapes, bounds and intervals: its types, that the device *)
(* has one live lane, and that no value is lost when a newer one replaces  *)
(* it.  And three parts behind the pages, for every number of devices,     *)
(* requests, callers and sessions: the removal of a device                 *)
(* (DeviceRemoval), who is let in (Login), and the move from Home          *)
(* Assistant (HomeAssistant).  And what the pages that watch are given     *)
(* (Streams), for any pages, queues, rings and bounds, a command's way to  *)
(* the lamps (LampCommands), for any lamps, orders and plans, and which    *)
(* calls a light gets for a command (LightAdapt), for any endpoints, rows  *)
(* and values.                                                             *)
(***************************************************************************)
EXTENDS CommandGate, DeviceRemoval, Login, HomeAssistant, Streams,
        LightAdapt, LampCommands, FiniteSetTheorems, SequenceTheorems, WellFoundedInduction, TLAPS

----------------------------------------
(* The parts of the inductive invariant. *)

(* Who waits has no outcome yet and waits in its own lane. *)
Queued == \A l \in Requests : \A r \in waiting[l] : outcome[r] = "pending" /\ home[r] = l

Numbered == \A r \in Requests : outcome[r] = "unborn" <=> r > handed

(* Who runs has no outcome yet and does not wait. *)
Called == \A l \in Requests : running[l] # 0 =>
            /\ outcome[running[l]] = "pending"
            /\ \A m \in Requests : running[l] \notin waiting[m]

(* Behind a waiting request everything later waits too, unless it was *)
(* replaced or gave up: nothing overtakes. *)
Behind == \A l \in Requests : \A r \in waiting[l] : \A k \in Requests :
            k > r /\ k <= handed => k \in waiting[l] \/ outcome[k] \in {"silent", "replaced"}

OnlyValuesReplaced == \A r \in Requests : outcome[r] = "replaced" => shape[r] # Slotless

GateInv ==
    TypeOK /\ OneQueue /\ Queued /\ Numbered /\ Called /\ Behind
    /\ OnlyValuesReplaced /\ NothingLost

LEMMA InitGate == Init => GateInv
<1> SUFFICES ASSUME Init PROVE GateInv OBVIOUS
<1>1. TypeOK BY GateAssumption DEF Init, TypeOK, Requests, Workers, Outcomes
<1> QED BY <1>1 DEF Init, GateInv, OneQueue, Queued, Numbered, Called, Behind,
                    OnlyValuesReplaced, NothingLost, NeedsWorker, Requests

----------------------------------------
(* Covering is transitive, so the newest request of a chain of replacements *)
(* covers the oldest. *)
LEMMA CoversTransitive ==
    ASSUME NEW a \in Shapes, NEW b \in Shapes, NEW c \in Shapes, Covers(b, a), Covers(c, b)
    PROVE  Covers(c, a)
<1> SUFFICES ASSUME NEW s \in Slots PROVE a[s] <= c[s] BY DEF Covers
<1>1. a[s] \in Nat /\ b[s] \in Nat /\ c[s] \in Nat BY GateAssumption
<1>2. a[s] <= b[s] /\ b[s] <= c[s] BY DEF Covers
<1> QED BY <1>1, <1>2

(* A lane that runs something runs a request. *)
LEMMA RunningIsRequest ==
    ASSUME TypeOK, NEW l \in Requests, running[l] # 0
    PROVE  running[l] \in Requests
<1>1. running[l] \in 0..MaxRequests /\ MaxRequests \in Nat BY GateAssumption DEF TypeOK
<1> QED BY <1>1 DEF Requests

(* What a look of the worker at its queue does. *)
LEMMA DrainFacts ==
    ASSUME TypeOK, OneQueue, NEW l \in Requests, ~NeedsWorker(l), Drain(l)
    PROVE  /\ lane' \in 0..MaxRequests
           /\ waiting' \in [Requests -> SUBSET Requests]
           /\ worker' \in [Requests -> Workers]
           /\ running' \in [Requests -> 0..MaxRequests]
           /\ \A m \in Requests : worker'[m] = "calling" <=> running'[m] # 0
           /\ paced' \in 0..MinInterval /\ rested' \in 0..MinInterval
           /\ OneQueue'
           /\ \A m \in Requests : waiting'[m] \subseteq waiting[m]
           /\ \A m \in Requests : running'[m] # 0 =>
                \/ m # l /\ running'[m] = running[m]
                \/ m = l /\ running'[l] \in waiting[l] /\ running'[l] \notin waiting'[l]
           /\ \A m \in Requests : \A r \in waiting'[m] : \A k \in waiting[m] :
                k > r => k \in waiting'[m]
<1>0. l = lane BY DEF OneQueue
<1>1. CASE waiting[l] = {} /\ EndWorker(l) /\ UNCHANGED <<waiting, paced, rested>>
  <2>1. /\ worker' \in [Requests -> Workers] /\ running' \in [Requests -> 0..MaxRequests]
        /\ lane' \in 0..MaxRequests
    BY <1>1, GateAssumption DEF EndWorker, TypeOK, Workers
  <2>2. /\ worker'[l] = "none" /\ running'[l] = 0 /\ waiting'[l] = {}
        /\ \A m \in Requests : m # l => worker'[m] = worker[m] /\ running'[m] = running[m]
    BY <1>1 DEF EndWorker, TypeOK
  <2>3. \A m \in Requests : worker'[m] = "calling" <=> running'[m] # 0 BY <2>2 DEF TypeOK
  <2>4. OneQueue' BY <1>0, <1>1, <2>2 DEF OneQueue, NeedsWorker
  <2> QED BY <1>1, <2>1, <2>2, <2>3, <2>4 DEF TypeOK
<1>2. CASE \E r \in Requests :
              /\ IsFirst(r, waiting[l]) /\ MustPause(l, r)
              /\ worker' = [worker EXCEPT ![l] = "pausing"]
              /\ running' = [running EXCEPT ![l] = 0]
              /\ UNCHANGED <<lane, waiting, paced, rested>>
  BY <1>0, <1>2, GateAssumption DEF TypeOK, OneQueue, NeedsWorker, Workers, Requests
<1>3. CASE \E r \in Requests :
              /\ IsFirst(r, waiting[l]) /\ ~MustPause(l, r)
              /\ waiting' = [waiting EXCEPT ![l] = @ \ {r}]
              /\ worker' = [worker EXCEPT ![l] = "calling"]
              /\ running' = [running EXCEPT ![l] = r]
              /\ paced' = IF shape[r] = Slotless THEN paced ELSE 0
              /\ rested' = IF shape[r] = Slotless THEN rested ELSE 0
              /\ UNCHANGED lane
  <2>1. PICK r \in Requests :
          /\ r \in waiting[l] /\ \A s \in waiting[l] : r <= s
          /\ waiting' = [waiting EXCEPT ![l] = @ \ {r}]
          /\ worker' = [worker EXCEPT ![l] = "calling"]
          /\ running' = [running EXCEPT ![l] = r]
          /\ paced' = IF shape[r] = Slotless THEN paced ELSE 0
          /\ rested' = IF shape[r] = Slotless THEN rested ELSE 0
          /\ UNCHANGED lane
    BY <1>3 DEF IsFirst
  <2>2. /\ lane' \in 0..MaxRequests
        /\ waiting' \in [Requests -> SUBSET Requests]
        /\ worker' \in [Requests -> Workers]
        /\ running' \in [Requests -> 0..MaxRequests]
        /\ paced' \in 0..MinInterval /\ rested' \in 0..MinInterval
    <3>1. r \in 0..MaxRequests /\ 0 \in 0..MinInterval BY GateAssumption DEF Requests
    <3>2. waiting[l] \ {r} \in SUBSET Requests /\ "calling" \in Workers BY DEF TypeOK, Workers
    <3> QED BY <2>1, <3>1, <3>2 DEF TypeOK
  <2>3. \A m \in Requests : worker'[m] = "calling" <=> running'[m] # 0
    <3>1. r # 0 BY GateAssumption DEF Requests
    <3>2. /\ worker'[l] = "calling" /\ running'[l] = r
          /\ \A m \in Requests : m # l => worker'[m] = worker[m] /\ running'[m] = running[m]
      BY <2>1 DEF TypeOK
    <3> QED BY <3>1, <3>2 DEF TypeOK
  <2>4. OneQueue' BY <1>0, <2>1 DEF TypeOK, OneQueue, NeedsWorker
  <2>5. /\ \A m \in Requests : waiting'[m] \subseteq waiting[m]
        /\ waiting'[l] = waiting[l] \ {r} /\ running'[l] = r
        /\ \A m \in Requests : m # l => waiting'[m] = waiting[m] /\ running'[m] = running[m]
    BY <2>1 DEF TypeOK
  <2>6. \A m \in Requests : \A s \in waiting'[m] : \A k \in waiting[m] :
          k > s => k \in waiting'[m]
    BY <2>1, <2>5, GateAssumption DEF TypeOK, Requests
  <2> QED BY <2>1, <2>2, <2>3, <2>4, <2>5, <2>6
<1> QED BY <1>1, <1>2, <1>3 DEF Drain

(* When a step only takes requests out of a queue's front, and gives *)
(* outcomes to requests that do not wait, all parts but the types remain. *)
LEMMA LeavingKeeps ==
    ASSUME TypeOK, OneQueue, Queued, Numbered, Called, Behind, OnlyValuesReplaced, NothingLost,
           NEW l \in Requests, ~NeedsWorker(l), Drain(l),
           UNCHANGED <<handed, shape, home>>,
           outcome' \in [Requests -> Outcomes],
           \A r \in Requests : outcome'[r] # outcome[r] =>
              /\ running[l] # 0 /\ r = running[l] /\ outcome'[r] \in {"ok", "failed"}
    PROVE  Queued' /\ Numbered' /\ Called' /\ Behind' /\ OnlyValuesReplaced' /\ NothingLost'
<1>1. /\ \A m \in Requests : waiting'[m] \subseteq waiting[m]
      /\ \A m \in Requests : running'[m] # 0 =>
           \/ m # l /\ running'[m] = running[m]
           \/ m = l /\ running'[l] \in waiting[l] /\ running'[l] \notin waiting'[l]
      /\ \A m \in Requests : \A r \in waiting'[m] : \A k \in waiting[m] :
           k > r => k \in waiting'[m]
      /\ waiting' \in [Requests -> SUBSET Requests]
      /\ running' \in [Requests -> 0..MaxRequests]
  BY DrainFacts
<1>2. \A m \in Requests : \A r \in waiting[m] : outcome'[r] = outcome[r] BY DEF TypeOK, Called
<1>3. \A r \in Requests : outcome[r] # "pending" => outcome'[r] = outcome[r] BY DEF TypeOK, Called
<1>4. Queued' BY <1>1, <1>2 DEF Queued, TypeOK
<1>5. Numbered' BY <1>3 DEF Numbered, TypeOK
<1>6. Called'
  <2> SUFFICES ASSUME NEW m \in Requests, running'[m] # 0
               PROVE  /\ outcome'[running'[m]] = "pending"
                      /\ \A n \in Requests : running'[m] \notin waiting'[n]
    BY DEF Called
  <2>1. CASE m # l /\ running'[m] = running[m]
    <3>1. worker[m] = "calling" /\ m = lane /\ l = lane BY <2>1 DEF TypeOK, OneQueue, NeedsWorker
    <3> QED BY <2>1, <3>1
  <2>2. CASE m = l /\ running'[l] \in waiting[l] /\ running'[l] \notin waiting'[l]
    <3>1. outcome[running'[l]] = "pending" /\ home[running'[l]] = l BY <2>2 DEF Queued
    <3>2. \A n \in Requests : running'[l] \in waiting'[n] => n = l BY <1>1, <3>1 DEF Queued
    <3> QED BY <1>2, <2>2, <3>1, <3>2
  <2> QED BY <1>1, <2>1, <2>2
<1>7. Behind'
  <2> SUFFICES ASSUME NEW m \in Requests, NEW r \in waiting'[m], NEW k \in Requests,
                      k > r, k <= handed
               PROVE  k \in waiting'[m] \/ outcome'[k] \in {"silent", "replaced"}
    BY DEF Behind
  <2>1. k \in waiting[m] \/ outcome[k] \in {"silent", "replaced"} BY <1>1 DEF Behind
  <2> QED BY <1>1, <1>3, <2>1
<1>8. OnlyValuesReplaced' BY DEF OnlyValuesReplaced, TypeOK
<1>9. NothingLost'
  <2> SUFFICES ASSUME NEW r \in Requests, outcome'[r] = "replaced"
               PROVE  \E n \in Requests :
                        /\ n > r /\ outcome'[n] \notin {"unborn", "replaced"}
                        /\ shape[n] # Slotless /\ Covers(shape[n], shape[r])
                        /\ \A k \in r..n : shape[k] = Slotless => outcome'[k] = "silent"
    BY DEF NothingLost, Covers
  <2>1. outcome[r] = "replaced" OBVIOUS
  <2>2. PICK n \in Requests :
          /\ n > r /\ outcome[n] \notin {"unborn", "replaced"}
          /\ shape[n] # Slotless /\ Covers(shape[n], shape[r])
          /\ \A k \in r..n : shape[k] = Slotless => outcome[k] = "silent"
    BY <2>1 DEF NothingLost
  <2>3. outcome'[n] \notin {"unborn", "replaced"} BY <2>2
  <2>4. \A k \in r..n : k \in Requests BY GateAssumption DEF Requests
  <2> QED BY <1>3, <2>2, <2>3, <2>4
<1> QED BY <1>4, <1>5, <1>6, <1>7, <1>8, <1>9

----------------------------------------
(* One lemma per kind of step. *)

LEMMA EnqueueStep ==
    ASSUME GateInv, NEW new \in Shapes \cup {Slotless}, NEW n \in 1..MaxCalls, Enqueue(new, n)
    PROVE  GateInv'
<1> USE GateAssumption
<1> DEFINE r == handed + 1
           l == IF lane = 0 THEN r ELSE lane
           old == Replaced(waiting[l], new)
<1>1. /\ r \in Requests /\ l \in Requests /\ handed' = r /\ lane' = l /\ handed \in Nat
      /\ shape' = [shape EXCEPT ![r] = new] /\ calls' = [calls EXCEPT ![r] = n]
      /\ home' = [home EXCEPT ![r] = l] /\ idle' = [idle EXCEPT ![r] = 0]
      /\ outcome' = [s \in Requests |-> IF s = r THEN "pending"
                                        ELSE IF s \in old THEN "replaced" ELSE outcome[s]]
      /\ waiting' = [waiting EXCEPT ![l] = (@ \ old) \cup {r}]
      /\ worker' = IF NeedsWorker(l) THEN [worker EXCEPT ![l] = "created"] ELSE worker
      /\ UNCHANGED <<gone, running, paced, silence, rested, cancels>>
  BY DEF Enqueue, GateInv, TypeOK, Requests
<1>2. old \subseteq waiting[l] /\ old \subseteq Requests
      /\ \A s \in old : /\ new # Slotless /\ shape[s] # Slotless /\ Covers(new, shape[s])
                        /\ \A k \in waiting[l] : shape[k] = Slotless => k < s
  BY <1>1 DEF Replaced, GateInv, TypeOK
<1> HIDE DEF old
<1>3. outcome[r] = "unborn" /\ \A m \in Requests : r \notin waiting[m] /\ running[m] # r
  <2>1. outcome[r] = "unborn" BY <1>1 DEF GateInv, Numbered
  <2> QED BY <1>1, <2>1 DEF GateInv, Queued, Called, Requests
<1>4. \A s \in Requests : outcome[s] # "unborn" => s <= handed
  BY <1>1 DEF GateInv, Numbered, Requests
<1>5. \A m \in Requests : m # l => waiting[m] = {} /\ NeedsWorker(m)
  <2>1. CASE lane = 0 BY <2>1 DEF GateInv, OneQueue, Requests
  <2>2. CASE lane # 0 BY <2>2 DEF GateInv, OneQueue
  <2> QED BY <2>1, <2>2
<1>6. /\ waiting'[l] = (waiting[l] \ old) \cup {r}
      /\ \A m \in Requests : m # l => waiting'[m] = {}
      /\ \A m \in Requests : m # l => worker'[m] = worker[m]
      /\ worker'[l] \notin {"none", "cancelled"}
      /\ \A m \in Requests : worker'[m] = "calling" <=> worker[m] = "calling"
  <2>1. worker \in [Requests -> Workers] /\ waiting \in [Requests -> SUBSET Requests]
    BY DEF GateInv, TypeOK
  <2> QED BY <1>1, <1>5, <2>1 DEF NeedsWorker, Workers
<1>7. TypeOK'
  <2>1. "created" \in Workers /\ "pending" \in Outcomes /\ "replaced" \in Outcomes
    BY DEF Workers, Outcomes
  <2>2. l \in 0..MaxRequests /\ r \in 0..MaxRequests /\ n \in 0..MaxCalls BY <1>1 DEF Requests
  <2>3. (waiting[l] \ old) \cup {r} \in SUBSET Requests BY <1>1 DEF GateInv, TypeOK
  <2>4. worker' \in [Requests -> Workers] BY <1>1, <2>1 DEF GateInv, TypeOK
  <2>5. \A m \in Requests : worker'[m] = "calling" <=> running'[m] # 0
    BY <1>1, <1>6 DEF GateInv, TypeOK
  <2>6. outcome' \in [Requests -> Outcomes] BY <1>1, <2>1 DEF GateInv, TypeOK
  <2> QED BY <1>1, <2>2, <2>3, <2>4, <2>5, <2>6 DEF GateInv, TypeOK
<1>8. OneQueue'
  <2>1. \A m \in Requests : m # l => worker'[m] \in {"none", "cancelled"}
    BY <1>5, <1>6 DEF NeedsWorker
  <2>2. worker'[l] # "none" BY <1>6
  <2>3. \A m \in Requests : waiting'[m] # {} => m = l BY <1>6
  <2> HIDE DEF l, r
  <2> QED BY <1>1, <2>1, <2>2, <2>3 DEF OneQueue, NeedsWorker
<1>9. Queued'
  <2> SUFFICES ASSUME NEW m \in Requests, NEW s \in waiting'[m]
               PROVE  outcome'[s] = "pending" /\ home'[s] = m
    BY DEF Queued
  <2>1. m = l /\ s \in (waiting[l] \ old) \cup {r} BY <1>6
  <2>2. CASE s = r BY <1>1, <2>1, <2>2 DEF GateInv, TypeOK
  <2>3. CASE s # r
    <3>1. s \in waiting[l] /\ s \notin old /\ s \in Requests
      BY <1>1, <2>1, <2>3 DEF GateInv, TypeOK
    <3>2. outcome[s] = "pending" /\ home[s] = l BY <1>1, <3>1 DEF GateInv, Queued
    <3> QED BY <1>1, <2>1, <2>3, <3>1, <3>2 DEF GateInv, TypeOK
  <2> QED BY <2>2, <2>3
<1>10. Numbered'
  <2>1. \A s \in old : outcome[s] = "pending" /\ s <= handed
    BY <1>1, <1>2, <1>4 DEF GateInv, Queued
  <2> QED BY <1>1, <1>2, <2>1 DEF GateInv, Numbered, Requests
<1>11. Called'
  <2> SUFFICES ASSUME NEW m \in Requests, running[m] # 0
               PROVE  /\ outcome'[running[m]] = "pending"
                      /\ \A k \in Requests : running[m] \notin waiting'[k]
    BY <1>1 DEF Called
  <2>1. /\ outcome[running[m]] = "pending" /\ running[m] # r
        /\ \A k \in Requests : running[m] \notin waiting[k]
        /\ running[m] \in Requests
    BY <1>3, RunningIsRequest DEF GateInv, Called
  <2>2. running[m] \notin old BY <1>1, <1>2, <2>1
  <2>3. outcome'[running[m]] = "pending" BY <1>1, <2>1, <2>2
  <2>4. \A k \in Requests : running[m] \notin waiting'[k] BY <1>6, <2>1
  <2> QED BY <2>3, <2>4
<1>12. Behind'
  <2> SUFFICES ASSUME NEW s \in waiting'[l], NEW k \in Requests, k > s, k <= r
               PROVE  k \in waiting'[l] \/ outcome'[k] \in {"silent", "replaced"}
    BY <1>1, <1>6 DEF Behind
  <2>1. CASE k = r BY <1>6, <2>1
  <2>2. CASE k # r
    <3>1. s \in waiting[l] /\ k <= handed BY <1>1, <1>6, <2>2 DEF Requests
    <3>2. k \in waiting[l] \/ outcome[k] \in {"silent", "replaced"}
      BY <1>1, <3>1 DEF GateInv, Behind
    <3> QED BY <1>1, <1>2, <1>6, <2>2, <3>2
  <2> QED BY <2>1, <2>2
<1>13. OnlyValuesReplaced' BY <1>1, <1>2, <1>3 DEF GateInv, OnlyValuesReplaced, TypeOK
<1>14. ASSUME NEW s \in old PROVE \A k \in s..r : shape'[k] = Slotless => outcome'[k] = "silent"
  <2> SUFFICES ASSUME NEW k \in s..r, shape'[k] = Slotless PROVE outcome'[k] = "silent" OBVIOUS
  <2>1. s \in waiting[l] /\ s \in Requests /\ s <= handed /\ new # Slotless
        /\ outcome[s] = "pending"
    BY <1>1, <1>2, <1>4 DEF GateInv, Queued
  <2>2. k \in Requests /\ k # r /\ k # s BY <1>1, <1>2, <2>1 DEF GateInv, TypeOK, Requests
  <2>3. k > s /\ k <= handed /\ shape[k] = Slotless
    BY <1>1, <2>1, <2>2 DEF GateInv, TypeOK, Requests
  <2>4. k \notin waiting[l] BY <1>2, <2>1, <2>3, <2>2 DEF Requests
  <2>5. outcome[k] = "silent"
    BY <1>1, <2>1, <2>2, <2>3, <2>4 DEF GateInv, Behind, OnlyValuesReplaced
  <2> QED BY <1>1, <1>2, <2>2, <2>4, <2>5
<1>15. NothingLost'
  <2> SUFFICES ASSUME NEW s \in Requests, outcome'[s] = "replaced"
               PROVE  \E w \in Requests :
                        /\ w > s /\ outcome'[w] \notin {"unborn", "replaced"}
                        /\ shape'[w] # Slotless /\ Covers(shape'[w], shape'[s])
                        /\ \A k \in s..w : shape'[k] = Slotless => outcome'[k] = "silent"
    BY DEF NothingLost, Covers
  <2>1. s # r /\ outcome'[r] = "pending" /\ shape'[r] = new /\ shape'[s] = shape[s]
    BY <1>1 DEF GateInv, TypeOK
  <2>2. CASE s \in old
    <3>1. new # Slotless /\ Covers(new, shape[s]) /\ s \in waiting[l] BY <1>2, <2>2
    <3>2. r > s BY <1>1, <1>4, <3>1 DEF GateInv, Queued, Requests
    <3>3. \A k \in s..r : shape'[k] = Slotless => outcome'[k] = "silent" BY <1>14, <2>2
    <3> HIDE DEF r
    <3> QED BY <1>1, <2>1, <3>1, <3>2, <3>3
  <2>3. CASE s \notin old
    <3>1. outcome[s] = "replaced" BY <1>1, <2>1, <2>3
    <3>2. PICK w \in Requests :
            /\ w > s /\ outcome[w] \notin {"unborn", "replaced"}
            /\ shape[w] # Slotless /\ Covers(shape[w], shape[s])
            /\ \A k \in s..w : shape[k] = Slotless => outcome[k] = "silent"
      BY <3>1 DEF GateInv, NothingLost
    <3>3. w <= handed /\ w # r /\ shape'[w] = shape[w]
      BY <1>1, <1>4, <3>2 DEF GateInv, TypeOK, Requests
    <3>4. \A k \in s..w : shape'[k] = Slotless => outcome'[k] = "silent"
      <4> SUFFICES ASSUME NEW k \in s..w, shape'[k] = Slotless PROVE outcome'[k] = "silent"
        OBVIOUS
      <4>1. k \in Requests /\ k # r BY <1>1, <3>3 DEF Requests
      <4>2. shape[k] = Slotless BY <1>1, <4>1 DEF GateInv, TypeOK
      <4> QED BY <1>1, <1>2, <3>2, <4>1, <4>2
    <3>5. CASE w \notin old BY <1>1, <3>2, <3>3, <3>4, <3>5, <2>1
    <3>6. CASE w \in old
      <4>1. Covers(new, shape[w]) /\ new \in Shapes BY <1>2, <3>6
      <4>2. shape[w] \in Shapes /\ shape[s] \in Shapes
        BY <3>1, <3>2 DEF GateInv, TypeOK, OnlyValuesReplaced
      <4>3. Covers(new, shape[s]) BY <3>2, <4>1, <4>2, CoversTransitive
      <4>4. r > s BY <1>1, <3>2, <3>3 DEF Requests
      <4>5. \A k \in s..r : k \in s..w \/ k \in w..r BY <1>1, <3>2, <3>3 DEF Requests
      <4>6. \A k \in s..r : shape'[k] = Slotless => outcome'[k] = "silent"
        BY <1>14, <3>4, <3>6, <4>5
      <4>7. new # Slotless BY <1>2, <3>6
      <4> QED BY <1>1, <2>1, <4>3, <4>4, <4>6, <4>7
    <3> QED BY <3>5, <3>6
  <2> QED BY <2>2, <2>3
<1> QED BY <1>7, <1>8, <1>9, <1>10, <1>11, <1>12, <1>13, <1>15 DEF GateInv

(* What a step that touches no queue, no outcome and no lane leaves alone. *)
LEMMA QuietStep ==
    ASSUME GateInv, TypeOK',
           UNCHANGED <<handed, shape, outcome, lane, home, waiting, worker, running>>
    PROVE  GateInv'
<1>1. OneQueue' /\ Queued' /\ Numbered' /\ Called'
  BY DEF GateInv, OneQueue, Queued, Numbered, Called, NeedsWorker
<1>2. Behind' /\ OnlyValuesReplaced' BY DEF GateInv, Behind, OnlyValuesReplaced
<1>3. NothingLost' BY DEF GateInv, NothingLost, Covers
<1> QED BY <1>1, <1>2, <1>3 DEF GateInv

LEMMA WakeStep == ASSUME GateInv, NEW l \in Requests, Wake(l) PROVE GateInv'
<1>1. ~NeedsWorker(l) /\ Drain(l) BY DEF Wake, NeedsWorker
<1>2. TypeOK' BY <1>1, DrainFacts DEF Wake, GateInv, TypeOK
<1>3. OneQueue' BY <1>1, DrainFacts DEF GateInv
<1>4. outcome' \in [Requests -> Outcomes] BY DEF Wake, GateInv, TypeOK
<1>5. Queued' /\ Numbered' /\ Called' /\ Behind' /\ OnlyValuesReplaced' /\ NothingLost'
  BY <1>1, <1>4, LeavingKeeps DEF Wake, GateInv
<1> QED BY <1>2, <1>3, <1>5 DEF GateInv

LEMMA AnsweredType ==
    ASSUME TypeOK, NEW l \in Requests, Answered(l)
    PROVE  idle' \in [Requests -> 0..WaitBound] /\ silence' \in 0..WaitBound
<1>1. 0 \in 0..WaitBound BY GateAssumption
<1> QED BY <1>1 DEF Answered, TypeOK

LEMMA NextCallStep == ASSUME GateInv, NEW l \in Requests, NextCall(l) PROVE GateInv'
<1>1. idle' \in [Requests -> 0..WaitBound] /\ silence' \in 0..WaitBound
  BY AnsweredType DEF NextCall, GateInv
<1>2. calls' \in [Requests -> 0..MaxCalls]
  <2>1. running[l] \in Requests BY RunningIsRequest DEF NextCall, GateInv, TypeOK
  <2>2. calls[running[l]] - 1 \in 0..MaxCalls
    BY <2>1, GateAssumption DEF NextCall, GateInv, TypeOK
  <2> QED BY <2>1, <2>2 DEF NextCall, GateInv, TypeOK
<1>3. TypeOK' BY <1>1, <1>2 DEF NextCall, GateInv, TypeOK
<1> QED BY <1>3, QuietStep DEF NextCall

LEMMA FinishStep == ASSUME GateInv, NEW l \in Requests, Finish(l) PROVE GateInv'
<1>1. ~NeedsWorker(l) /\ Drain(l) BY DEF Finish, NeedsWorker
<1>2. running[l] \in Requests BY RunningIsRequest DEF Finish, GateInv, TypeOK
<1>3. outcome' \in [Requests -> Outcomes] /\ calls' \in [Requests -> 0..MaxCalls]
  BY <1>2, GateAssumption DEF Finish, GateInv, TypeOK, Outcomes
<1>4. idle' \in [Requests -> 0..WaitBound] /\ silence' \in 0..WaitBound
  BY AnsweredType DEF Finish, GateInv
<1>5. TypeOK' BY <1>1, <1>3, <1>4, DrainFacts DEF Finish, GateInv, TypeOK
<1>6. \A r \in Requests : outcome'[r] # outcome[r] =>
        running[l] # 0 /\ r = running[l] /\ outcome'[r] \in {"ok", "failed"}
  BY <1>2 DEF Finish, GateInv, TypeOK
<1>7. OneQueue' BY <1>1, DrainFacts DEF GateInv
<1>8. Queued' /\ Numbered' /\ Called' /\ Behind' /\ OnlyValuesReplaced' /\ NothingLost'
  BY <1>1, <1>3, <1>6, LeavingKeeps DEF Finish, GateInv
<1> QED BY <1>5, <1>7, <1>8 DEF GateInv

LEMMA CallFailsStep == ASSUME GateInv, NEW l \in Requests, CallFails(l) PROVE GateInv'
<1>1. ~NeedsWorker(l) /\ Drain(l) BY DEF CallFails, NeedsWorker
<1>2. running[l] \in Requests BY RunningIsRequest DEF CallFails, GateInv, TypeOK
<1>3. outcome' \in [Requests -> Outcomes] BY <1>2 DEF CallFails, GateInv, TypeOK, Outcomes
<1>4. TypeOK' BY <1>1, <1>3, DrainFacts DEF CallFails, GateInv, TypeOK
<1>5. \A r \in Requests : outcome'[r] # outcome[r] =>
        running[l] # 0 /\ r = running[l] /\ outcome'[r] \in {"ok", "failed"}
  BY <1>2 DEF CallFails, GateInv, TypeOK
<1>6. OneQueue' BY <1>1, DrainFacts DEF GateInv
<1>7. Queued' /\ Numbered' /\ Called' /\ Behind' /\ OnlyValuesReplaced' /\ NothingLost'
  BY <1>1, <1>3, <1>5, LeavingKeeps DEF CallFails, GateInv
<1> QED BY <1>4, <1>6, <1>7 DEF GateInv

(* A step that turns pending outcomes into "silent" or "cancelled" loses no *)
(* value: what was replaced stays replaced, and its witness keeps covering. *)
LEMMA GivingUpKeeps ==
    ASSUME GateInv, UNCHANGED <<handed, shape>>, outcome' \in [Requests -> Outcomes],
           \A r \in Requests : outcome'[r] # outcome[r] =>
              outcome[r] = "pending" /\ outcome'[r] \in {"silent", "cancelled"}
    PROVE  Numbered' /\ OnlyValuesReplaced' /\ NothingLost'
<1>1. Numbered' /\ OnlyValuesReplaced' BY DEF GateInv, Numbered, OnlyValuesReplaced
<1>2. NothingLost'
  <2> SUFFICES ASSUME NEW r \in Requests, outcome'[r] = "replaced"
               PROVE  \E n \in Requests :
                        /\ n > r /\ outcome'[n] \notin {"unborn", "replaced"}
                        /\ shape[n] # Slotless /\ Covers(shape[n], shape[r])
                        /\ \A k \in r..n : shape[k] = Slotless => outcome'[k] = "silent"
    BY DEF NothingLost, Covers
  <2>1. PICK n \in Requests :
          /\ n > r /\ outcome[n] \notin {"unborn", "replaced"}
          /\ shape[n] # Slotless /\ Covers(shape[n], shape[r])
          /\ \A k \in r..n : shape[k] = Slotless => outcome[k] = "silent"
    BY DEF GateInv, NothingLost
  <2>2. \A k \in r..n : k \in Requests BY GateAssumption DEF Requests
  <2>3. outcome'[n] \notin {"unborn", "replaced"} BY <2>1
  <2> QED BY <2>1, <2>2, <2>3
<1> QED BY <1>1, <1>2

LEMMA CancelWorkerStep == ASSUME GateInv, NEW l \in Requests, CancelWorker(l) PROVE GateInv'
<1> USE GateAssumption
<1>0. l = lane /\ ~NeedsWorker(l) /\ cancels' \in 0..MaxCancels
  BY DEF CancelWorker, GateInv, OneQueue, NeedsWorker, TypeOK
<1>1. CASE worker[l] = "created"
  <2>1. /\ worker' = [worker EXCEPT ![l] = "cancelled"]
        /\ UNCHANGED <<outcome, lane, waiting, running, handed, shape, calls, gone, home,
                       paced, idle, silence, rested>>
    BY <1>1 DEF CancelWorker
  <2>2. /\ worker' \in [Requests -> Workers] /\ worker'[l] = "cancelled"
        /\ \A m \in Requests : m # l => worker'[m] = worker[m]
    BY <2>1 DEF GateInv, TypeOK, Workers
  <2>3. TypeOK' BY <1>0, <1>1, <2>1, <2>2 DEF GateInv, TypeOK
  <2>4. OneQueue' BY <1>0, <2>1, <2>2 DEF GateInv, OneQueue, NeedsWorker
  <2>5. Queued' /\ Numbered' /\ Called' /\ Behind' /\ OnlyValuesReplaced'
    BY <2>1 DEF GateInv, Queued, Numbered, Called, Behind, OnlyValuesReplaced
  <2>6. NothingLost' BY <2>1 DEF GateInv, NothingLost, Covers
  <2> QED BY <2>3, <2>4, <2>5, <2>6 DEF GateInv
<1>2. CASE worker[l] # "created"
  <2>1. /\ outcome' = [r \in Requests |-> IF r \in waiting[l] \cup {running[l]}
                                          THEN "cancelled" ELSE outcome[r]]
        /\ waiting' = [waiting EXCEPT ![l] = {}]
        /\ worker' = [worker EXCEPT ![l] = "none"]
        /\ running' = [running EXCEPT ![l] = 0]
        /\ lane' = 0
        /\ UNCHANGED <<handed, shape, calls, gone, home, paced, idle, silence, rested>>
    BY <1>0, <1>2 DEF CancelWorker, EndWorker
  <2>2. \A m \in Requests : waiting'[m] = {} /\ worker'[m] \in {"none", "cancelled"}
    BY <1>0, <2>1 DEF GateInv, OneQueue, NeedsWorker, TypeOK
  <2>3. \A m \in Requests : running'[m] = 0
    <3>1. \A m \in Requests : m # l => worker[m] # "calling"
      BY <1>0 DEF GateInv, OneQueue, NeedsWorker
    <3> QED BY <2>1, <3>1 DEF GateInv, TypeOK
  <2>4. outcome' \in [Requests -> Outcomes] BY <2>1 DEF GateInv, TypeOK, Outcomes
  <2>5. TypeOK'
    <3>1. /\ worker' \in [Requests -> Workers] /\ running' \in [Requests -> 0..MaxRequests]
          /\ waiting' \in [Requests -> SUBSET Requests] /\ lane' \in 0..MaxRequests
      BY <2>1 DEF GateInv, TypeOK, Workers
    <3> QED BY <1>0, <2>1, <2>2, <2>3, <2>4, <3>1 DEF GateInv, TypeOK
  <2>6. \A r \in Requests : outcome'[r] # outcome[r] =>
          outcome[r] = "pending" /\ outcome'[r] \in {"silent", "cancelled"}
    <3>1. \A r \in waiting[l] : outcome[r] = "pending" BY DEF GateInv, Queued
    <3>2. running[l] # 0 => outcome[running[l]] = "pending" BY DEF GateInv, Called
    <3>3. 0 \notin Requests BY DEF Requests
    <3> QED BY <2>1, <3>1, <3>2, <3>3 DEF GateInv, TypeOK
  <2>7. Numbered' /\ OnlyValuesReplaced' /\ NothingLost' BY <2>1, <2>4, <2>6, GivingUpKeeps
  <2>8. OneQueue' /\ Queued' /\ Called' /\ Behind'
    BY <2>2, <2>3 DEF OneQueue, Queued, Called, Behind, NeedsWorker
  <2> QED BY <2>5, <2>7, <2>8 DEF GateInv
<1> QED BY <1>1, <1>2

LEMMA ExpireStep == ASSUME GateInv, NEW r \in Requests, Expire(r) PROVE GateInv'
<1> DEFINE l == home[r]
<1>1. /\ l \in Requests /\ r \in waiting[l] /\ outcome[r] = "pending" /\ l = lane
      /\ outcome' = [outcome EXCEPT ![r] = "silent"]
      /\ waiting' = [waiting EXCEPT ![l] = @ \ {r}]
      /\ lane' = IF waiting[l] = {r} /\ NeedsWorker(l) /\ lane = l THEN 0 ELSE lane
      /\ UNCHANGED <<handed, shape, calls, gone, home, worker, running, paced, idle,
                     silence, rested, cancels>>
  <2>1. l \in 0..MaxRequests /\ l # 0 /\ MaxRequests \in Nat
    BY GateAssumption DEF Expire, Waits, GateInv, TypeOK
  <2>2. l \in Requests /\ r \in waiting[l] BY <2>1 DEF Requests, Expire, Waits
  <2> QED BY <2>2 DEF Expire, GateInv, OneQueue
<1> HIDE DEF l
<1>2. /\ waiting'[l] = waiting[l] \ {r}
      /\ \A m \in Requests : m # l => waiting'[m] = waiting[m]
      /\ \A m \in Requests : waiting'[m] \subseteq waiting[m]
      /\ outcome'[r] = "silent" /\ \A s \in Requests : s # r => outcome'[s] = outcome[s]
  BY <1>1 DEF GateInv, TypeOK
<1>3. outcome' \in [Requests -> Outcomes] BY <1>1 DEF GateInv, TypeOK, Outcomes
<1>4. TypeOK'
  <2>1. waiting' \in [Requests -> SUBSET Requests] /\ lane' \in 0..MaxRequests
    BY <1>1, GateAssumption DEF GateInv, TypeOK
  <2> QED BY <1>1, <1>3, <2>1 DEF GateInv, TypeOK
<1>5. OneQueue' BY <1>1, <1>2 DEF GateInv, OneQueue, NeedsWorker
<1>6. Queued' /\ Called'
  <2>1. \A m \in Requests : r \notin waiting'[m] BY <1>1, <1>2 DEF GateInv, Queued
  <2>2. \A m \in Requests : running[m] # 0 => running[m] # r /\ running[m] \in Requests
    BY <1>1, RunningIsRequest DEF GateInv, Called
  <2>3. Queued' BY <1>1, <1>2, <2>1 DEF GateInv, Queued, TypeOK
  <2>4. Called' BY <1>1, <1>2, <2>2 DEF GateInv, Called
  <2> QED BY <2>3, <2>4
<1>7. Behind' BY <1>1, <1>2 DEF GateInv, Behind
<1>8. Numbered' /\ OnlyValuesReplaced' /\ NothingLost' BY <1>1, <1>2, <1>3, GivingUpKeeps
<1> QED BY <1>4, <1>5, <1>6, <1>7, <1>8 DEF GateInv

LEMMA TickStep == ASSUME GateInv, Tick PROVE GateInv'
<1>1. \A b \in Nat : \A n \in 0..b : Later(n, b) \in 0..b BY DEF Later
<1>2. MinInterval \in Nat /\ WaitBound \in Nat BY GateAssumption
<1>3. /\ paced' \in 0..MinInterval /\ rested' \in 0..MinInterval /\ silence' \in 0..WaitBound
      /\ idle' \in [Requests -> 0..WaitBound]
  BY <1>1, <1>2 DEF Tick, GateInv, TypeOK
<1>4. TypeOK' BY <1>3 DEF Tick, GateInv, TypeOK
<1> QED BY <1>4, QuietStep DEF Tick

LEMMA CallerGoesStep == ASSUME GateInv, NEW r \in Requests, CallerGoes(r) PROVE GateInv'
<1>1. TypeOK' BY DEF CallerGoes, GateInv, TypeOK
<1> QED BY <1>1, QuietStep DEF CallerGoes

LEMMA NextKeepsGate == GateInv /\ [Next]_vars => GateInv'
<1> SUFFICES ASSUME GateInv, [Next]_vars PROVE GateInv' OBVIOUS
<1>1. ASSUME NEW new \in Shapes \cup {Slotless}, NEW n \in 1..MaxCalls, Enqueue(new, n)
      PROVE  GateInv'
  BY <1>1, EnqueueStep
<1>2. ASSUME NEW l \in Requests, Wake(l) PROVE GateInv' BY <1>2, WakeStep
<1>3. ASSUME NEW l \in Requests, NextCall(l) PROVE GateInv' BY <1>3, NextCallStep
<1>4. ASSUME NEW l \in Requests, Finish(l) PROVE GateInv' BY <1>4, FinishStep
<1>5. ASSUME NEW l \in Requests, CallFails(l) PROVE GateInv' BY <1>5, CallFailsStep
<1>6. ASSUME NEW l \in Requests, CancelWorker(l) PROVE GateInv' BY <1>6, CancelWorkerStep
<1>7. ASSUME NEW r \in Requests, Expire(r) PROVE GateInv' BY <1>7, ExpireStep
<1>8. ASSUME NEW r \in Requests, CallerGoes(r) PROVE GateInv' BY <1>8, CallerGoesStep
<1>9. CASE Tick BY <1>9, TickStep
<1>10. CASE UNCHANGED vars
  <2>1. TypeOK' BY <1>10 DEF vars, GateInv, TypeOK
  <2> QED BY <1>10, <2>1, QuietStep DEF vars
<1> QED BY <1>1, <1>2, <1>3, <1>4, <1>5, <1>6, <1>7, <1>8, <1>9, <1>10 DEF Next

----------------------------------------
(* For any requests, slots and strengths: the gate's variables keep their *)
(* types, the device never has two live lanes, so never two workers *)
(* (_enqueue, _drain, _outcome), and however many values replace each other, *)
(* each is covered by a later one that is not replaced, with no on, off or *)
(* toggle between (_supersede). *)
THEOREM GateIsSafe == Spec => []GateSafe
<1>1. Spec => []GateInv BY InitGate, NextKeepsGate, PTL DEF Spec
<1>2. GateInv => GateSafe BY DEF GateInv, GateSafe
<1> QED BY <1>1, <1>2, PTL

----------------------------------------
(* What one step may not do, per request and per clock. *)

FinalStep == \A r \in Requests : outcome[r] \notin {"unborn", "pending"} => outcome'[r] = outcome[r]

SpacedStep == \A l \in Requests :
    running'[l] \notin {0, running[l]} /\ shape[running'[l]] # Slotless => rested = MinInterval

PatientStep == \A r \in Requests :
    outcome[r] = "pending" /\ outcome'[r] = "silent" => silence = WaitBound

(* The clocks: `_paced_at` is the last start of a value, and a request has *)
(* not waited longer than the device has been silent. *)
ClocksAgree == paced = rested /\ \A r \in Requests : Waits(r) => idle[r] <= silence

StepInv == GateInv /\ ClocksAgree

LEMMA InitStepInv == Init => StepInv
<1>1. Init => ClocksAgree BY DEF Init, ClocksAgree, Waits
<1> QED BY <1>1, InitGate DEF StepInv

(* Requests that stop waiting do not disturb the clocks. *)
LEMMA FewerWait ==
    ASSUME StepInv, UNCHANGED <<home, idle, silence>>, paced' = rested',
           \A m \in Requests : waiting'[m] \subseteq waiting[m]
    PROVE  ClocksAgree'
<1> SUFFICES ASSUME NEW r \in Requests, Waits(r)' PROVE idle'[r] <= silence' BY DEF ClocksAgree
<1>1. home[r] \in Requests BY GateAssumption DEF StepInv, GateInv, TypeOK, Waits, Requests
<1>2. Waits(r) BY <1>1 DEF Waits
<1> QED BY <1>2 DEF StepInv, ClocksAgree

(* All that waits waits in the lane of the worker that makes calls, so an *)
(* answer of the device starts every wait over. *)
LEMMA AnswerRestartsWaits ==
    ASSUME StepInv, NEW l \in Requests, worker[l] = "calling", Answered(l),
           UNCHANGED home, paced' = rested',
           \A m \in Requests : waiting'[m] \subseteq waiting[m]
    PROVE  ClocksAgree'
<1> SUFFICES ASSUME NEW r \in Requests, Waits(r)' PROVE idle'[r] <= silence' BY DEF ClocksAgree
<1>0. home[r] # 0 /\ r \in waiting'[home[r]] /\ home[r] \in 0..MaxRequests
  BY DEF Waits, StepInv, GateInv, TypeOK
<1>1. home[r] \in Requests /\ waiting[home[r]] # {} BY <1>0 DEF Requests
<1>2. home[r] = lane /\ l = lane BY <1>1 DEF StepInv, GateInv, OneQueue, NeedsWorker
<1>3. idle'[r] = 0 /\ silence' = 0 BY <1>2 DEF Answered
<1> QED BY <1>3

(* A look at the queue keeps the two value clocks together, and starts a *)
(* value only when they have run down. *)
LEMMA DrainClocks ==
    ASSUME StepInv, NEW l \in Requests, Drain(l), UNCHANGED shape
    PROVE  paced' = rested' /\ SpacedStep
<1>1. paced = rested /\ paced \in 0..MinInterval /\ MinInterval \in Nat
  BY GateAssumption DEF StepInv, ClocksAgree, GateInv, TypeOK
<1>2. CASE running' = [running EXCEPT ![l] = 0] /\ UNCHANGED <<paced, rested>>
  BY <1>1, <1>2 DEF SpacedStep, StepInv, GateInv, TypeOK
<1>3. CASE \E r \in Requests :
              /\ ~MustPause(l, r) /\ running' = [running EXCEPT ![l] = r]
              /\ paced' = IF shape[r] = Slotless THEN paced ELSE 0
              /\ rested' = IF shape[r] = Slotless THEN rested ELSE 0
  <2>1. PICK r \in Requests :
              /\ ~MustPause(l, r) /\ running' = [running EXCEPT ![l] = r]
              /\ paced' = IF shape[r] = Slotless THEN paced ELSE 0
              /\ rested' = IF shape[r] = Slotless THEN rested ELSE 0
    BY <1>3
  <2>2. shape[r] # Slotless => rested = MinInterval BY <1>1, <2>1 DEF MustPause
  <2>3. SpacedStep BY <2>1, <2>2 DEF SpacedStep, StepInv, GateInv, TypeOK
  <2> QED BY <1>1, <2>1, <2>3
<1> QED BY <1>2, <1>3 DEF Drain, EndWorker

(* A step that starts no request and answers none. *)
LEMMA NothingStarts ==
    ASSUME UNCHANGED <<running, outcome>>
    PROVE  FinalStep /\ SpacedStep /\ PatientStep
  BY DEF FinalStep, SpacedStep, PatientStep

LEMMA EnqueueRules ==
    ASSUME StepInv, NEW new \in Shapes \cup {Slotless}, NEW n \in 1..MaxCalls, Enqueue(new, n)
    PROVE  ClocksAgree' /\ FinalStep /\ SpacedStep /\ PatientStep
<1> USE GateAssumption
<1> DEFINE r == handed + 1
           l == IF lane = 0 THEN r ELSE lane
           old == Replaced(waiting[l], new)
<1>1. /\ r \in Requests /\ l \in Requests /\ outcome[r] = "unborn"
      /\ old \subseteq waiting[l]
      /\ \A s \in waiting[l] : outcome[s] = "pending"
  <2>1. handed \in 0..MaxRequests /\ handed < MaxRequests /\ lane \in 0..MaxRequests
    BY DEF Enqueue, StepInv, GateInv, TypeOK
  <2>2. r \in Requests /\ l \in Requests BY <2>1 DEF Requests
  <2>3. outcome[r] = "unborn" BY <2>1, <2>2 DEF StepInv, GateInv, Numbered
  <2>4. old \subseteq waiting[l] BY DEF Replaced
  <2>5. \A s \in waiting[l] : outcome[s] = "pending" BY <2>2 DEF StepInv, GateInv, Queued
  <2> HIDE DEF r, l, old
  <2> QED BY <2>2, <2>3, <2>4, <2>5
<1>2. /\ home' = [home EXCEPT ![r] = l] /\ idle' = [idle EXCEPT ![r] = 0]
      /\ outcome' = [s \in Requests |-> IF s = r THEN "pending"
                                        ELSE IF s \in old THEN "replaced" ELSE outcome[s]]
      /\ waiting' = [waiting EXCEPT ![l] = (@ \ old) \cup {r}]
      /\ UNCHANGED <<running, paced, silence, rested>>
  BY DEF Enqueue
<1> HIDE DEF old, l, r
<1>3. FinalStep BY <1>1, <1>2 DEF FinalStep
<1>4. SpacedStep BY <1>2 DEF SpacedStep
<1>5. PatientStep BY <1>2 DEF PatientStep
<1>6. ClocksAgree'
  <2> SUFFICES ASSUME NEW s \in Requests, Waits(s)' PROVE idle'[s] <= silence'
    BY <1>2 DEF ClocksAgree, StepInv
  <2>1. CASE s = r BY <1>1, <1>2, <2>1 DEF StepInv, GateInv, TypeOK
  <2>2. CASE s # r
    <3>0. home \in [Requests -> 0..MaxRequests] /\ idle \in [Requests -> 0..WaitBound]
      BY DEF StepInv, GateInv, TypeOK
    <3>1. home'[s] = home[s] /\ idle'[s] = idle[s] /\ home[s] # 0 /\ home[s] \in Requests
      <4>1. home'[s] = home[s] /\ idle'[s] = idle[s] BY <1>1, <1>2, <2>2, <3>0
      <4>2. home[s] # 0 BY <4>1 DEF Waits
      <4> QED BY <3>0, <4>1, <4>2 DEF Requests
    <3>2. s \in waiting[home[s]] BY <1>1, <1>2, <2>2, <3>1 DEF Waits, StepInv, GateInv, TypeOK
    <3> QED BY <1>2, <3>1, <3>2 DEF Waits, ClocksAgree, StepInv
  <2> QED BY <2>1, <2>2
<1> QED BY <1>3, <1>4, <1>5, <1>6

LEMMA WakeRules ==
    ASSUME StepInv, NEW l \in Requests, Wake(l)
    PROVE  ClocksAgree' /\ FinalStep /\ SpacedStep /\ PatientStep
<1>1. ~NeedsWorker(l) /\ Drain(l) /\ UNCHANGED <<outcome, shape, home, idle, silence>>
  BY DEF Wake, NeedsWorker
<1>2. paced' = rested' /\ SpacedStep BY <1>1, DrainClocks
<1>3. \A m \in Requests : waiting'[m] \subseteq waiting[m]
  BY <1>1, DrainFacts DEF StepInv, GateInv
<1>4. ClocksAgree' BY <1>1, <1>2, <1>3, FewerWait
<1> QED BY <1>1, <1>2, <1>4 DEF FinalStep, PatientStep

LEMMA NextCallRules ==
    ASSUME StepInv, NEW l \in Requests, NextCall(l)
    PROVE  ClocksAgree' /\ FinalStep /\ SpacedStep /\ PatientStep
<1>1. ClocksAgree' BY AnswerRestartsWaits DEF NextCall, StepInv, ClocksAgree
<1> QED BY <1>1, NothingStarts DEF NextCall

LEMMA FinishRules ==
    ASSUME StepInv, NEW l \in Requests, Finish(l)
    PROVE  ClocksAgree' /\ FinalStep /\ SpacedStep /\ PatientStep
<1>1. ~NeedsWorker(l) /\ Drain(l) /\ worker[l] = "calling" /\ Answered(l)
      /\ UNCHANGED <<shape, home>> /\ outcome' = [outcome EXCEPT ![running[l]] = "ok"]
  BY DEF Finish, NeedsWorker
<1>2. paced' = rested' /\ SpacedStep BY <1>1, DrainClocks
<1>3. \A m \in Requests : waiting'[m] \subseteq waiting[m]
  BY <1>1, DrainFacts DEF StepInv, GateInv
<1>4. ClocksAgree' BY <1>1, <1>2, <1>3, AnswerRestartsWaits
<1>5. running[l] \in Requests /\ outcome[running[l]] = "pending"
  BY <1>1, RunningIsRequest DEF StepInv, GateInv, TypeOK, Called
<1> QED BY <1>1, <1>2, <1>4, <1>5 DEF FinalStep, PatientStep, StepInv, GateInv, TypeOK

LEMMA CallFailsRules ==
    ASSUME StepInv, NEW l \in Requests, CallFails(l)
    PROVE  ClocksAgree' /\ FinalStep /\ SpacedStep /\ PatientStep
<1>1. ~NeedsWorker(l) /\ Drain(l) /\ worker[l] = "calling"
      /\ UNCHANGED <<shape, home, idle, silence>>
      /\ outcome' = [outcome EXCEPT ![running[l]] = "failed"]
  BY DEF CallFails, NeedsWorker
<1>2. paced' = rested' /\ SpacedStep BY <1>1, DrainClocks
<1>3. \A m \in Requests : waiting'[m] \subseteq waiting[m]
  BY <1>1, DrainFacts DEF StepInv, GateInv
<1>4. ClocksAgree' BY <1>1, <1>2, <1>3, FewerWait
<1>5. running[l] \in Requests /\ outcome[running[l]] = "pending"
  BY <1>1, RunningIsRequest DEF StepInv, GateInv, TypeOK, Called
<1> QED BY <1>1, <1>2, <1>4, <1>5 DEF FinalStep, PatientStep, StepInv, GateInv, TypeOK

LEMMA CancelWorkerRules ==
    ASSUME StepInv, NEW l \in Requests, CancelWorker(l)
    PROVE  ClocksAgree' /\ FinalStep /\ SpacedStep /\ PatientStep
<1>1. /\ UNCHANGED <<home, idle, silence, paced, rested>>
      /\ \A m \in Requests : waiting'[m] \subseteq waiting[m]
      /\ \A m \in Requests : running'[m] \in {0, running[m]}
  BY DEF CancelWorker, EndWorker, StepInv, GateInv, TypeOK
<1>2. ClocksAgree' BY <1>1, FewerWait DEF StepInv, ClocksAgree
<1>3. \A r \in Requests : outcome'[r] # outcome[r] =>
        outcome[r] = "pending" /\ outcome'[r] = "cancelled"
  <2>1. \A r \in waiting[l] : outcome[r] = "pending" BY DEF StepInv, GateInv, Queued
  <2>2. running[l] \in Requests => outcome[running[l]] = "pending"
    BY GateAssumption DEF StepInv, GateInv, Called, Requests
  <2> QED BY <2>1, <2>2 DEF CancelWorker, StepInv, GateInv, TypeOK
<1> QED BY <1>1, <1>2, <1>3 DEF FinalStep, SpacedStep, PatientStep

LEMMA ExpireRules ==
    ASSUME StepInv, NEW r \in Requests, Expire(r)
    PROVE  ClocksAgree' /\ FinalStep /\ SpacedStep /\ PatientStep
<1>1. /\ UNCHANGED <<home, idle, silence, paced, rested, running>>
      /\ outcome[r] = "pending" /\ outcome' = [outcome EXCEPT ![r] = "silent"]
      /\ \A m \in Requests : waiting'[m] \subseteq waiting[m]
  BY DEF Expire, StepInv, GateInv, TypeOK
<1>2. ClocksAgree' BY <1>1, FewerWait DEF StepInv, ClocksAgree
<1>3. idle[r] = WaitBound /\ idle[r] <= silence /\ silence \in 0..WaitBound
  BY DEF Expire, StepInv, ClocksAgree, GateInv, TypeOK
<1>4. silence = WaitBound BY <1>3, GateAssumption
<1> QED BY <1>1, <1>2, <1>4 DEF FinalStep, SpacedStep, PatientStep, StepInv, GateInv, TypeOK

LEMMA TickRules ==
    ASSUME StepInv, Tick
    PROVE  ClocksAgree' /\ FinalStep /\ SpacedStep /\ PatientStep
<1>1. FinalStep /\ SpacedStep /\ PatientStep BY NothingStarts DEF Tick
<1>2. ClocksAgree'
  <2> SUFFICES ASSUME NEW r \in Requests, Waits(r)' PROVE idle'[r] <= silence'
    BY DEF ClocksAgree, Tick, StepInv
  <2>1. Waits(r) BY DEF Tick, Waits
  <2>2. idle[r] <= silence /\ idle[r] \in 0..WaitBound /\ silence \in 0..WaitBound
    BY <2>1 DEF StepInv, ClocksAgree, GateInv, TypeOK
  <2>3. idle'[r] = Later(idle[r], WaitBound) /\ silence' = Later(silence, WaitBound)
    BY <2>1 DEF Tick
  <2> QED BY <2>2, <2>3, GateAssumption DEF Later
<1> QED BY <1>1, <1>2

LEMMA NextObeysRules ==
    StepInv /\ [Next]_vars => StepInv' /\ FinalStep /\ SpacedStep /\ PatientStep
<1> SUFFICES ASSUME StepInv, [Next]_vars
             PROVE  ClocksAgree' /\ FinalStep /\ SpacedStep /\ PatientStep
  BY NextKeepsGate DEF StepInv
<1> DEFINE Rules == ClocksAgree' /\ FinalStep /\ SpacedStep /\ PatientStep
<1>1. ASSUME NEW new \in Shapes \cup {Slotless}, NEW n \in 1..MaxCalls, Enqueue(new, n)
      PROVE  Rules
  BY <1>1, EnqueueRules
<1>2. ASSUME NEW l \in Requests, Wake(l) PROVE Rules BY <1>2, WakeRules
<1>3. ASSUME NEW l \in Requests, NextCall(l) PROVE Rules BY <1>3, NextCallRules
<1>4. ASSUME NEW l \in Requests, Finish(l) PROVE Rules BY <1>4, FinishRules
<1>5. ASSUME NEW l \in Requests, CallFails(l) PROVE Rules BY <1>5, CallFailsRules
<1>6. ASSUME NEW l \in Requests, CancelWorker(l) PROVE Rules BY <1>6, CancelWorkerRules
<1>7. ASSUME NEW r \in Requests, Expire(r) PROVE Rules BY <1>7, ExpireRules
<1>8. ASSUME UNCHANGED <<outcome, running, home, idle, silence, waiting, paced, rested>>
      PROVE  Rules
  BY <1>8, FewerWait, NothingStarts DEF StepInv, ClocksAgree
<1>9. ASSUME NEW r \in Requests, CallerGoes(r) PROVE Rules BY <1>8, <1>9 DEF CallerGoes
<1>10. CASE Tick BY <1>10, TickRules
<1>11. CASE UNCHANGED vars BY <1>8, <1>11 DEF vars
<1> QED BY <1>1, <1>2, <1>3, <1>4, <1>5, <1>6, <1>7, <1>9, <1>10, <1>11 DEF Next

(* No step of the gate answers a request twice, starts a value too soon *)
(* after another, or takes a slow device for a silent one (_drain, _outcome).*)
THEOREM RequestsAreServed == Spec => RequestSteps
<1>1. StepInv /\ [Next]_vars => StepInv' BY NextObeysRules
<1>2. StepInv /\ [Next]_vars =>
        [\A r \in Requests : outcome[r] \notin {"unborn", "pending"} => outcome'[r] = outcome[r]]_vars
  BY NextObeysRules DEF FinalStep
<1>3. StepInv /\ [Next]_vars =>
        [\A l \in Requests :
           running'[l] \notin {0, running[l]} /\ shape[running'[l]] # Slotless
              => rested = MinInterval]_vars
  BY NextObeysRules DEF SpacedStep
<1>4. StepInv /\ [Next]_vars =>
        [\A r \in Requests : outcome[r] = "pending" /\ outcome'[r] = "silent"
                             => silence = WaitBound]_vars
  BY NextObeysRules DEF PatientStep
<1> QED BY InitStepInv, <1>1, <1>2, <1>3, <1>4, PTL
        DEF Spec, RequestSteps, OutcomeIsFinal, ValuesAreSpaced, SlowIsNotSilent

----------------------------------------
(* The removal of a device. *)

\* The source is asked by a task that waits for it, and a task that ended well
\* has made the store forget its device: without the first, a call that nobody
\* knows of would end a removal that was answered; without the second, a page
\* that was told to wait would be left with a tile.
CallIsOfTheTask == \A d \in Removable : call[d] # "none" => removal[d] = "asked"
RemovedIsForgotten == \A d \in Removable : removal[d] = "removed" => d \notin listed

RemovalInv == RemovalSafe /\ CallIsOfTheTask /\ RemovedIsForgotten

LEMMA RemovalInitInv == RemovalInit => RemovalInv
  BY RemovalAssumption DEF RemovalInit, RemovalInv, RemovalSafe, RemovalTypeOK, NothingLeftBehind,
     RemovedIsTrue, NobodyIsLeftWaiting, WaitsForTheTask, NoOldReason, CallIsOfTheTask,
     RemovedIsForgotten

\* A task that ends leaves nobody waiting for it, whichever way it ends.
LEMMA TaskEndsInv ==
  ASSUME RemovalInv, NEW d \in Removable, NEW how \in {"removed", "refused", "failed"},
         call[d] # "none" \/ removal[d] = "begun",
         TaskEnds(d, how),
         listed' = IF how = "removed" THEN listed \ {d} ELSE listed,
         how = "removed" => d \notin joined,
         late' \subseteq Removable, removalFaults' \in 0..MaxRemovalFaults,
         UNCHANGED <<joined, link, failed, leftAlone, outages>>
  PROVE  RemovalInv'
<1> USE RemovalAssumption DEF RemovalInv, RemovalSafe, TaskEnds
<1>1. RemovalTypeOK' BY DEF RemovalTypeOK
<1>2. NothingLeftBehind' /\ NoOldReason' /\ CallIsOfTheTask' /\ RemovedIsForgotten'
  BY DEF RemovalTypeOK, NothingLeftBehind, NoOldReason, CallIsOfTheTask, RemovedIsForgotten
<1>3. RemovedIsTrue' /\ NobodyIsLeftWaiting' /\ WaitsForTheTask'
  BY DEF RemovalTypeOK, RemovedIsTrue, NobodyIsLeftWaiting, WaitsForTheTask, Running,
     RemovedIsForgotten, CallIsOfTheTask
<1> QED BY <1>1, <1>2, <1>3

LEMMA RemoveDeviceInv ==
  ASSUME RemovalInv, NEW r \in Deletes, NEW forgetOnly \in BOOLEAN, RemoveDevice(r, forgetOnly)
  PROVE  RemovalInv'
<1> DEFINE d == Target[r]
<1> USE RemovalAssumption DEF RemovalInv, RemovalSafe, RemoveDevice, Replied
<1>1. d \in Removable OBVIOUS
<1>2. CASE UNCHANGED <<listed, leftAlone, removal, failed>>
           /\ \E what \in {"unknown", "declined"} : Replied(r, what)
  BY <1>1, <1>2 DEF RemovalTypeOK, NothingLeftBehind, RemovedIsTrue, NobodyIsLeftWaiting,
     WaitsForTheTask, Running, NoOldReason, CallIsOfTheTask, RemovedIsForgotten
<1>3. CASE d \in listed /\ Unserved(r, forgetOnly)
  <2>1. CASE link[Technology[d]] = "none" /\ forgetOnly
    BY <1>1, <1>3, <2>1 DEF Unserved, RemovalTypeOK, NothingLeftBehind, RemovedIsTrue,
       NobodyIsLeftWaiting, WaitsForTheTask, Running, NoOldReason, CallIsOfTheTask,
       RemovedIsForgotten
  <2>2. CASE ~(link[Technology[d]] = "none" /\ forgetOnly)
    BY <1>1, <1>3, <2>2 DEF Unserved, RemovalTypeOK, NothingLeftBehind, RemovedIsTrue,
       NobodyIsLeftWaiting, WaitsForTheTask, Running, NoOldReason, CallIsOfTheTask,
       RemovedIsForgotten
  <2> QED BY <2>1, <2>2
<1>4. CASE d \in listed /\ Served(r)
  <2>1. CASE removal[d] = "none"
    BY <1>1, <1>4, <2>1 DEF Served, RemovalTypeOK, NothingLeftBehind, RemovedIsTrue,
       NobodyIsLeftWaiting, WaitsForTheTask, Running, NoOldReason, CallIsOfTheTask,
       RemovedIsForgotten
  <2>2. CASE removal[d] # "none"
    BY <1>1, <1>4, <2>2 DEF Served, RemovalTypeOK, NothingLeftBehind, RemovedIsTrue,
       NobodyIsLeftWaiting, WaitsForTheTask, Running, NoOldReason, CallIsOfTheTask,
       RemovedIsForgotten
  <2> QED BY <2>1, <2>2
<1> QED BY <1>2, <1>3, <1>4

LEMMA RemovalNextInv == RemovalInv /\ [RemovalNext]_removalVars => RemovalInv'
<1> SUFFICES ASSUME RemovalInv, [RemovalNext]_removalVars PROVE RemovalInv' OBVIOUS
<1> USE RemovalAssumption
<1>1. CASE UNCHANGED removalVars
  BY <1>1 DEF removalVars, RemovalInv, RemovalSafe, RemovalTypeOK, NothingLeftBehind, RemovedIsTrue,
     NobodyIsLeftWaiting, WaitsForTheTask, Running, NoOldReason, CallIsOfTheTask, RemovedIsForgotten
<1>2. ASSUME NEW r \in Deletes, NEW forgetOnly \in BOOLEAN, RemoveDevice(r, forgetOnly)
      PROVE  RemovalInv'
  BY <1>2, RemoveDeviceInv
<1>3. ASSUME NEW r \in Deletes, PatienceEnds(r) PROVE RemovalInv'
  BY <1>3 DEF PatienceEnds, Replied, RemovalInv, RemovalSafe, RemovalTypeOK, NothingLeftBehind,
     RemovedIsTrue, NobodyIsLeftWaiting, WaitsForTheTask, Running, NoOldReason, CallIsOfTheTask,
     RemovedIsForgotten
<1>4. ASSUME NEW d \in Removable, AsksSource(d) PROVE RemovalInv'
  <2>1. CASE link[Technology[d]] = "up"
    BY <1>4, <2>1 DEF AsksSource, RemovalInv, RemovalSafe, RemovalTypeOK, NothingLeftBehind,
       RemovedIsTrue, NobodyIsLeftWaiting, WaitsForTheTask, Running, NoOldReason, CallIsOfTheTask,
       RemovedIsForgotten
  <2>2. CASE link[Technology[d]] # "up"
    BY <1>4, <2>2, TaskEndsInv DEF AsksSource, RemovalInv, RemovalSafe, RemovalTypeOK
  <2> QED BY <2>1, <2>2
<1>5. ASSUME NEW d \in Removable, LetsGo(d) PROVE RemovalInv'
  BY <1>5 DEF LetsGo, RemovalInv, RemovalSafe, RemovalTypeOK, NothingLeftBehind, RemovedIsTrue,
     NobodyIsLeftWaiting, WaitsForTheTask, Running, NoOldReason, CallIsOfTheTask, RemovedIsForgotten
<1>6. ASSUME NEW d \in Removable, IsGone(d) PROVE RemovalInv'
  BY <1>6, TaskEndsInv DEF IsGone, GivesWay, RemovalInv, RemovalSafe, RemovalTypeOK
<1>7. ASSUME NEW d \in Removable, ForgettingFails(d) PROVE RemovalInv'
  BY <1>7, TaskEndsInv DEF ForgettingFails, GivesWay, Faulty, RemovalInv, RemovalSafe, RemovalTypeOK
<1>8. ASSUME NEW d \in Removable, Refuses(d) PROVE RemovalInv'
  BY <1>8, TaskEndsInv DEF Refuses, Refused, Faulty, RemovalInv, RemovalSafe, RemovalTypeOK
<1>9. ASSUME NEW d \in Removable, CutOff(d) PROVE RemovalInv'
  <2>1. Left(d) \subseteq Removable BY DEF Left
  <2> QED BY <1>9, <2>1, TaskEndsInv DEF CutOff, RemovalInv, RemovalSafe, RemovalTypeOK
<1>10. ASSUME NEW d \in Removable, LateCall(d) PROVE RemovalInv'
  BY <1>10 DEF LateCall, RemovalInv, RemovalSafe, RemovalTypeOK, NothingLeftBehind, RemovedIsTrue,
     NobodyIsLeftWaiting, WaitsForTheTask, Running, NoOldReason, CallIsOfTheTask, RemovedIsForgotten
<1>11. ASSUME NEW d \in Removable, RemovalFinished(d) PROVE RemovalInv'
  BY <1>11 DEF RemovalFinished, Reasons, RemovalInv, RemovalSafe, RemovalTypeOK, NothingLeftBehind,
     RemovedIsTrue, NobodyIsLeftWaiting, WaitsForTheTask, Running, NoOldReason, CallIsOfTheTask,
     RemovedIsForgotten
<1>12. ASSUME NEW t \in {"matter", "zigbee"}, SourceTurns(t) PROVE RemovalInv'
  BY <1>12 DEF SourceTurns, Outage, RemovalInv, RemovalSafe, RemovalTypeOK, NothingLeftBehind,
     RemovedIsTrue, NobodyIsLeftWaiting, WaitsForTheTask, Running, NoOldReason, CallIsOfTheTask,
     RemovedIsForgotten
<1>13. CASE RemovalRestarts
  BY <1>13 DEF RemovalRestarts, Outage, RemovalInv, RemovalSafe, RemovalTypeOK, NothingLeftBehind,
     RemovedIsTrue, NobodyIsLeftWaiting, WaitsForTheTask, Running, NoOldReason, CallIsOfTheTask,
     RemovedIsForgotten
<1> QED BY <1>1, <1>2, <1>3, <1>4, <1>5, <1>6, <1>7, <1>8, <1>9, <1>10, <1>11, <1>12,
         <1>13 DEF RemovalNext

\* No device is left behind at its source, no page is left waiting for a
\* removal that is over, and none shows a reason that is out of date.
THEOREM RemovalIsSafe == RemovalSpec => []RemovalSafe
<1>1. RemovalInv => RemovalSafe BY DEF RemovalInv
<1> QED BY <1>1, RemovalInitInv, RemovalNextInv, PTL DEF RemovalSpec

\* The store forgets what its source has let go of, and matter-server is only
\* said to refuse what it holds.
THEOREM RemovalsAreOrdered == RemovalSpec => RemovalSteps
<1>1. ASSUME RemovalInv, [RemovalNext]_removalVars PROVE [RemovalStep]_removalVars
  <2> USE RemovalAssumption DEF RemovalInv, RemovalSafe, RemovalTypeOK
  <2>1. ASSUME UNCHANGED <<listed, removal>> PROVE RemovalStep BY <2>1 DEF RemovalStep
  \* What a step that refuses nothing, and forgets one device at most, has to show.
  <2>2. ASSUME NEW d \in Removable, NEW to \in {"none", "begun", "asked", "removed", "failed"},
               removal' = [removal EXCEPT ![d] = to],
               listed' = listed \/ (listed' = listed \ {d} /\ d \notin joined)
        PROVE  RemovalStep
    <3>1. \A e \in listed \ listed' : e \notin joined BY <2>2
    <3>2. \A e \in Removable : removal[e] = "asked" => removal'[e] # "refused" BY <2>2
    <3> QED BY <3>1, <3>2 DEF RemovalStep
  <2>3. ASSUME NEW r \in Deletes, NEW forgetOnly \in BOOLEAN, RemoveDevice(r, forgetOnly)
        PROVE  RemovalStep
    <3>1. Target[r] \in Removable OBVIOUS
    <3>2. CASE UNCHANGED <<listed, removal>> BY <2>1, <3>2
    <3>3. CASE Unserved(r, forgetOnly) BY <3>3 DEF Unserved, RemovalStep
    <3>4. CASE Served(r) BY <2>1, <2>2, <3>1, <3>4 DEF Served
    <3> QED BY <2>3, <3>2, <3>3, <3>4 DEF RemoveDevice
  <2>4. ASSUME NEW d \in Removable, AsksSource(d) PROVE RemovalStep
    <3>1. \E to \in {"asked", "failed"} : removal' = [removal EXCEPT ![d] = to]
      BY <2>4 DEF AsksSource, TaskEnds
    <3> QED BY <2>2, <2>4, <3>1 DEF AsksSource
  <2>5. ASSUME NEW d \in Removable, IsGone(d) \/ ForgettingFails(d) \/ CutOff(d) PROVE RemovalStep
    <3>1. \E to \in {"removed", "failed"} : removal' = [removal EXCEPT ![d] = to]
      BY <2>5 DEF IsGone, ForgettingFails, CutOff, TaskEnds
    <3>2. listed' = listed \/ (listed' = listed \ {d} /\ d \notin joined)
      BY <2>5 DEF IsGone, ForgettingFails, CutOff, GivesWay
    <3> QED BY <2>2, <3>1, <3>2
  <2>6. ASSUME NEW d \in Removable, Refuses(d) PROVE RemovalStep
    BY <2>6 DEF Refuses, Refused, TaskEnds, RemovalStep
  <2>7. ASSUME NEW d \in Removable, RemovalFinished(d) PROVE RemovalStep
    BY <2>2, <2>7 DEF RemovalFinished
  <2>8. CASE RemovalRestarts BY <2>8 DEF RemovalRestarts, RemovalStep
  <2> QED BY <1>1, <2>1, <2>3, <2>4, <2>5, <2>6, <2>7, <2>8
    DEF RemovalNext, PatienceEnds, LetsGo, LateCall, SourceTurns, removalVars
<1> QED BY <1>1, RemovalInitInv, RemovalNextInv, PTL DEF RemovalSpec, RemovalSteps

\* What a removal promises to the page that asked for it and to the next one.
THEOREM RemovalHolds == RemovalSpec => RemovalIsRight
  BY RemovalIsSafe, RemovalsAreOrdered DEF RemovalIsRight

----------------------------------------
(* Who is let in. *)

\* A caller who is not locked out has as many attempts behind it as failures, or
\* none since its last lock; without it the next attempt might be one too many.
FreeTries ==
    \A b \in Browsers \ blocked :
        tries[b] = IF failures[b] < Limit THEN failures[b] ELSE 0

\* A session loses with every tick what its idleness gains.
LastsAsItShould == \A i \in sessions : lasts[i] + unused[i] > Lifetime - ExtendAfter

\* Nobody logs in with the token.
BrowsersLogIn ==
    \A a \in Attempts : attempt[a].kind \in {"setup", "login"} => attempt[a].who \in Browsers

LoginInv ==
    LoginTypeOK /\ BrowsersLogIn /\ FewTries /\ LockedForAReason /\ FreeTries /\ LastsAsItShould

LEMMA LoginInitInv == LoginInit => LoginInv
  BY LoginAssumption DEF LoginInit, LoginInv, LoginTypeOK, FewTries, LockedForAReason, FreeTries,
     LastsAsItShould, BrowsersLogIn, Unsent

LEMMA LoginInvIsSafe == LoginInv => LoginSafe
<1> SUFFICES ASSUME LoginInv PROVE LoginSafe OBVIOUS
<1>1. UsedIsValid BY LoginAssumption DEF LoginInv, LoginTypeOK, LastsAsItShould, UsedIsValid
<1> QED BY <1>1 DEF LoginInv, LoginSafe

\* The throttle and the sessions have nothing in common: each is looked at alone.
ThrottleOK ==
    /\ failures \in [Browsers -> Nat] /\ tries \in [Browsers -> Nat] /\ blocked \subseteq Browsers
    /\ FewTries /\ LockedForAReason /\ FreeTries
SessionsOK ==
    /\ sessions \subseteq SessionIds /\ cookie \in [Browsers -> SessionIds \cup {0}]
    /\ lasts \in [SessionIds -> 0..Lifetime] /\ unused \in [SessionIds -> Nat]
    /\ LastsAsItShould
AttemptsOK ==
    /\ password \in Words \cup {Unset} /\ resets \in 0..MaxResets
    /\ attempt \in [Attempts -> [kind : {"unsent", "setup", "login", "change", "over"},
                                 who : Browsers \cup {Script},
                                 word : Words \cup {Unset}, against : Words \cup {Unset}]]
    /\ BrowsersLogIn

LEMMA InvInParts == /\ LoginInv <=> ThrottleOK /\ SessionsOK /\ AttemptsOK
                    /\ LoginInv' <=> ThrottleOK' /\ SessionsOK' /\ AttemptsOK'
  BY DEF LoginInv, LoginTypeOK, ThrottleOK, SessionsOK, AttemptsOK

LEMMA BookedInv ==
  ASSUME ThrottleOK, NEW b \in Browsers, b \notin blocked, Booked(b),
         tries' = [tries EXCEPT ![b] = @ + 1]
  PROVE  ThrottleOK'
<1> USE LoginAssumption DEF ThrottleOK
<1>1. /\ failures' \in [Browsers -> Nat] /\ tries' \in [Browsers -> Nat] /\ blocked' \subseteq Browsers
      /\ \A c \in Browsers : c # b => /\ failures'[c] = failures[c] /\ tries'[c] = tries[c]
                                      /\ c \in blocked' <=> c \in blocked
      /\ failures'[b] = failures[b] + 1 /\ tries'[b] = tries[b] + 1
      /\ b \in blocked' <=> failures[b] + 1 >= Limit
  BY DEF Booked
<1>2. /\ failures[b] \in Nat /\ tries[b] \in Nat /\ Limit \in Nat \ {0}
      /\ failures[b] < Limit => tries[b] = failures[b]
      /\ failures[b] >= Limit => tries[b] = 0
  BY DEF FreeTries
<1>3. ASSUME NEW c \in Browsers
      PROVE  /\ tries'[c] <= Limit
             /\ failures'[c] > Limit => tries'[c] <= 1
             /\ c \in blocked' => failures'[c] >= Limit
             /\ c \notin blocked' => tries'[c] = IF failures'[c] < Limit THEN failures'[c] ELSE 0
  <2>1. CASE c = b BY <1>1, <1>2, <2>1
  <2>2. CASE c # b
    <3>1. /\ failures'[c] = failures[c] /\ tries'[c] = tries[c] /\ (c \in blocked' <=> c \in blocked)
      BY <1>1, <2>2
    <3>2. /\ tries[c] <= Limit /\ (failures[c] > Limit => tries[c] <= 1)
          /\ c \in blocked => failures[c] >= Limit
          /\ c \notin blocked => tries[c] = IF failures[c] < Limit THEN failures[c] ELSE 0
      BY DEF FewTries, LockedForAReason, FreeTries
    <3> QED BY <3>1, <3>2
  <2> QED BY <2>1, <2>2
<1> QED BY <1>1, <1>3 DEF FewTries, LockedForAReason, FreeTries

LEMMA ForgivenInv ==
  ASSUME ThrottleOK, NEW b \in Browsers, Forgiven(b)
  PROVE  ThrottleOK'
  BY LoginAssumption DEF Forgiven, ThrottleOK, FewTries, LockedForAReason, FreeTries

LEMMA OpenedInv ==
  ASSUME SessionsOK, NEW b \in Browsers, NEW i \in SessionIds, Opened(b, i)
  PROVE  SessionsOK'
<1> USE LoginAssumption DEF Opened, SessionsOK
<1>1. ASSUME NEW j \in sessions' PROVE lasts'[j] + unused'[j] > Lifetime - ExtendAfter
  <2>1. CASE j = i BY <2>1
  <2>2. CASE j # i BY <1>1, <2>2 DEF LastsAsItShould
  <2> QED BY <2>1, <2>2
<1>2. LastsAsItShould' BY <1>1 DEF LastsAsItShould
<1>3. cookie' \in [Browsers -> SessionIds \cup {0}] /\ sessions' \subseteq SessionIds OBVIOUS
<1>4. lasts' \in [SessionIds -> 0..Lifetime] /\ unused' \in [SessionIds -> Nat] OBVIOUS
<1> QED BY <1>2, <1>3, <1>4

LEMMA LookedInv ==
  ASSUME SessionsOK, NEW i, Looked(i), UNCHANGED cookie
  PROVE  SessionsOK'
<1> USE LoginAssumption DEF Looked, SessionsOK, LastsAsItShould
<1>1. CASE Valid(i) /\ Due(i) BY <1>1 DEF Valid, Due
<1>2. CASE Valid(i) /\ ~Due(i) BY <1>2 DEF Valid, Due
<1>3. CASE ~Valid(i) BY <1>3
<1> QED BY <1>1, <1>2, <1>3

LEMMA BegunInv ==
  ASSUME AttemptsOK, NEW a \in Attempts, NEW kind \in {"setup", "login", "change"},
         NEW who \in Browsers \cup {Script}, kind # "change" => who \in Browsers,
                NEW word \in Words, NEW against \in Words \cup {Unset},
         Begun(a, kind, who, word, against)
  PROVE  AttemptsOK'
  BY DEF Begun, AttemptsOK, BrowsersLogIn

LEMMA OverInv ==
  ASSUME AttemptsOK, NEW a \in Attempts, Over(a), UNCHANGED resets,
         password' \in Words \cup {Unset}
  PROVE  AttemptsOK'
  BY DEF Over, AttemptsOK, BrowsersLogIn, Unsent

LEMMA StandsStill ==
  /\ ThrottleOK /\ NobodyIsForgiven => ThrottleOK'
  /\ SessionsOK /\ NobodyIsLetIn => SessionsOK'
  /\ AttemptsOK /\ UNCHANGED <<password, attempt, resets>> => AttemptsOK'
  BY DEF NobodyIsForgiven, NobodyIsLetIn, ThrottleOK, SessionsOK, AttemptsOK, FewTries,
     LockedForAReason, FreeTries, LastsAsItShould, BrowsersLogIn

LEMMA LoginNextInv == LoginInv /\ [LoginNext]_loginVars => LoginInv'
<1> SUFFICES ASSUME ThrottleOK, SessionsOK, AttemptsOK, [LoginNext]_loginVars
             PROVE  ThrottleOK' /\ SessionsOK' /\ AttemptsOK'
  BY InvInParts
<1> DEFINE Goal == ThrottleOK' /\ SessionsOK' /\ AttemptsOK'
<1>1. ASSUME UNCHANGED loginVars PROVE Goal
  BY <1>1, StandsStill DEF loginVars, NobodyIsForgiven, NobodyIsLetIn
<1>2. ASSUME NEW a \in Attempts, NEW b \in Browsers, NEW w \in Words, StartSetup(a, b, w) PROVE Goal
  BY <1>2, BookedInv, BegunInv, StandsStill DEF StartSetup
<1>3. ASSUME NEW a \in Attempts, NEW b \in Browsers, NEW w \in Words, StartLogin(a, b, w) PROVE Goal
  <2>1. password \in Words \cup {Unset} BY DEF AttemptsOK
  <2> QED BY <1>3, <2>1, BookedInv, BegunInv, StandsStill DEF StartLogin
<1>4. ASSUME NEW a \in Attempts, NEW b \in Browsers, NEW w \in Words, StartChange(a, b, w)
      PROVE  Goal
  BY <1>4, LookedInv, BegunInv, StandsStill DEF StartChange
<1>5. ASSUME NEW a \in Attempts, NEW w \in Words, StartScriptChange(a, w) PROVE Goal
  BY <1>5, BegunInv, StandsStill DEF StartScriptChange
<1>6. ASSUME NEW a \in Attempts, FinishSetup(a) PROVE Goal
  <2>1. attempt[a].word \in Words \cup {Unset} BY DEF AttemptsOK
  <2>2. attempt[a].who \in Browsers BY <1>6 DEF FinishSetup, AttemptsOK, BrowsersLogIn
  <2> QED BY <1>6, <2>1, <2>2, OverInv, ForgivenInv, OpenedInv, StandsStill DEF FinishSetup,
         AttemptsOK
<1>7. ASSUME NEW a \in Attempts, FinishLogin(a) PROVE Goal
  <2>1. attempt[a].who \in Browsers BY <1>7 DEF FinishLogin, AttemptsOK, BrowsersLogIn
  <2> QED BY <1>7, <2>1, OverInv, ForgivenInv, OpenedInv, StandsStill DEF FinishLogin, AttemptsOK
<1>8. ASSUME NEW a \in Attempts, FinishChange(a) \/ Aborted(a) PROVE Goal
  <2>1. attempt[a].word \in Words \cup {Unset} /\ password \in Words \cup {Unset} BY DEF AttemptsOK
  <2> QED BY <1>8, <2>1, OverInv, StandsStill DEF FinishChange, Aborted
<1>9. ASSUME NEW b \in Browsers, LockEnds(b) PROVE Goal
  <2>1. ThrottleOK'
    BY <1>9, LoginAssumption DEF LockEnds, ThrottleOK, FewTries, LockedForAReason, FreeTries
  <2> QED BY <1>9, <2>1, StandsStill DEF LockEnds, NobodyIsLetIn
<1>10. ASSUME NEW b \in Browsers, AsksWithCookie(b) PROVE Goal
  BY <1>10, LookedInv, StandsStill DEF AsksWithCookie, NobodyIsForgiven
<1>11. ASSUME NEW b \in Browsers, Logout(b) PROVE Goal
  <2>1. SessionsOK' BY <1>11 DEF Logout, SessionsOK, LastsAsItShould
  <2> QED BY <1>11, <2>1, StandsStill DEF Logout, NobodyIsForgiven
<1>12. ASSUME SessionsAge PROVE Goal
  <2>1. SessionsOK' BY <1>12, LoginAssumption DEF SessionsAge, SessionsOK, LastsAsItShould
  <2> QED BY <1>12, <2>1, StandsStill DEF SessionsAge, NobodyIsForgiven
<1>13. ASSUME LoginRestarts PROVE Goal
  <2>1. ThrottleOK'
    BY <1>13, LoginAssumption DEF LoginRestarts, ThrottleOK, FewTries, LockedForAReason, FreeTries
  <2>2. AttemptsOK' BY <1>13, LoginAssumption DEF LoginRestarts, AttemptsOK, BrowsersLogIn, Unsent
  <2> QED BY <1>13, <2>1, <2>2, StandsStill DEF LoginRestarts, NobodyIsLetIn
<1>14. ASSUME NEW w \in Words, ResetPassword(w) PROVE Goal
  <2>1. SessionsOK' BY <1>14 DEF ResetPassword, KeptBySetPassword, SessionsOK, LastsAsItShould
  <2>2. AttemptsOK' BY <1>14, LoginAssumption DEF ResetPassword, AttemptsOK, BrowsersLogIn
  <2> QED BY <1>14, <2>1, <2>2, StandsStill DEF ResetPassword, NobodyIsForgiven
<1> HIDE DEF Goal
<1>15. Goal
  BY <1>1, <1>2, <1>3, <1>4, <1>5, <1>6, <1>7, <1>8, <1>9, <1>10, <1>11, <1>12, <1>13, <1>14
  DEF LoginNext
<1> QED BY <1>15 DEF Goal

\* However the requests overlap: an address has Limit attempts and one more after
\* each lock, nobody is locked out without a reason, and a session that is used
\* stays valid.
THEOREM LoginIsSafe == LoginSpec => []LoginSafe
  BY LoginInitInv, LoginNextInv, LoginInvIsSafe, PTL DEF LoginSpec

\* The first password stays, a reset signs out everybody in its commit, and only
\* the right password opens a session.
THEOREM LoginsAreEarned == LoginSpec => LoginSteps
<1>1. ASSUME LoginInv, [LoginNext]_loginVars PROVE [LoginStep]_loginVars
  <2> USE DEF LoginInv, LoginTypeOK
  <2>1. ASSUME UNCHANGED password, sessions' \subseteq sessions PROVE LoginStep
    BY <2>1 DEF LoginStep
  <2>2. ASSUME NEW i, Looked(i), UNCHANGED password PROVE LoginStep BY <2>1, <2>2 DEF Looked
  <2>3. ASSUME NEW a \in Attempts, Over(a), attempt[a].kind # "over" PROVE Ended(a)
    BY <1>1, <2>3 DEF Over, Ended, Unsent
  <2>4. ASSUME NEW a \in Attempts, FinishSetup(a) PROVE LoginStep
    <3>1. CASE SetsFirst
      <4>1. Ended(a) /\ SetUpFirst(a) BY <2>3, <2>4, <3>1 DEF FinishSetup, SetsFirst, SetUpFirst
      <4> QED BY <4>1 DEF LoginStep
    <3>2. CASE ~SetsFirst BY <2>1, <2>4, <3>2 DEF FinishSetup, NobodyIsLetIn
    <3> QED BY <3>1, <3>2
  <2>5. ASSUME NEW a \in Attempts, FinishLogin(a) PROVE LoginStep
    <3>1. CASE attempt[a].word = attempt[a].against BY <2>3, <2>5, <3>1 DEF FinishLogin, LoginStep
    <3>2. CASE attempt[a].word # attempt[a].against
      BY <2>1, <2>5, <3>2 DEF FinishLogin, NobodyIsLetIn
    <3> QED BY <3>1, <3>2
  <2>6. ASSUME NEW a \in Attempts, FinishChange(a) PROVE LoginStep
    BY <2>3, <2>6 DEF FinishChange, NobodyIsLetIn, LoginStep
  <2>7. ASSUME NEW w \in Words, ResetPassword(w) PROVE LoginStep
    BY <2>7 DEF ResetPassword, KeptBySetPassword, LoginStep
  <2>8. ASSUME NEW a \in Attempts, NEW b \in Browsers, NEW w \in Words, StartChange(a, b, w)
        PROVE  LoginStep
    BY <2>2, <2>8 DEF StartChange, Begun
  <2>9. ASSUME NEW b \in Browsers, AsksWithCookie(b) PROVE LoginStep
    BY <2>2, <2>9 DEF AsksWithCookie
  <2> QED BY <1>1, <2>1, <2>4, <2>5, <2>6, <2>7, <2>8, <2>9
    DEF LoginNext, StartSetup, StartLogin, StartScriptChange, Aborted, Begun, NobodyIsLetIn,
           LockEnds,
        Logout, SessionsAge, LoginRestarts, loginVars
<1> QED BY <1>1, LoginInitInv, LoginNextInv, PTL DEF LoginSpec, LoginSteps

\* What the login promises, in its states and in its steps.
THEOREM LoginHolds == LoginSpec => LoginIsRight
  BY LoginIsSafe, LoginsAreEarned DEF LoginIsRight

----------------------------------------
(* The move from Home Assistant. *)

JobStates == {"waiting", "running", "done", "failed"}
Jobs == [kind : {"none", "matter", "zigbee"},
         items : UNION {[some -> JobStates] : some \in SUBSET HomeDevices},
         running : BOOLEAN, source : Nat]
Results == [HomeDevices -> [state : {"none", "done", "failed"}, cleaned : BOOLEAN]]

SignInsTyped ==
    /\ signIns \in 0..MaxSignIns /\ signing \in 0..signIns /\ conn \in 0..MaxSignIns
    /\ using \in [Callers -> 0..MaxSignIns]
    /\ at \in [Callers -> {"off", "opens", "refreshes", "reads", "backsUp", "disables", "pairs",
                           "imported", "removes"}]
JobTyped ==
    /\ moveJob \in Jobs /\ tasks \in Nat /\ source \in Nat
    /\ wantedMove.kind \in {"none", "matter", "zigbee"} /\ wantedMove.source \in Nat
ResultsTyped ==
    /\ results \in Results /\ inHome \subseteq HomeDevices
    /\ cleaning \in [results : Results, left : SUBSET HomeDevices, zha : BOOLEAN]

\* What a clean-up read before its first await is still true of who arrived,
\* and so is what the job has entered and not yet recorded.
ArrivalsHold ==
    /\ held \subseteq arrived /\ OnlyArrivedAreRemoved
    /\ \A d \in HomeDevices : "done" \in {results[d].state,
           cleaning.results[d].state} => d \in arrived
    /\ at["item"] = "imported" => ItemsIn("running") \subseteq arrived

OneTask == tasks = (IF moveJob.running THEN 1 ELSE 0) /\ JobTellsTheEnd

\* A start and a job hold the source they were asked with; as long as it is the
\* current one, it runs ZHA's network.
AskedInTheNetwork ==
    /\ \A moved \in {wantedMove, moveJob} :
         /\ moved.source <= source
         /\ moved.kind = "zigbee" /\ moved.source = source => stick = "zha"
    /\ EnteredWhereTheyLive

SavedBefore == PausedAfterBackup /\ (at["pause"] = "disables" => zhaBackup \/ forgot)

HomeInv ==
    /\ SignInsTyped /\ JobTyped /\ ResultsTyped
    /\ ArrivalsHold /\ OneTask /\ AskedInTheNetwork /\ SavedBefore

LEMMA ItemSets ==
    /\ \A job \in Jobs : DOMAIN job.items \subseteq HomeDevices
    /\ \A some \in SUBSET HomeDevices : \A items \in [some -> JobStates] :
         items \in UNION {[chosen -> JobStates] : chosen \in SUBSET HomeDevices}
  BY DEF Jobs

LEMMA RecordTyped ==
    \A kept \in Results, d \in HomeDevices, state \in {"done", "failed"}, b \in BOOLEAN :
        [kept EXCEPT ![d] = [state |-> state, cleaned |-> b]] \in Results
  BY DEF Results

LEMMA JobOfTyped ==
    \A wish, others : wish.kind \in {"none", "matter", "zigbee"} /\ wish.source \in Nat =>
        /\ JobOf(wish, others) \in Jobs
        /\ \A d \in DOMAIN JobOf(wish, others).items : JobOf(wish, others).items[d] = "waiting"
        /\ JobOf(wish, others).running /\ JobOf(wish, others).kind = wish.kind
        /\ JobOf(wish, others).source = wish.source
  BY ItemSets DEF JobOf, Jobs, JobStates, HomeDevices

LEMMA NothingTyped ==
    /\ NoJob \in Jobs /\ DOMAIN NoJob.items = {}
    /\ NoCleaning \in [results : Results, left : SUBSET HomeDevices, zha : BOOLEAN]
<1>1. NoJob.items \in UNION {[some -> JobStates] : some \in SUBSET HomeDevices}
  BY ItemSets DEF NoJob
<1>2. NoJob \in Jobs /\ DOMAIN NoJob.items = {} BY <1>1 DEF NoJob, Jobs
<1> QED BY <1>2 DEF NoCleaning, NoResult, Results

LEMMA HomeInitInv == HomeInit => HomeInv
<1> SUFFICES ASSUME HomeInit PROVE HomeInv OBVIOUS
<1> USE HomeAssumption DEF HomeInit
<1>1. SignInsTyped /\ SavedBefore BY DEF SignInsTyped, SavedBefore, PausedAfterBackup, Callers
<1>2. JobTyped /\ AskedInTheNetwork
  BY NothingTyped DEF JobTyped, AskedInTheNetwork, EnteredWhereTheyLive, NoJob, NoWish
<1>3. ResultsTyped BY NothingTyped DEF ResultsTyped, Results, NoResult
<1>4. ArrivalsHold
  BY DEF ArrivalsHold, OnlyArrivedAreRemoved, HomeDevices, NoResult, NoCleaning, Callers
<1>5. OneTask BY NothingTyped DEF OneTask, JobTellsTheEnd, ItemsIn, NoJob
<1> QED BY <1>1, <1>2, <1>3, <1>4, <1>5 DEF HomeInv

LEMMA PageInv == ASSUME HomeInv, Page PROVE HomeInv'
<1> USE HomeAssumption
   DEF HomeInv, signedIn, radio, devices, bridge, requests, Goes, ForgetsHome,
        SignInsTyped, JobTyped, Jobs, JobStates, ItemsIn, ResultsTyped, Results, HomeDevices,
        ArrivalsHold, OnlyArrivedAreRemoved, OneTask, JobTellsTheEnd, AskedInTheNetwork,
        EnteredWhereTheyLive, SavedBefore, PausedAfterBackup, Callers
<1>1. CASE SignsIn BY <1>1 DEF SignsIn
<1>2. CASE SignedIn BY <1>2 DEF SignedIn
<1>3. CASE SignsOut BY <1>3 DEF SignsOut
<1>4. CASE TokenAges BY <1>4 DEF TokenAges
<1>5. CASE RestoresBackup BY <1>5 DEF RestoresBackup
<1>6. CASE StickChanges BY <1>6 DEF StickChanges
<1>7. CASE DeviceDeleted BY <1>7 DEF DeviceDeleted
<1> QED BY <1>1, <1>2, <1>3, <1>4, <1>5, <1>6, <1>7 DEF Page

LEMMA PausingInv == ASSUME HomeInv, Pausing PROVE HomeInv'
<1> USE HomeAssumption
   DEF HomeInv, signedIn, radio, devices, bridge, requests, Goes, Inventory,
        SignInsTyped, JobTyped, Jobs, JobStates, ItemsIn, ResultsTyped, Results, HomeDevices,
        ArrivalsHold, OnlyArrivedAreRemoved, OneTask, JobTellsTheEnd, AskedInTheNetwork,
        EnteredWhereTheyLive, SavedBefore, PausedAfterBackup, Callers
<1>1. CASE PauseReads BY <1>1 DEF PauseReads
<1>2. CASE PauseBacksUp BY <1>2 DEF PauseBacksUp
<1>3. CASE PauseDisables BY <1>3 DEF PauseDisables
<1> QED BY <1>1, <1>2, <1>3 DEF Pausing

LEMMA AsksInv ==
    ASSUME HomeInv, (\E c \in {"look", "pause"} : AsksHome(c) /\ UNCHANGED requests) \/ Looks
    PROVE  HomeInv'
<1> USE HomeAssumption
   DEF HomeInv, signedIn, radio, devices, bridge, requests, Goes, Inventory, AsksHome,
        SignInsTyped, JobTyped, Jobs, JobStates, ItemsIn, ResultsTyped, Results, HomeDevices,
        ArrivalsHold, OnlyArrivedAreRemoved, OneTask, JobTellsTheEnd, AskedInTheNetwork,
        EnteredWhereTheyLive, SavedBefore, PausedAfterBackup, Callers
<1>1. CASE \E c \in {"look", "pause"} : AsksHome(c) /\ UNCHANGED requests BY <1>1 DEF AsksHome
<1>2. CASE Looks BY <1>2 DEF Looks
<1> QED BY <1>1, <1>2

LEMMA OpensInv == ASSUME HomeInv, NEW c \in Callers, Opens(c) PROVE HomeInv'
<1> USE HomeAssumption DEF HomeInv, Opens, signedIn, radio, devices, bridge, requests, Goes,
       HomeCallFails, Connected, Recorded
<1>1. SignInsTyped' /\ SavedBefore' BY DEF SignInsTyped, SavedBefore, PausedAfterBackup, Callers
<1>2. JobTyped' /\ OneTask'
  BY DEF JobTyped, Jobs, JobStates, OneTask, JobTellsTheEnd, ItemsIn, SignInsTyped, Callers
<1>3. ResultsTyped'
  <2>1. \/ results' = results
        \/ \E d \in HomeDevices, state \in {"done", "failed"}, b \in BOOLEAN :
             results' = [results EXCEPT ![d] = [state |-> state, cleaned |-> b]]
    BY ItemSets DEF JobTyped, ResultsTyped, ItemsIn
  <2>2. results \in Results BY DEF ResultsTyped
  <2>3. inHome' \subseteq HomeDevices
        /\ cleaning' \in [results : Results, left : SUBSET HomeDevices, zha : BOOLEAN]
    BY DEF ResultsTyped
  <2> HIDE DEF HomeInv, Results, Opens
  <2> QED BY <2>1, <2>2, <2>3, RecordTyped DEF ResultsTyped
<1>4. ArrivalsHold'
  BY DEF ArrivalsHold, OnlyArrivedAreRemoved, JobTyped, Jobs, JobStates, ResultsTyped, Results,
     ItemsIn, HomeDevices, SignInsTyped, Callers
<1>5. AskedInTheNetwork'
  BY DEF AskedInTheNetwork, EnteredWhereTheyLive, JobTyped, Jobs, JobStates, ItemsIn
<1> QED BY <1>1, <1>2, <1>3, <1>4, <1>5

LEMMA RefreshAnswersInv == ASSUME HomeInv, NEW c \in Callers, RefreshAnswers(c) PROVE HomeInv'
<1> USE HomeAssumption DEF HomeInv, RefreshAnswers, signedIn, radio, devices, bridge, requests,
       Goes, HomeCallFails, Connected, ForgetsHome, Recorded
<1>1. SignInsTyped' /\ SavedBefore' BY DEF SignInsTyped, SavedBefore, PausedAfterBackup, Callers
<1>2. JobTyped' /\ OneTask'
  BY DEF JobTyped, Jobs, JobStates, OneTask, JobTellsTheEnd, ItemsIn, SignInsTyped, Callers
<1>3. ResultsTyped'
  <2>1. \/ results' = results
        \/ \E d \in HomeDevices, state \in {"done", "failed"}, b \in BOOLEAN :
             results' = [results EXCEPT ![d] = [state |-> state, cleaned |-> b]]
    BY ItemSets DEF JobTyped, ResultsTyped, ItemsIn
  <2>2. results \in Results BY DEF ResultsTyped
  <2>3. inHome' \subseteq HomeDevices
        /\ cleaning' \in [results : Results, left : SUBSET HomeDevices, zha : BOOLEAN]
    BY DEF ResultsTyped
  <2> HIDE DEF HomeInv, Results, RefreshAnswers
  <2> QED BY <2>1, <2>2, <2>3, RecordTyped DEF ResultsTyped
<1>4. ArrivalsHold'
  BY DEF ArrivalsHold, OnlyArrivedAreRemoved, JobTyped, Jobs, JobStates, ResultsTyped, Results,
     ItemsIn, HomeDevices, SignInsTyped, Callers
<1>5. AskedInTheNetwork'
  BY DEF AskedInTheNetwork, EnteredWhereTheyLive, JobTyped, Jobs, JobStates, ItemsIn
<1> QED BY <1>1, <1>2, <1>3, <1>4, <1>5

LEMMA AnswerFailsInv == ASSUME HomeInv, NEW c \in Callers, AnswerFails(c) PROVE HomeInv'
<1> USE HomeAssumption DEF HomeInv, AnswerFails, signedIn, radio, devices, bridge, requests,
       Goes, HomeCallFails, Recorded
<1>1. SignInsTyped' /\ SavedBefore' BY DEF SignInsTyped, SavedBefore, PausedAfterBackup, Callers
<1>2. JobTyped' /\ OneTask'
  BY DEF JobTyped, Jobs, JobStates, OneTask, JobTellsTheEnd, ItemsIn, SignInsTyped, Callers
<1>3. ResultsTyped'
  <2>1. \/ results' = results
        \/ \E d \in HomeDevices, state \in {"done", "failed"}, b \in BOOLEAN :
             results' = [results EXCEPT ![d] = [state |-> state, cleaned |-> b]]
    BY ItemSets DEF JobTyped, ResultsTyped, ItemsIn
  <2>2. results \in Results BY DEF ResultsTyped
  <2>3. inHome' \subseteq HomeDevices
        /\ cleaning' \in [results : Results, left : SUBSET HomeDevices, zha : BOOLEAN]
    BY DEF ResultsTyped
  <2> HIDE DEF HomeInv, Results, AnswerFails
  <2> QED BY <2>1, <2>2, <2>3, RecordTyped DEF ResultsTyped
<1>4. ArrivalsHold'
  BY DEF ArrivalsHold, OnlyArrivedAreRemoved, JobTyped, Jobs, JobStates, ResultsTyped, Results,
     ItemsIn, HomeDevices, SignInsTyped, Callers
<1>5. AskedInTheNetwork'
  BY DEF AskedInTheNetwork, EnteredWhereTheyLive, JobTyped, Jobs, JobStates, ItemsIn
<1> QED BY <1>1, <1>2, <1>3, <1>4, <1>5

LEMMA StartAskedInv == ASSUME HomeInv, StartAsked PROVE HomeInv'
<1> USE HomeAssumption DEF HomeInv, StartAsked, signedIn, radio, devices, bridge, requests, Goes
<1> DEFINE InNetwork(moved) == /\ moved.kind \in {"none", "matter", "zigbee"} /\ moved.source \in Nat
                               /\ moved.source <= source
                               /\ moved.kind = "zigbee" /\ moved.source = source => stick = "zha"
<1>0. \A wish \in Wishes : InNetwork(wish) BY DEF Wishes, Wish, SameNetwork, JobTyped
<1>1. \/ UNCHANGED <<moveJob, tasks>>
      \/ \E wish, others : /\ InNetwork(wish) /\ ~moveJob.running
                          /\ moveJob' = JobOf(wish, others) /\ tasks' = tasks + 1
  BY <1>0 DEF Begins, JobTyped, AskedInTheNetwork
<1>2. InNetwork(wantedMove') /\ UNCHANGED <<source, stick, misplaced>>
  BY <1>0 DEF JobTyped, AskedInTheNetwork
<1>3. SignInsTyped' /\ SavedBefore' /\ ResultsTyped'
  BY DEF SignInsTyped, SavedBefore, PausedAfterBackup, ResultsTyped, Callers
<1>4. JobTyped' /\ OneTask'
  BY <1>1, <1>2, JobOfTyped DEF JobTyped, OneTask, JobTellsTheEnd, ItemsIn
<1>5. ArrivalsHold'
  <2>1. ItemsIn("running")' \subseteq ItemsIn("running") BY <1>1, JobOfTyped DEF ItemsIn
  <2>2. at'["item"] = at["item"] /\ UNCHANGED <<held, arrived, inHome, results, cleaning>>
    BY DEF SignInsTyped, Callers
  <2> HIDE DEF StartAsked
  <2> QED BY <2>1, <2>2 DEF ArrivalsHold, OnlyArrivedAreRemoved
<1>6. AskedInTheNetwork'
  BY <1>1, <1>2, JobOfTyped DEF AskedInTheNetwork, EnteredWhereTheyLive, JobTyped
<1> QED BY <1>3, <1>4, <1>5, <1>6

LEMMA StartReadsInv == ASSUME HomeInv, StartReads PROVE HomeInv'
<1> USE HomeAssumption DEF HomeInv, StartReads, signedIn, radio, devices, bridge, requests, Goes
<1> DEFINE InNetwork(moved) == /\ moved.kind \in {"none", "matter", "zigbee"} /\ moved.source \in Nat
                               /\ moved.source <= source
                               /\ moved.kind = "zigbee" /\ moved.source = source => stick = "zha"
<1>1. \/ UNCHANGED <<moveJob, tasks>>
      \/ \E wish, others : /\ InNetwork(wish) /\ ~moveJob.running
                          /\ moveJob' = JobOf(wish, others) /\ tasks' = tasks + 1
  BY DEF Begins, JobTyped, AskedInTheNetwork
<1>2. InNetwork(wantedMove') /\ UNCHANGED <<source, stick, misplaced>>
  BY DEF JobTyped, AskedInTheNetwork
<1>3. SignInsTyped' /\ SavedBefore' /\ ResultsTyped'
  BY DEF SignInsTyped, SavedBefore, PausedAfterBackup, ResultsTyped, Callers
<1>4. JobTyped' /\ OneTask'
  BY <1>1, <1>2, JobOfTyped DEF JobTyped, OneTask, JobTellsTheEnd, ItemsIn
<1>5. ArrivalsHold'
  <2>1. ItemsIn("running")' \subseteq ItemsIn("running") BY <1>1, JobOfTyped DEF ItemsIn
  <2>2. at'["item"] = at["item"] /\ UNCHANGED <<held, arrived, inHome, results, cleaning>>
    BY DEF SignInsTyped, Callers
  <2> HIDE DEF StartReads
  <2> QED BY <2>1, <2>2 DEF ArrivalsHold, OnlyArrivedAreRemoved
<1>6. AskedInTheNetwork'
  BY <1>1, <1>2, JobOfTyped DEF AskedInTheNetwork, EnteredWhereTheyLive, JobTyped
<1> QED BY <1>3, <1>4, <1>5, <1>6

LEMMA TakingInv == ASSUME HomeInv, TakesMatter \/ WindowOpens \/ Imports PROVE HomeInv'
<1> USE HomeAssumption
   DEF HomeInv, signedIn, radio, devices, bridge, requests, Goes, AtWork,
        SignInsTyped, JobTyped, Jobs, JobStates, ItemsIn, ResultsTyped, Results, HomeDevices,
        ArrivalsHold, OnlyArrivedAreRemoved, OneTask, JobTellsTheEnd, AskedInTheNetwork,
        EnteredWhereTheyLive, SavedBefore, PausedAfterBackup, Callers
<1>1. CASE TakesMatter BY <1>1 DEF TakesMatter
<1>2. CASE WindowOpens BY <1>2 DEF WindowOpens
<1>3. CASE Imports BY <1>3 DEF Imports
<1> QED BY <1>1, <1>2, <1>3

LEMMA PairsAgainInv == ASSUME HomeInv, PairsAgain PROVE HomeInv'
<1> USE HomeAssumption DEF HomeInv, PairsAgain, signedIn, radio, devices, bridge, requests,
       Goes, Enters, Finishes, Recorded
<1>1. SignInsTyped' /\ SavedBefore' BY DEF SignInsTyped, SavedBefore, PausedAfterBackup, Callers
<1>2. JobTyped' /\ OneTask'
  BY DEF JobTyped, Jobs, JobStates, OneTask, JobTellsTheEnd, ItemsIn, SignInsTyped, Callers
<1>3. ResultsTyped'
  <2>1. \/ results' = results
        \/ \E d \in HomeDevices, state \in {"done", "failed"}, b \in BOOLEAN :
             results' = [results EXCEPT ![d] = [state |-> state, cleaned |-> b]]
    BY ItemSets DEF JobTyped, ResultsTyped, ItemsIn
  <2>2. results \in Results BY DEF ResultsTyped
  <2>3. inHome' \subseteq HomeDevices
        /\ cleaning' \in [results : Results, left : SUBSET HomeDevices, zha : BOOLEAN]
    BY DEF ResultsTyped
  <2> HIDE DEF HomeInv, Results, PairsAgain
  <2> QED BY <2>1, <2>2, <2>3, RecordTyped DEF ResultsTyped
<1>4. ArrivalsHold'
  BY DEF ArrivalsHold, OnlyArrivedAreRemoved, JobTyped, Jobs, JobStates, ResultsTyped, Results,
     ItemsIn, HomeDevices, SignInsTyped, Callers
<1>5. AskedInTheNetwork'
  BY DEF AskedInTheNetwork, EnteredWhereTheyLive, JobTyped, Jobs, JobStates, ItemsIn
<1> QED BY <1>1, <1>2, <1>3, <1>4, <1>5

LEMMA TakesZigbeeInv == ASSUME HomeInv, TakesZigbee PROVE HomeInv'
<1> USE HomeAssumption DEF HomeInv, TakesZigbee, signedIn, radio, devices, bridge, requests,
       Goes, Enters, Finishes, Recorded
<1>1. SignInsTyped' /\ SavedBefore' BY DEF SignInsTyped, SavedBefore, PausedAfterBackup, Callers
<1>2. JobTyped' /\ OneTask'
  BY DEF JobTyped, Jobs, JobStates, OneTask, JobTellsTheEnd, ItemsIn, SignInsTyped, Callers
<1>3. ResultsTyped'
  <2>1. \/ results' = results
        \/ \E d \in HomeDevices, state \in {"done", "failed"}, b \in BOOLEAN :
             results' = [results EXCEPT ![d] = [state |-> state, cleaned |-> b]]
    BY ItemSets DEF JobTyped, ResultsTyped, ItemsIn
  <2>2. results \in Results BY DEF ResultsTyped
  <2>3. inHome' \subseteq HomeDevices
        /\ cleaning' \in [results : Results, left : SUBSET HomeDevices, zha : BOOLEAN]
    BY DEF ResultsTyped
  <2> HIDE DEF HomeInv, Results, TakesZigbee
  <2> QED BY <2>1, <2>2, <2>3, RecordTyped DEF ResultsTyped
<1>4. ArrivalsHold'
  BY DEF ArrivalsHold, OnlyArrivedAreRemoved, JobTyped, Jobs, JobStates, ResultsTyped, Results,
     ItemsIn, HomeDevices, SignInsTyped, Callers
<1>5. AskedInTheNetwork'
  BY DEF AskedInTheNetwork, EnteredWhereTheyLive, JobTyped, Jobs, JobStates, ItemsIn
<1> QED BY <1>1, <1>2, <1>3, <1>4, <1>5

LEMMA ZigbeeDoneInv == ASSUME HomeInv, ZigbeeDone PROVE HomeInv'
<1> USE HomeAssumption DEF HomeInv, ZigbeeDone, signedIn, radio, devices, bridge, requests,
       Goes, Finishes, Recorded
<1>1. SignInsTyped' /\ SavedBefore' BY DEF SignInsTyped, SavedBefore, PausedAfterBackup, Callers
<1>2. JobTyped' /\ OneTask'
  BY DEF JobTyped, Jobs, JobStates, OneTask, JobTellsTheEnd, ItemsIn, SignInsTyped, Callers
<1>3. ResultsTyped'
  <2>1. \/ results' = results
        \/ \E d \in HomeDevices, state \in {"done", "failed"}, b \in BOOLEAN :
             results' = [results EXCEPT ![d] = [state |-> state, cleaned |-> b]]
    BY ItemSets DEF JobTyped, ResultsTyped, ItemsIn
  <2>2. results \in Results BY DEF ResultsTyped
  <2>3. inHome' \subseteq HomeDevices
        /\ cleaning' \in [results : Results, left : SUBSET HomeDevices, zha : BOOLEAN]
    BY DEF ResultsTyped
  <2> HIDE DEF HomeInv, Results, ZigbeeDone
  <2> QED BY <2>1, <2>2, <2>3, RecordTyped DEF ResultsTyped
<1>4. ArrivalsHold'
  BY DEF ArrivalsHold, OnlyArrivedAreRemoved, JobTyped, Jobs, JobStates, ResultsTyped, Results,
     ItemsIn, HomeDevices, SignInsTyped, Callers
<1>5. AskedInTheNetwork'
  BY DEF AskedInTheNetwork, EnteredWhereTheyLive, JobTyped, Jobs, JobStates, ItemsIn
<1> QED BY <1>1, <1>2, <1>3, <1>4, <1>5

LEMMA JobEndsInv == ASSUME HomeInv, JobEnds PROVE HomeInv'
<1> USE HomeAssumption DEF HomeInv, JobEnds, signedIn, radio, devices, bridge, requests, Goes
<1>1. SignInsTyped' /\ SavedBefore' BY DEF SignInsTyped, SavedBefore, PausedAfterBackup, Callers
<1>2. JobTyped' /\ OneTask'
  <2>1. moveJob' \in Jobs /\ ~moveJob'.running /\ moveJob'.items = moveJob.items
    BY DEF JobTyped, Jobs
  <2> QED BY <2>1 DEF JobTyped, OneTask, JobTellsTheEnd, ItemsIn
<1>3. ResultsTyped' BY DEF ResultsTyped, Results, JobTyped, Jobs, HomeDevices
<1>4. ArrivalsHold'
  BY DEF ArrivalsHold, OnlyArrivedAreRemoved, JobTyped, Jobs, JobStates, ResultsTyped, Results,
     ItemsIn, HomeDevices, SignInsTyped, Callers
<1>5. AskedInTheNetwork'
  BY DEF AskedInTheNetwork, EnteredWhereTheyLive, JobTyped, Jobs, JobStates, ItemsIn
<1> QED BY <1>1, <1>2, <1>3, <1>4, <1>5

LEMMA JobRaisesInv == ASSUME HomeInv, JobRaises PROVE HomeInv'
<1> USE HomeAssumption DEF HomeInv, JobRaises, signedIn, radio, devices, bridge, requests, Goes
<1>1. SignInsTyped' /\ SavedBefore' BY DEF SignInsTyped, SavedBefore, PausedAfterBackup, Callers
<1>2. JobTyped' /\ OneTask'
  <2>1. moveJob' \in Jobs /\ ~moveJob'.running /\ 
           moveJob'.items \in [DOMAIN moveJob.items -> {"done", "failed"}]
    BY ItemSets DEF JobTyped, Jobs, JobStates
  <2> QED BY <2>1 DEF JobTyped, OneTask, JobTellsTheEnd, ItemsIn
<1>3. ResultsTyped' BY DEF ResultsTyped, Results, JobTyped, Jobs, HomeDevices
<1>4. ArrivalsHold'
  BY DEF ArrivalsHold, OnlyArrivedAreRemoved, JobTyped, Jobs, JobStates, ResultsTyped, Results,
     ItemsIn, HomeDevices, SignInsTyped, Callers
<1>5. AskedInTheNetwork'
  BY DEF AskedInTheNetwork, EnteredWhereTheyLive, JobTyped, Jobs, JobStates, ItemsIn
<1> QED BY <1>1, <1>2, <1>3, <1>4, <1>5

LEMMA CleanAskingInv == ASSUME HomeInv, CleanAsked \/ CleanReads PROVE HomeInv'
<1> USE HomeAssumption
   DEF HomeInv, signedIn, radio, devices, bridge, requests, Goes, AsksHome, Inventory,
        SignInsTyped, JobTyped, Jobs, JobStates, ItemsIn, ResultsTyped, Results, HomeDevices,
        ArrivalsHold, OnlyArrivedAreRemoved, OneTask, JobTellsTheEnd, AskedInTheNetwork,
        EnteredWhereTheyLive, SavedBefore, PausedAfterBackup, Callers
<1>1. CASE CleanAsked BY <1>1 DEF CleanAsked
<1>2. CASE CleanReads BY <1>2 DEF CleanReads
<1> QED BY <1>1, <1>2

LEMMA CleanRemovesInv == ASSUME HomeInv, CleanRemoves PROVE HomeInv'
<1> USE HomeAssumption DEF HomeInv, CleanRemoves, signedIn, radio, devices, bridge, requests,
       Goes, Arrived
<1>1. SignInsTyped' /\ SavedBefore' BY DEF SignInsTyped, SavedBefore, PausedAfterBackup, Callers
<1>2. JobTyped' /\ OneTask'
  BY DEF JobTyped, Jobs, JobStates, OneTask, JobTellsTheEnd, ItemsIn, SignInsTyped, Callers
<1>3. ResultsTyped'
  <2>1. \/ results' = results
        \/ \E d \in HomeDevices, state \in {"done", "failed"}, b \in BOOLEAN :
             results' = [results EXCEPT ![d] = [state |-> state, cleaned |-> b]]
    BY ItemSets DEF JobTyped, ResultsTyped, ItemsIn
  <2>2. results \in Results BY DEF ResultsTyped
  <2>3. inHome' \subseteq HomeDevices
        /\ cleaning' \in [results : Results, left : SUBSET HomeDevices, zha : BOOLEAN]
    BY DEF ResultsTyped
  <2> HIDE DEF HomeInv, Results, CleanRemoves
  <2> QED BY <2>1, <2>2, <2>3, RecordTyped DEF ResultsTyped
<1>4. ArrivalsHold'
  BY DEF ArrivalsHold, OnlyArrivedAreRemoved, JobTyped, Jobs, JobStates, ResultsTyped, Results,
     ItemsIn, HomeDevices, SignInsTyped, Callers
<1>5. AskedInTheNetwork'
  BY DEF AskedInTheNetwork, EnteredWhereTheyLive, JobTyped, Jobs, JobStates, ItemsIn
<1> QED BY <1>1, <1>2, <1>3, <1>4, <1>5

LEMMA CleanEndsInv == ASSUME HomeInv, CleanEnds PROVE HomeInv'
<1> USE HomeAssumption DEF HomeInv, CleanEnds, signedIn, radio, devices, bridge, requests, Goes,
       NoCleaning, NoResult
<1>1. SignInsTyped' /\ SavedBefore' BY DEF SignInsTyped, SavedBefore, PausedAfterBackup, Callers
<1>2. JobTyped' /\ OneTask'
  BY DEF JobTyped, Jobs, JobStates, OneTask, JobTellsTheEnd, ItemsIn, SignInsTyped, Callers
<1>3. ResultsTyped'
  <2>1. results \in Results /\ cleaning.results \in Results BY DEF ResultsTyped
  <2>2. \/ results' = results
        \/ results' = [d \in HomeDevices |-> IF d \in Zigbee /\ cleaning.results[d].state = "done"
                                              THEN [state |-> "done",
                                                     cleaned |-> TRUE] ELSE results[d]]
    OBVIOUS
  <2>3. inHome' \subseteq inHome /\ cleaning' = NoCleaning OBVIOUS
  <2> HIDE DEF HomeInv, CleanEnds, NoCleaning
  <2>4. results' \in Results
    <3> DEFINE Seen(d) == IF d \in Zigbee /\ cleaning.results[d].state = "done"
                          THEN [state |-> "done", cleaned |-> TRUE] ELSE results[d]
    <3>1. \A d \in HomeDevices : Seen(d) \in [state : {"none", "done", "failed"},
           cleaned : BOOLEAN]
      BY <2>1 DEF Results
    <3>2. [d \in HomeDevices |-> Seen(d)] \in Results BY <3>1 DEF Results
    <3> QED BY <2>1, <2>2, <3>2
  <2> QED BY <2>3, <2>4, NothingTyped DEF ResultsTyped, HomeInv
<1>4. ArrivalsHold'
  BY DEF ArrivalsHold, OnlyArrivedAreRemoved, JobTyped, Jobs, JobStates, ResultsTyped, Results,
     ItemsIn, HomeDevices, SignInsTyped, Callers
<1>5. AskedInTheNetwork'
  BY DEF AskedInTheNetwork, EnteredWhereTheyLive, JobTyped, Jobs, JobStates, ItemsIn
<1> QED BY <1>1, <1>2, <1>3, <1>4, <1>5

LEMMA MigrationRestartsInv == ASSUME HomeInv, MigrationRestarts PROVE HomeInv'
<1> USE HomeAssumption DEF HomeInv, MigrationRestarts, signedIn, radio, devices, bridge,
       requests, Goes, NoJob, NoWish, NoCleaning, NoResult
<1>1. SignInsTyped' /\ SavedBefore' BY DEF SignInsTyped, SavedBefore, PausedAfterBackup, Callers
<1>2. JobTyped' /\ OneTask' BY NothingTyped DEF JobTyped, OneTask, JobTellsTheEnd, ItemsIn, NoJob
<1>3. ResultsTyped' BY NothingTyped DEF ResultsTyped
<1>4. ArrivalsHold'
  BY DEF ArrivalsHold, OnlyArrivedAreRemoved, JobTyped, Jobs, JobStates, ResultsTyped, Results,
     ItemsIn, HomeDevices, SignInsTyped, Callers
<1>5. AskedInTheNetwork'
  BY DEF AskedInTheNetwork, EnteredWhereTheyLive, JobTyped, Jobs, JobStates, ItemsIn
<1> QED BY <1>1, <1>2, <1>3, <1>4, <1>5

LEMMA HomeNextInv == HomeInv /\ [HomeNext]_homeVars => HomeInv'
<1> SUFFICES ASSUME HomeInv, [HomeNext]_homeVars PROVE HomeInv' OBVIOUS
<1>1. CASE Page \/ Pausing \/ Looks \/ \E c \in {"look",
       "pause"} : AsksHome(c) /\ UNCHANGED requests
  BY <1>1, PageInv, PausingInv, AsksInv
<1>2. CASE Client BY <1>2, OpensInv, RefreshAnswersInv, AnswerFailsInv DEF Client
<1>3. CASE StartAsked \/ Working
  BY <1>3, StartAskedInv, StartReadsInv, TakingInv, PairsAgainInv, TakesZigbeeInv, ZigbeeDoneInv,
     JobEndsInv, JobRaisesInv DEF Working
<1>4. CASE Cleaning BY <1>4, CleanAskingInv, CleanRemovesInv, CleanEndsInv DEF Cleaning
<1>5. CASE MigrationRestarts BY <1>5, MigrationRestartsInv
<1>6. CASE UNCHANGED homeVars
  BY <1>6 DEF homeVars, HomeInv, SignInsTyped, JobTyped, ResultsTyped, ArrivalsHold, OneTask,
     AskedInTheNetwork, SavedBefore, OnlyArrivedAreRemoved, JobTellsTheEnd, EnteredWhereTheyLive,
     PausedAfterBackup, ItemsIn
<1> QED BY <1>1, <1>2, <1>3, <1>4, <1>5, <1>6 DEF HomeNext

(* However requests and job overlap: one job, which tells its end; a Matter *)
(* device leaves Home Assistant only after it arrived here; ZHA is paused *)
(* with its network saved unless the user signed out; and a Zigbee device is *)
(* entered into ZHA's own network only (homeassistant/migration.py). *)
THEOREM HomeIsSafe == HomeSpec => []HomeSafe
<1>1. HomeInv => HomeSafe
  BY DEF HomeInv, HomeSafe, HomeTypeOK, OneJob, SignInsTyped, JobTyped, ResultsTyped, Results,
     ArrivalsHold, OneTask, AskedInTheNetwork, SavedBefore, DoneDevices
<1> QED BY <1>1, HomeInitInv, HomeNextInv, PTL DEF HomeSpec

----------------------------------------
(* The pages that watch (Streams): what a connection was given and is about *)
(* to be given, the rings it is given from, and the parts of the invariant. *)

(* A sequence is the end of another. *)
EndOf(q, p) == Len(q) <= Len(p) /\ \A i \in 1..Len(q) : q[i] = p[Len(p) - Len(q) + i]

(* What one connection was given, in the order of w, but for d. *)
GivenTo(p, w, d) ==
    \A i, j \in DOMAIN p : i < j /\ w[p[i]] = w[p[j]] => p[i] < p[j] \/ (p[i] = p[j] /\ p[i] = d)

(* What one connection was given was written, and is of the kinds of S. *)
KnownTo(p, w, S) == \A i \in DOMAIN p : p[i] \in 1..Len(w) /\ w[p[i]] \in S

(* What the loop has still to put: lines of the log, by connection. *)
LinesKnown(r, w) == \A i \in DOMAIN r : r[i][2] \in 1..Len(w) /\ w[r[i][2]] = "log"

(* What the loop has still to put comes after all lines a connection has. *)
LinesAfter(p, r, c, w, d) ==
    \A i \in DOMAIN p, j \in DOMAIN r :
        r[j][1] = c /\ w[p[i]] = "log" => p[i] < r[j][2] \/ (p[i] = r[j][2] /\ p[i] = d)

LinesInOrder(r, D) ==
    \A i, j \in DOMAIN r :
        i < j /\ r[i][1] = r[j][1] => r[i][2] < r[j][2] \/ (r[i][2] = r[j][2] /\ r[i][2] = D[r[i][1]])

EmitType == [line : Nat, at : {"idle", "kept", "calling"}, left : SUBSET Sockets]

StreamsTyped ==
    /\ wrote \in Seq(ListKinds) /\ Len(wrote) <= MaxEntries
    /\ observing \in [ListKinds -> SUBSET Sockets]
    /\ ring \in [ListKinds -> Seq(Nat)]
    /\ emitting \in EmitType
    /\ page \in [Sockets -> {"closed", "snapshot", "open", "leaving", "gone"}]
    /\ fresh \in [Sockets -> Nat] /\ sending \in [Sockets -> Nat] /\ doubled \in [Sockets -> Nat]
    /\ ready \in Seq(Pages \X Nat)
    /\ outbox \in [Sockets -> Seq(Nat)] /\ put \in [Sockets -> Seq(Nat)]

(* What a connection was given or is about to be given was written, and is of *)
(* a kind it watches. *)
KnownInv ==
    /\ \A c \in Sockets : KnownTo(put[c], wrote, Watches(c))
    /\ LinesKnown(ready, wrote)
    /\ \A c \in Sockets : sending[c] \in 0..written
    /\ \A c \in Sockets : page[c] = "open" => fresh[c] >= 1

(* The line a thread is in emit() with is the newest of the log, and only who *)
(* registered behind its back has it already. *)
EmitInv ==
    /\ emitting.at = "idle" => emitting = Silent
    /\ emitting.at = "kept" => emitting.left = {}
    /\ emitting.left \subseteq Pages
    /\ emitting.at # "idle" =>
         /\ emitting.line \in 1..written /\ wrote[emitting.line] = "log"
         /\ \A n \in 1..written : wrote[n] = "log" => n <= emitting.line

(* An entry a connection was given, or will be by the loop. *)
Has(c, n) == Contains(put[c], n) \/ Contains(ready, <<c, n>>)

(* Whom the thread has still to call has its line only if it registered *)
(* while the line was between the ring and the observers. *)
DoubledInv ==
    \A c \in Pages : /\ c \in emitting.left \/ (emitting.at = "kept" /\ c \in observing["log"])
                     /\ Has(c, emitting.line)
                     => doubled[c] = emitting.line

(* Nobody is given anything before it opens; who is registered is served. *)
PagesInv ==
    \A c \in Sockets :
        /\ page[c] = "closed" => /\ put[c] = <<>> /\ outbox[c] = <<>>
                                 /\ \A i \in DOMAIN ready : ready[i][1] # c
        /\ page[c] \in {"closed", "snapshot"} => doubled[c] = 0 /\ c \notin emitting.left
        /\ \A k \in ListKinds : c \in observing[k] <=> k \in Watches(c) /\ page[c] \in {"open", "leaving"}

OrderInv ==
    /\ \A c \in Sockets : /\ GivenTo(put[c], wrote, doubled[c])
                          /\ LinesAfter(put[c], ready, c, wrote, doubled[c])
    /\ LinesInOrder(ready, doubled)

QueuesInv == \A c \in Sockets : EndOf(outbox[c], put[c]) /\ Len(outbox[c]) <= QueueSize

(* The inductive invariant: order and completeness, with what is on its *)
(* way to a connection counted to what it has. *)
StreamsInv ==
    /\ StreamsTyped /\ KnownInv /\ EmitInv /\ DoubledInv /\ PagesInv /\ OrderInv /\ QueuesInv
    /\ NothingSkipped /\ RingsKeepTheNewest

(* The newest n entries of a sequence are its end. *)
LEMMA NewestIs ==
    ASSUME NEW T, NEW s \in Seq(T), NEW n \in Nat \ {0}
    PROVE  LET r == Newest(s, n)
           IN  /\ r \in Seq(T) /\ EndOf(r, s) /\ Len(r) <= n
               /\ Len(r) = IF Len(s) > n THEN n ELSE Len(s)
<1> DEFINE from == IF Len(s) > n THEN Len(s) - n + 1 ELSE 1
           r == SubSeq(s, from, Len(s))
           m == IF Len(s) > n THEN n ELSE Len(s)
<1>1. /\ Len(s) \in Nat /\ from \in 1..(Len(s) + 1) /\ m \in Nat /\ m <= n /\ m <= Len(s)
      /\ Len(s) - from + 1 = m /\ from - 1 = Len(s) - m /\ (from <= Len(s) \/ m = 0)
  OBVIOUS
<1>2. \A i \in 1..Len(s) : s[i] \in T OBVIOUS
<1>3. Newest(s, n) = r BY DEF Newest
<1> HIDE DEF from, m
<1>4. from \in Int /\ Len(s) \in Int /\ \A i \in from..Len(s) : s[i] \in T BY <1>1, <1>2
<1>5. /\ r \in Seq(T) /\ Len(r) = (IF from <= Len(s) THEN Len(s) - from + 1 ELSE 0)
      /\ \A i \in 1..(Len(s) - from + 1) : r[i] = s[from + i - 1]
  BY ONLY <1>4, SubSeqProperties
<1> HIDE DEF r
<1>6. Len(r) = m BY <1>1, <1>5
<1>7. ASSUME NEW i \in 1..m PROVE r[i] = s[Len(s) - m + i]
  <2>1. from + i - 1 = Len(s) - m + i /\ i \in 1..(Len(s) - from + 1) BY <1>1
  <2> QED BY <1>5, <2>1
<1>8. EndOf(r, s) BY <1>1, <1>6, <1>7 DEF EndOf
<1> QED BY <1>1, <1>3, <1>5, <1>6, <1>8 DEF m

(* The first n entries of a sequence. *)
LEMMA FirstPart ==
    ASSUME NEW x \in Seq(Nat), NEW n \in 0..Len(x)
    PROVE  /\ SubSeq(x, 1, n) \in Seq(Nat) /\ Len(SubSeq(x, 1, n)) = n
           /\ \A i \in 1..n : SubSeq(x, 1, n)[i] = x[i]
<1>1. n \in Nat /\ n \in Int /\ 1 \in Int /\ n <= Len(x) /\ Len(x) \in Nat OBVIOUS
<1>2. \A i \in 1..n : x[i] \in Nat BY <1>1
<1>3. /\ SubSeq(x, 1, n) \in Seq(Nat) /\ Len(SubSeq(x, 1, n)) = (IF 1 <= n THEN n - 1 + 1 ELSE 0)
      /\ \A i \in 1..(n - 1 + 1) : SubSeq(x, 1, n)[i] = x[1 + i - 1]
  BY ONLY <1>1, <1>2, SubSeqProperties
<1> QED BY <1>1, <1>3

(* An end is a suffix as the community module defines it. *)
LEMMA EndIsSuffix ==
    ASSUME NEW q \in Seq(Nat), NEW p \in Seq(Nat), EndOf(q, p)
    PROVE  IsSuffix(q, p)
<1> DEFINE a == Reverse(q)
           b == Reverse(p)
<1>1. Len(q) \in Nat /\ Len(p) \in Nat /\ Len(q) <= Len(p) BY DEF EndOf
<1>2. /\ a \in Seq(Nat) /\ Len(a) = Len(q) /\ \A i \in 1..Len(q) : a[i] = q[Len(q) - i + 1]
      /\ b \in Seq(Nat) /\ Len(b) = Len(p) /\ \A i \in 1..Len(p) : b[i] = p[Len(p) - i + 1]
  BY DEF Reverse
<1>3. ASSUME NEW i \in 1..Len(q) PROVE a[i] = b[i]
  <2>1. Len(q) - i + 1 \in 1..Len(q) /\ i \in 1..Len(p) BY <1>1
  <2>2. q[Len(q) - i + 1] = p[Len(p) - Len(q) + (Len(q) - i + 1)] BY <2>1 DEF EndOf
  <2>3. Len(p) - Len(q) + (Len(q) - i + 1) = Len(p) - i + 1 BY <1>1
  <2> QED BY <1>2, <2>1, <2>2, <2>3
<1> HIDE DEF a, b
<1> DEFINE u == SubSeq(a, 1, Len(a))
           v == SubSeq(b, 1, Len(a))
<1>4. Len(q) \in 0..Len(a) /\ Len(q) \in 0..Len(b) /\ Len(a) = Len(q) BY <1>1, <1>2
<1>5. /\ u \in Seq(Nat) /\ Len(u) = Len(q) /\ \A i \in 1..Len(q) : u[i] = a[i]
      /\ v \in Seq(Nat) /\ Len(v) = Len(q) /\ \A i \in 1..Len(q) : v[i] = b[i]
  BY <1>2, <1>4, FirstPart
<1> HIDE DEF u, v
<1>6. \A i \in 1..Len(u) : u[i] = v[i] BY <1>3, <1>5
<1>7. u = v BY ONLY <1>5, <1>6, SeqEqual
<1> QED BY <1>1, <1>2, <1>7 DEF IsSuffix, IsPrefix, a, b, u, v

(* BoundedQueue.put keeps a queue the end of all that was put. *)
LEMMA RoomIs ==
    ASSUME NEW q \in Seq(Nat), NEW p \in Seq(Nat), NEW n \in Nat, EndOf(q, p), Len(q) <= QueueSize
    PROVE  Room(q, n) \in Seq(Nat) /\ EndOf(Room(q, n), Append(p, n)) /\ Len(Room(q, n)) <= QueueSize
<1> DEFINE x == IF Len(q) >= QueueSize THEN Tail(q) ELSE q
<1>1. QueueSize \in Nat /\ QueueSize > 0 /\ Len(q) \in Nat /\ Len(p) \in Nat /\ Len(q) <= Len(p)
  BY StreamsAssumption DEF EndOf
<1>2. x \in Seq(Nat) /\ Len(x) < QueueSize /\ Len(x) <= Len(q) /\ \A i \in 1..Len(x) : x[i] = p[Len(p) - Len(x) + i]
  <2>1. CASE Len(q) >= QueueSize
    <3>1. q # <<>> /\ x = Tail(q) BY <1>1, <2>1
    <3>2. Tail(q) \in Seq(Nat) /\ Len(Tail(q)) = Len(q) - 1 /\ \A i \in 1..(Len(q) - 1) : Tail(q)[i] = q[i + 1]
      BY <3>1
    <3>3. ASSUME NEW i \in 1..(Len(q) - 1) PROVE Tail(q)[i] = p[Len(p) - (Len(q) - 1) + i]
      <4>1. i + 1 \in 1..Len(q) /\ Len(p) - Len(q) + (i + 1) = Len(p) - (Len(q) - 1) + i BY <1>1
      <4> QED BY <3>2, <4>1 DEF EndOf
    <3> QED BY <1>1, <2>1, <3>1, <3>2, <3>3
  <2>2. CASE ~(Len(q) >= QueueSize) BY <1>1, <2>2 DEF EndOf
  <2> QED BY <2>1, <2>2
<1> HIDE DEF x
<1>3. Room(q, n) = Append(x, n) BY DEF Room, x
<1>4. /\ Append(x, n) \in Seq(Nat) /\ Len(Append(x, n)) = Len(x) + 1 /\ Len(Append(p, n)) = Len(p) + 1
      /\ \A i \in 1..Len(x) : Append(x, n)[i] = x[i]
      /\ \A i \in 1..Len(p) : Append(p, n)[i] = p[i]
      /\ Append(x, n)[Len(x) + 1] = n /\ Append(p, n)[Len(p) + 1] = n
  BY <1>2
<1>5. ASSUME NEW i \in 1..(Len(x) + 1) PROVE Append(x, n)[i] = Append(p, n)[(Len(p) + 1) - (Len(x) + 1) + i]
  <2>0. Len(x) \in Nat BY <1>2
  <2>1. CASE i = Len(x) + 1 BY <1>1, <1>4, <2>0, <2>1
  <2>2. CASE i # Len(x) + 1
    <3>1. i \in 1..Len(x) /\ Len(p) - Len(x) + i \in 1..Len(p) /\ (Len(p) + 1) - (Len(x) + 1) + i = Len(p) - Len(x) + i
      BY <1>1, <1>2, <2>0, <2>2
    <3> QED BY <1>2, <1>4, <3>1
  <2> QED BY <2>1, <2>2
<1>6. Len(x) + 1 \in Nat /\ Len(x) + 1 <= Len(p) + 1 /\ Len(x) + 1 <= QueueSize BY <1>1, <1>2
<1>7. EndOf(Append(x, n), Append(p, n)) BY ONLY <1>4, <1>5, <1>6 DEF EndOf
<1> QED BY <1>3, <1>4, <1>6, <1>7

(* What the pump takes off a queue. *)
LEMMA TailIsEnd ==
    ASSUME NEW q \in Seq(Nat), NEW p \in Seq(Nat), EndOf(q, p), q # <<>>
    PROVE  Tail(q) \in Seq(Nat) /\ EndOf(Tail(q), p) /\ Len(Tail(q)) <= Len(q) /\ Head(q) = p[Len(p) - Len(q) + 1]
           /\ Len(p) - Len(q) + 1 \in 1..Len(p)
<1>1. Len(q) \in Nat /\ Len(p) \in Nat /\ Len(q) <= Len(p) /\ 1 \in 1..Len(q) /\ Head(q) = q[1]
  BY DEF EndOf
<1>2. Tail(q) \in Seq(Nat) /\ Len(Tail(q)) = Len(q) - 1 /\ \A i \in 1..(Len(q) - 1) : Tail(q)[i] = q[i + 1]
  OBVIOUS
<1>3. ASSUME NEW i \in 1..(Len(q) - 1) PROVE Tail(q)[i] = p[Len(p) - (Len(q) - 1) + i]
  <2>1. i + 1 \in 1..Len(q) /\ Len(p) - Len(q) + (i + 1) = Len(p) - (Len(q) - 1) + i BY <1>1
  <2> QED BY <1>2, <2>1 DEF EndOf
<1>4. q[1] = p[Len(p) - Len(q) + 1] BY <1>1 DEF EndOf
<1> QED BY <1>1, <1>2, <1>3, <1>4 DEF EndOf

(* The list of a finite set names each of its elements once. *)
LEMMA ListedOnce ==
    ASSUME NEW S, IsFiniteSet(S)
    PROVE  LET t == SetToSeq(S)
           IN  /\ t \in Seq(S) /\ \A i, j \in DOMAIN t : t[i] = t[j] => i = j
               /\ \A x \in S : \E i \in DOMAIN t : t[i] = x
<1> DEFINE n == Cardinality(S)
           t == SetToSeq(S)
<1>1. n \in Nat /\ IsFiniteSet(1..n) /\ Cardinality(1..n) = n BY FS_CardinalityType, FS_Interval
<1>2. Bijection(1..n, S) # {} BY <1>1, FS_SameCardinalityBij DEF ExistsBijection
<1>3. PICK f \in [1..n -> S] : IsInjective(f) BY <1>2 DEF Bijection, Injection
<1>4. t \in [1..n -> S] /\ IsInjective(t) BY <1>3 DEF SetToSeq
<1>5. t \in Injection(1..n, S) BY <1>4 DEF Injection
<1>6. t \in Surjection(1..n, S) BY <1>1, <1>5, FS_Injection
<1>7. t \in Seq(S) /\ DOMAIN t = 1..n BY <1>1, <1>4
<1> QED BY <1>4, <1>6, <1>7 DEF IsInjective, Surjection

(* A sequence with one entry more. *)
LEMMA AppendIs ==
    ASSUME NEW T, NEW s \in Seq(T), NEW x \in T
    PROVE  /\ Append(s, x) \in Seq(T) /\ Len(s) \in Nat /\ Len(Append(s, x)) = Len(s) + 1
           /\ DOMAIN s = 1..Len(s) /\ DOMAIN Append(s, x) = 1..(Len(s) + 1)
           /\ \A i \in 1..Len(s) : Append(s, x)[i] = s[i]
           /\ Append(s, x)[Len(s) + 1] = x
  OBVIOUS

(* The history is one entry longer. *)
Written(k) ==
    /\ written \in Nat /\ Len(wrote') = written + 1 /\ wrote' \in Seq(ListKinds)
    /\ wrote'[written + 1] = k /\ \A n \in 1..written : wrote'[n] = wrote[n]

LEMMA WrittenIs ==
    ASSUME StreamsTyped, NEW k \in ListKinds, wrote' = Append(wrote, k)
    PROVE  Written(k)
<1>1. wrote \in Seq(ListKinds) BY DEF StreamsTyped
<1> QED BY <1>1, AppendIs DEF Written, written

(* A put leaves every queue the end of what was put into it. *)
LEMMA PutsAre ==
    ASSUME StreamsTyped, QueuesInv, NEW cs, NEW n \in Nat, Puts(cs, n)
    PROVE  /\ outbox' \in [Sockets -> Seq(Nat)] /\ put' \in [Sockets -> Seq(Nat)] /\ QueuesInv'
           /\ \A c \in Sockets : put'[c] = IF c \in cs THEN Append(put[c], n) ELSE put[c]
           /\ \A c \in Sockets : c \notin cs => outbox'[c] = outbox[c]
<1>1. outbox \in [Sockets -> Seq(Nat)] /\ put \in [Sockets -> Seq(Nat)] BY DEF StreamsTyped
<1>2. /\ outbox' = [c \in Sockets |-> IF c \in cs THEN Room(outbox[c], n) ELSE outbox[c]]
      /\ put' = [c \in Sockets |-> IF c \in cs THEN Append(put[c], n) ELSE put[c]]
  BY DEF Puts
<1>3. ASSUME NEW c \in Sockets
      PROVE  /\ outbox'[c] \in Seq(Nat) /\ put'[c] \in Seq(Nat) /\ EndOf(outbox'[c], put'[c])
             /\ Len(outbox'[c]) <= QueueSize
  <2>1. EndOf(outbox[c], put[c]) /\ Len(outbox[c]) <= QueueSize /\ outbox[c] \in Seq(Nat) /\ put[c] \in Seq(Nat)
    BY <1>1 DEF QueuesInv
  <2>2. CASE c \in cs
    <3>1. outbox'[c] = Room(outbox[c], n) /\ put'[c] = Append(put[c], n) BY <1>2, <2>2
    <3>2. Append(put[c], n) \in Seq(Nat) BY <2>1
    <3> QED BY ONLY <2>1, <3>1, <3>2, n \in Nat, RoomIs
  <2>3. CASE c \notin cs BY <1>2, <2>1, <2>3
  <2> QED BY <2>2, <2>3
<1>4. outbox' \in [Sockets -> Seq(Nat)] /\ put' \in [Sockets -> Seq(Nat)] BY ONLY <1>2, <1>3
<1> QED BY <1>2, <1>3, <1>4 DEF QueuesInv

RingOf(k, r, w) ==
    /\ Len(r) <= RingSize
    /\ \A i \in DOMAIN r : r[i] \in 1..Len(w) /\ w[r[i]] = k
    /\ \A i, j \in DOMAIN r : i < j => r[i] < r[j]
    /\ \A n \in 1..Len(w) : w[n] = k =>
          \/ Contains(r, n)
          \/ Len(r) = RingSize /\ n < Head(r)

LEMMA RingsAre == RingsKeepTheNewest <=> \A k \in {"command", "log"} : RingOf(k, ring[k], wrote)
  BY DEF RingsKeepTheNewest, RingOf, written

(* RingBuffer.append keeps the newest of its kind. *)
LEMMA RingGrows ==
    ASSUME NEW w \in Seq(ListKinds), NEW k \in {"command", "log"}, NEW r \in Seq(Nat), RingOf(k, r, w)
    PROVE  LET t == Newest(Append(r, Len(w) + 1), RingSize)
           IN  t \in Seq(Nat) /\ RingOf(k, t, Append(w, k))
<1> DEFINE x == Append(r, Len(w) + 1)
           t == Newest(x, RingSize)
           v == Append(w, k)
           d == Len(x) - Len(t)
<1>0. Len(w) + 1 \in Nat /\ k \in ListKinds /\ RingSize \in Nat \ {0}
  BY StreamsAssumption DEF ListKinds
<1>1. RingSize \in Nat /\ RingSize > 0 /\ Len(w) \in Nat /\ Len(r) \in Nat /\ Len(r) <= RingSize /\ DOMAIN r = 1..Len(r)
  BY <1>0 DEF RingOf
<1>2. /\ x \in Seq(Nat) /\ Len(x) = Len(r) + 1 /\ x[Len(r) + 1] = Len(w) + 1 /\ \A i \in 1..Len(r) : x[i] = r[i]
  BY ONLY <1>0, AppendIs, r \in Seq(Nat)
<1>20. /\ v \in Seq(ListKinds) /\ Len(v) = Len(w) + 1 /\ v[Len(w) + 1] = k /\ \A i \in 1..Len(w) : v[i] = w[i]
  BY ONLY <1>0, AppendIs, w \in Seq(ListKinds)
<1> HIDE DEF x, v
<1>3. /\ t \in Seq(Nat) /\ EndOf(t, x) /\ Len(t) <= RingSize
      /\ Len(t) = IF Len(x) > RingSize THEN RingSize ELSE Len(x)
  BY ONLY <1>0, <1>2, NewestIs
<1> HIDE DEF t
<1>4. /\ \A i \in 1..Len(r) : r[i] \in 1..Len(w) /\ w[r[i]] = k
      /\ \A i, j \in 1..Len(r) : i < j => r[i] < r[j]
  BY <1>1 DEF RingOf
<1>14. Len(t) \in Nat /\ DOMAIN t = 1..Len(t) /\ Len(x) \in Nat BY ONLY <1>3, <1>2, <1>1
<1>25. /\ RingSize \in Nat /\ RingSize > 0 /\ Len(r) \in Nat /\ Len(r) <= RingSize
       /\ Len(t) \in Nat /\ Len(x) \in Nat /\ Len(x) = Len(r) + 1
  BY ONLY <1>1, <1>2, <1>14
<1>15. Len(t) >= 1 /\ d \in Nat /\ Len(x) = d + Len(t) /\ (d # 0 => Len(t) = RingSize) /\ (Len(r) = RingSize => d = 1)
  <2>1. CASE Len(x) > RingSize
    <3>1. Len(t) = RingSize BY ONLY <1>3, <2>1
    <3>2. d = 1 BY ONLY <1>25, <2>1, <3>1 DEF d
    <3> QED BY ONLY <1>25, <2>1, <3>1, <3>2
  <2>2. CASE ~(Len(x) > RingSize)
    <3>1. Len(t) = Len(x) BY ONLY <1>3, <2>2
    <3>2. d = 0 BY ONLY <1>14, <3>1 DEF d
    <3> QED BY ONLY <1>25, <2>2, <3>1, <3>2
  <2> QED BY ONLY <2>1, <2>2
<1>16. \A i \in 1..Len(t) : t[i] = x[d + i] BY <1>3 DEF EndOf
<1> HIDE DEF d
<1>17. \A i \in 1..Len(x) : i = Len(r) + 1 \/ i \in 1..Len(r) BY ONLY <1>1, <1>2
<1>18. \A i \in 1..Len(x) : x[i] \in Nat BY ONLY <1>2, <1>4, <1>17, <1>1
<1>5. ASSUME NEW i \in 1..Len(x) PROVE x[i] \in 1..Len(v) /\ v[x[i]] = k
  <2>1. CASE i = Len(r) + 1 BY ONLY <1>1, <1>2, <1>20, <2>1
  <2>2. CASE i \in 1..Len(r)
    <3>1. x[i] = r[i] /\ r[i] \in 1..Len(w) /\ w[r[i]] = k BY ONLY <1>2, <1>4, <2>2
    <3> QED BY ONLY <1>1, <1>20, <3>1
  <2> QED BY ONLY <1>17, <2>1, <2>2, i \in 1..Len(x)
<1>6. ASSUME NEW i \in 1..Len(x), NEW j \in 1..Len(x), i < j PROVE x[i] < x[j]
  <2>0. i \in 1..Len(r) BY ONLY <1>1, <1>2, <1>6, i \in 1..Len(x), j \in 1..Len(x)
  <2>3. x[i] = r[i] /\ r[i] \in 1..Len(w) BY ONLY <1>2, <1>4, <2>0
  <2>1. CASE j = Len(r) + 1 BY ONLY <1>1, <1>2, <2>3, <2>1
  <2>2. CASE j \in 1..Len(r)
    <3>1. x[j] = r[j] /\ r[i] < r[j] BY ONLY <1>2, <1>4, <1>6, <2>0, <2>2
    <3> QED BY ONLY <2>3, <3>1
  <2> QED BY ONLY <1>17, <2>1, <2>2, j \in 1..Len(x)
<1>7. \A i \in 1..Len(t) : d + i \in 1..Len(x) BY ONLY <1>14, <1>15
<1>8. ASSUME NEW i \in 1..Len(t) PROVE t[i] \in 1..Len(v) /\ v[t[i]] = k
  BY ONLY <1>5, <1>7, <1>16, i \in 1..Len(t)
<1>9. ASSUME NEW i \in 1..Len(t), NEW j \in 1..Len(t), i < j PROVE t[i] < t[j]
  <2>1. d + i < d + j BY ONLY <1>14, <1>15, <1>9, i \in 1..Len(t), j \in 1..Len(t)
  <2> QED BY ONLY <1>6, <1>7, <1>16, <2>1, i \in 1..Len(t), j \in 1..Len(t)
<1>10. ASSUME NEW n \in 1..Len(v), v[n] = k PROVE Contains(t, n) \/ (Len(t) = RingSize /\ n < Head(t))
  <2>1. Head(t) = t[1] /\ 1 \in 1..Len(t) BY ONLY <1>3, <1>14, <1>15
  <2>2. \A i \in 1..Len(x) : i > d => Contains(t, x[i])
    <3> TAKE i \in 1..Len(x)
    <3> HAVE i > d
    <3>1. i - d \in 1..Len(t) /\ d + (i - d) = i BY ONLY <1>14, <1>15, i \in 1..Len(x), i > d
    <3>2. t[i - d] = x[i] BY ONLY <1>16, <3>1
    <3> QED BY <1>14, <3>1, <3>2 DEF Contains
  <2>3. CASE n = Len(w) + 1
    <3>1. Len(r) + 1 = d + Len(t) /\ Len(r) + 1 \in 1..Len(x) BY ONLY <1>25, <1>15
    <3>2. Len(r) + 1 > d BY ONLY <1>25, <1>15, <3>1
    <3> QED BY ONLY <1>2, <2>2, <2>3, <3>1, <3>2
  <2>4. CASE n # Len(w) + 1
    <3>1. n \in 1..Len(w) /\ w[n] = k BY ONLY <1>1, <1>20, <1>10, <2>4, n \in 1..Len(v)
    <3>2. CASE Contains(r, n)
      <4>1. PICK i \in 1..Len(r) : r[i] = n BY <1>1, <3>2 DEF Contains
      <4>2. i \in 1..Len(x) /\ x[i] = n BY ONLY <1>1, <1>2, <4>1
      <4>3. CASE i > d BY ONLY <2>2, <4>2, <4>3
      <4>4. CASE ~(i > d)
        <5>1. d # 0 /\ i < d + 1 BY ONLY <1>15, <4>2, <4>4, <1>14
        <5>2. d + 1 \in 1..Len(x) /\ t[1] = x[d + 1] BY ONLY <1>7, <1>16, <2>1
        <5>3. x[i] < x[d + 1] BY ONLY <1>6, <4>2, <5>1, <5>2
        <5> QED BY ONLY <1>15, <2>1, <4>2, <5>1, <5>2, <5>3
      <4> QED BY ONLY <4>3, <4>4
    <3>3. CASE Len(r) = RingSize /\ n < Head(r)
      <4>1. Len(t) = RingSize /\ d = 1 /\ Head(r) = r[1] /\ 1 \in 1..Len(r)
        BY ONLY <1>1, <1>15, <3>3, r \in Seq(Nat)
      <4>2. x[1] = r[1] /\ 1 \in 1..Len(x) /\ 2 \in 1..Len(x) /\ t[1] = x[2]
        BY ONLY <1>1, <1>2, <1>7, <1>16, <2>1, <4>1
      <4>4. x[1] < x[2] /\ x[1] \in Nat /\ x[2] \in Nat BY ONLY <1>6, <1>18, <4>2
      <4>5. n \in Nat BY ONLY <1>1, <3>1
      <4> QED BY ONLY <2>1, <3>3, <4>1, <4>2, <4>4, <4>5
    <3> QED BY <3>1, <3>2, <3>3 DEF RingOf
  <2> QED BY ONLY <2>3, <2>4
<1>11. RingOf(k, t, v) BY ONLY <1>3, <1>8, <1>9, <1>10, <1>14 DEF RingOf
<1> QED BY <1>3, <1>11 DEF x, v, t

(* An entry of another kind leaves a ring what it was. *)
LEMMA RingStays ==
    ASSUME NEW w \in Seq(ListKinds), NEW k \in ListKinds, NEW e \in ListKinds, k # e, NEW r \in Seq(Nat), RingOf(k, r, w)
    PROVE  RingOf(k, r, Append(w, e))
<1>1. /\ Len(w) \in Nat /\ Len(Append(w, e)) = Len(w) + 1 /\ Append(w, e)[Len(w) + 1] = e
      /\ \A i \in 1..Len(w) : Append(w, e)[i] = w[i]
  OBVIOUS
<1> QED BY <1>1 DEF RingOf

LEMMA RingsGrow ==
    ASSUME StreamsTyped, RingsKeepTheNewest, NEW k \in {"command", "log"}, wrote' = Append(wrote, k), Kept(k, written + 1)
    PROVE  RingsKeepTheNewest' /\ ring' \in [ListKinds -> Seq(Nat)]
<1>1. wrote \in Seq(ListKinds) /\ ring \in [ListKinds -> Seq(Nat)] /\ k \in ListKinds
  BY DEF StreamsTyped, ListKinds
<1>2. ring' = [ring EXCEPT ![k] = Newest(Append(ring[k], Len(wrote) + 1), RingSize)]
  BY DEF Kept, written
<1>3. \A e \in {"command", "log"} : RingOf(e, ring[e], wrote) /\ e \in ListKinds
  BY RingsAre DEF ListKinds
<1>4. /\ Newest(Append(ring[k], Len(wrote) + 1), RingSize) \in Seq(Nat)
      /\ RingOf(k, Newest(Append(ring[k], Len(wrote) + 1), RingSize), Append(wrote, k))
  BY <1>1, <1>3, RingGrows
<1>5. ring' \in [ListKinds -> Seq(Nat)] BY <1>1, <1>2, <1>4
<1>6. ASSUME NEW e \in {"command", "log"} PROVE RingOf(e, ring'[e], wrote')
  <2>1. CASE e = k
    <3>1. ring'[e] = Newest(Append(ring[k], Len(wrote) + 1), RingSize) BY <1>1, <1>2, <2>1
    <3> QED BY <1>4, <2>1, <3>1
  <2>2. CASE e # k
    <3>1. ring'[e] = ring[e] BY <1>1, <1>2, <1>3, <2>2
    <3> QED BY <1>1, <1>3, <2>2, <3>1, RingStays
  <2> QED BY <2>1, <2>2
<1>7. RingsKeepTheNewest' BY <1>6 DEF RingsKeepTheNewest, RingOf, written
<1> QED BY <1>5, <1>7

LEMMA RingsStand ==
    ASSUME StreamsTyped, RingsKeepTheNewest, wrote' = Append(wrote, "value"), UNCHANGED ring
    PROVE  RingsKeepTheNewest'
<1>1. wrote \in Seq(ListKinds) /\ ring \in [ListKinds -> Seq(Nat)] /\ "value" \in ListKinds
  BY DEF StreamsTyped, ListKinds
<1>2. \A e \in {"command", "log"} : RingOf(e, ring[e], wrote) /\ e \in ListKinds /\ e # "value"
  BY RingsAre DEF ListKinds
<1>3. \A e \in {"command", "log"} : RingOf(e, ring[e], Append(wrote, "value"))
  BY <1>1, <1>2, RingStays
<1> QED BY <1>3 DEF RingsKeepTheNewest, RingOf, written

(* The history v begins with w. *)
GrownInto(w, v) == Len(w) <= Len(v) /\ \A n \in 1..Len(w) : v[n] = w[n]

(* What was said of entries stays true of a longer history. *)
LEMMA KnownStays ==
    ASSUME NEW w \in Seq(ListKinds), NEW v \in Seq(ListKinds), GrownInto(w, v), NEW S,
           NEW p \in Seq(Nat), KnownTo(p, w, S)
    PROVE  KnownTo(p, v, S)
<1>1. Len(w) \in Nat /\ Len(v) \in Nat OBVIOUS
<1> QED BY <1>1 DEF GrownInto, KnownTo

LEMMA LinesKnownStays ==
    ASSUME NEW w \in Seq(ListKinds), NEW v \in Seq(ListKinds), GrownInto(w, v),
           NEW r, LinesKnown(r, w)
    PROVE  LinesKnown(r, v)
<1>1. Len(w) \in Nat /\ Len(v) \in Nat OBVIOUS
<1> QED BY <1>1 DEF GrownInto, LinesKnown

LEMMA GivenStays ==
    ASSUME NEW w \in Seq(ListKinds), NEW v \in Seq(ListKinds), GrownInto(w, v), NEW S, NEW d,
           NEW p \in Seq(Nat), KnownTo(p, w, S), GivenTo(p, w, d)
    PROVE  GivenTo(p, v, d)
<1>1. \A i \in DOMAIN p : v[p[i]] = w[p[i]] BY DEF GrownInto, KnownTo
<1> QED BY <1>1 DEF GivenTo

LEMMA AfterStays ==
    ASSUME NEW w \in Seq(ListKinds), NEW v \in Seq(ListKinds), GrownInto(w, v), NEW S, NEW d, NEW c, NEW r,
           NEW p \in Seq(Nat), KnownTo(p, w, S), LinesAfter(p, r, c, w, d)
    PROVE  LinesAfter(p, r, c, v, d)
<1>1. \A i \in DOMAIN p : v[p[i]] = w[p[i]] BY DEF GrownInto, KnownTo
<1> QED BY <1>1 DEF LinesAfter

(* One entry more. *)
LEMMA GivenOne ==
    ASSUME NEW v \in Seq(ListKinds), NEW S, NEW d, NEW p \in Seq(Nat), NEW n \in 1..Len(v), v[n] \in S,
           KnownTo(p, v, S), GivenTo(p, v, d),
           \A i \in DOMAIN p : v[p[i]] = v[n] => p[i] < n \/ (p[i] = n /\ p[i] = d)
    PROVE  KnownTo(Append(p, n), v, S) /\ GivenTo(Append(p, n), v, d)
<1> DEFINE q == Append(p, n)
<1>0. n \in Nat /\ Len(p) \in Nat OBVIOUS
<1>1. /\ Len(q) = Len(p) + 1 /\ DOMAIN p = 1..Len(p) /\ DOMAIN q = 1..(Len(p) + 1)
      /\ \A i \in 1..Len(p) : q[i] = p[i]
      /\ q[Len(p) + 1] = n
  BY ONLY <1>0, AppendIs, p \in Seq(Nat)
<1> HIDE DEF q
<1>2. \A i \in DOMAIN q : i = Len(p) + 1 \/ i \in DOMAIN p BY ONLY <1>0, <1>1
<1>3. KnownTo(q, v, S) BY <1>1, <1>2 DEF KnownTo
<1>4. ASSUME NEW i \in DOMAIN q, NEW j \in DOMAIN q, i < j, v[q[i]] = v[q[j]]
      PROVE  q[i] < q[j] \/ (q[i] = q[j] /\ q[i] = d)
  <2>1. i \in DOMAIN p BY ONLY <1>0, <1>1, <1>4, i \in DOMAIN q, j \in DOMAIN q
  <2>2. CASE j = Len(p) + 1 BY <1>1, <1>4, <2>1, <2>2
  <2>3. CASE j \in DOMAIN p BY <1>1, <1>4, <2>1, <2>3 DEF GivenTo
  <2> QED BY <1>2, <2>2, <2>3
<1>5. GivenTo(q, v, d) BY <1>4 DEF GivenTo
<1> QED BY <1>3, <1>5 DEF q

LEMMA AfterOne ==
    ASSUME NEW v \in Seq(ListKinds), NEW d, NEW c, NEW r, NEW p \in Seq(Nat), NEW n \in Nat, LinesAfter(p, r, c, v, d),
           \A j \in DOMAIN r : r[j][1] = c /\ v[n] = "log" => n < r[j][2] \/ (n = r[j][2] /\ n = d)
    PROVE  LinesAfter(Append(p, n), r, c, v, d)
<1> DEFINE q == Append(p, n)
<1>0. Len(p) \in Nat OBVIOUS
<1>1. /\ Len(q) = Len(p) + 1 /\ DOMAIN p = 1..Len(p) /\ DOMAIN q = 1..(Len(p) + 1)
      /\ \A i \in 1..Len(p) : q[i] = p[i]
      /\ q[Len(p) + 1] = n
  BY ONLY AppendIs, p \in Seq(Nat), n \in Nat
<1> HIDE DEF q
<1>2. \A i \in DOMAIN q : i = Len(p) + 1 \/ i \in DOMAIN p BY ONLY <1>0, <1>1
<1>3. LinesAfter(q, r, c, v, d) BY <1>1, <1>2 DEF LinesAfter
<1> QED BY <1>3 DEF q

(* The loop has more lines to put. *)
Joined(t, s, l) ==
    /\ Len(s) \in Nat /\ Len(l) \in Nat /\ DOMAIN s = 1..Len(s) /\ DOMAIN l = 1..Len(l)
    /\ DOMAIN t = 1..(Len(s) + Len(l)) /\ Len(t) = Len(s) + Len(l)
    /\ \A i \in DOMAIN s : i \in DOMAIN t /\ t[i] = s[i]
    /\ \A m \in DOMAIN l : Len(s) + m \in DOMAIN t /\ t[Len(s) + m] = l[m]
    /\ \A i \in DOMAIN t : i \in DOMAIN s \/ (i - Len(s) \in DOMAIN l /\ i = Len(s) + (i - Len(s)))

LEMMA JoinIs ==
    ASSUME NEW T, NEW s \in Seq(T), NEW l \in Seq(T)
    PROVE  s \o l \in Seq(T) /\ Joined(s \o l, s, l)
<1>1. Len(s) \in Nat /\ Len(l) \in Nat /\ DOMAIN s = 1..Len(s) /\ DOMAIN l = 1..Len(l) OBVIOUS
<1>2. /\ s \o l \in Seq(T) /\ Len(s \o l) = Len(s) + Len(l)
      /\ \A i \in 1..(Len(s) + Len(l)) : (s \o l)[i] = IF i <= Len(s) THEN s[i] ELSE l[i - Len(s)]
  BY ONLY s \in Seq(T), l \in Seq(T), ConcatProperties
<1>3. DOMAIN (s \o l) = 1..(Len(s) + Len(l)) BY ONLY <1>2
<1>4. ASSUME NEW i \in DOMAIN s PROVE i \in DOMAIN (s \o l) /\ (s \o l)[i] = s[i]
  BY ONLY <1>1, <1>2, <1>3, i \in DOMAIN s
<1>5. ASSUME NEW m \in DOMAIN l PROVE Len(s) + m \in DOMAIN (s \o l) /\ (s \o l)[Len(s) + m] = l[m]
  <2>1. Len(s) + m \in 1..(Len(s) + Len(l)) /\ ~(Len(s) + m <= Len(s)) /\ Len(s) + m - Len(s) = m
    BY ONLY <1>1, m \in DOMAIN l
  <2> QED BY ONLY <1>2, <1>3, <2>1
<1>6. ASSUME NEW i \in DOMAIN (s \o l), i \notin DOMAIN s
      PROVE  i - Len(s) \in DOMAIN l /\ i = Len(s) + (i - Len(s))
  BY ONLY <1>1, <1>3, <1>6, i \in DOMAIN (s \o l)
<1> QED BY ONLY <1>1, <1>2, <1>3, <1>4, <1>5, <1>6 DEF Joined

LEMMA LinesMore ==
    ASSUME NEW v \in Seq(ListKinds), NEW D, NEW r \in Seq(Pages \X Nat), NEW l \in Seq(Pages \X Nat),
           LinesKnown(r, v), LinesKnown(l, v), LinesInOrder(r, D), LinesInOrder(l, D),
           \A i \in DOMAIN r, m \in DOMAIN l : r[i][1] = l[m][1] =>
               r[i][2] < l[m][2] \/ (r[i][2] = l[m][2] /\ r[i][2] = D[r[i][1]])
    PROVE  LinesKnown(r \o l, v) /\ LinesInOrder(r \o l, D)
<1> DEFINE t == r \o l
<1>0. Joined(t, r, l) BY JoinIs
<1> HIDE DEF t
<1>9. Len(l) \in Nat /\ Len(r) \in Nat /\ DOMAIN r = 1..Len(r) /\ DOMAIN l = 1..Len(l)
  BY ONLY <1>0 DEF Joined
<1>2. \A i \in DOMAIN t : (i \in DOMAIN r /\ t[i] = r[i]) \/ \E m \in DOMAIN l : i = Len(r) + m /\ t[i] = l[m]
  BY ONLY <1>0 DEF Joined
<1>3. LinesKnown(t, v)
  <2> SUFFICES ASSUME NEW i \in DOMAIN t PROVE t[i][2] \in 1..Len(v) /\ v[t[i][2]] = "log"
    BY DEF LinesKnown
  <2>1. CASE i \in DOMAIN r /\ t[i] = r[i] BY <2>1 DEF LinesKnown
  <2>2. CASE \E m \in DOMAIN l : i = Len(r) + m /\ t[i] = l[m] BY <2>2 DEF LinesKnown
  <2> QED BY <1>2, <2>1, <2>2
<1>4. ASSUME NEW i \in DOMAIN t, NEW j \in DOMAIN t, i < j, t[i][1] = t[j][1]
      PROVE  t[i][2] < t[j][2] \/ (t[i][2] = t[j][2] /\ t[i][2] = D[t[i][1]])
  <2>0. \A m \in DOMAIN r : t[m] = r[m] BY ONLY <1>0 DEF Joined
  <2>1. CASE i \in DOMAIN r /\ j \in DOMAIN r
    <3>1. t[i] = r[i] /\ t[j] = r[j] BY <2>0, <2>1
    <3> QED BY ONLY <1>4, <2>1, <3>1, LinesInOrder(r, D) DEF LinesInOrder
  <2>2. CASE i \in DOMAIN r /\ \E m \in DOMAIN l : j = Len(r) + m /\ t[j] = l[m]
    <3>1. t[i] = r[i] BY <2>0, <2>2
    <3>2. PICK m \in DOMAIN l : t[j] = l[m] BY <2>2
    <3>3. r[i][1] = l[m][1] BY ONLY <1>4, <3>1, <3>2
    <3>4. r[i][2] < l[m][2] \/ (r[i][2] = l[m][2] /\ r[i][2] = D[r[i][1]]) BY <2>2, <3>3
    <3> QED BY ONLY <3>1, <3>2, <3>4
  <2>3. CASE (\E m \in DOMAIN l : i = Len(r) + m /\ t[i] = l[m]) /\ \E m \in DOMAIN l : j = Len(r) + m /\ t[j] = l[m]
    <3>1. PICK m \in DOMAIN l, n \in DOMAIN l : i = Len(r) + m /\ t[i] = l[m] /\ j = Len(r) + n /\ t[j] = l[n]
      BY <2>3
    <3>2. m < n BY ONLY <1>4, <1>9, <3>1, m \in DOMAIN l, n \in DOMAIN l
    <3> QED BY ONLY <1>4, <3>1, <3>2, LinesInOrder(l, D) DEF LinesInOrder
  <2>4. CASE (\E m \in DOMAIN l : i = Len(r) + m /\ t[i] = l[m]) /\ j \in DOMAIN r
    <3>1. PICK m \in DOMAIN l : i = Len(r) + m BY <2>4
    <3> QED BY ONLY <1>4, <1>9, <2>4, <3>1
  <2> QED BY ONLY <1>2, <2>1, <2>2, <2>3, <2>4, i \in DOMAIN t, j \in DOMAIN t
<1>5. LinesInOrder(t, D) BY <1>4 DEF LinesInOrder
<1> QED BY <1>3, <1>5 DEF t

LEMMA AfterMore ==
    ASSUME NEW v, NEW d, NEW c, NEW p, NEW r \in Seq(Pages \X Nat), NEW l \in Seq(Pages \X Nat),
           LinesAfter(p, r, c, v, d), LinesAfter(p, l, c, v, d)
    PROVE  LinesAfter(p, r \o l, c, v, d)
<1> DEFINE t == r \o l
<1>0. Joined(t, r, l) BY JoinIs
<1> HIDE DEF t
<1>2. \A i \in DOMAIN t : (i \in DOMAIN r /\ t[i] = r[i]) \/ \E m \in DOMAIN l : t[i] = l[m]
  BY ONLY <1>0 DEF Joined
<1>3. LinesAfter(p, t, c, v, d) BY <1>2 DEF LinesAfter
<1> QED BY <1>3 DEF t

LEMMA ContainsJoin ==
    ASSUME NEW T, NEW s \in Seq(T), NEW l \in Seq(T), NEW y
    PROVE  Contains(s \o l, y) <=> Contains(s, y) \/ Contains(l, y)
<1> DEFINE t == s \o l
<1>1. t \in Seq(T) /\ Joined(t, s, l) BY JoinIs
<1> HIDE DEF t
<1>2. /\ DOMAIN t = 1..Len(t) /\ DOMAIN s = 1..Len(s) /\ DOMAIN l = 1..Len(l)
      /\ \A i \in DOMAIN s : i \in DOMAIN t /\ t[i] = s[i]
      /\ \A m \in DOMAIN l : Len(s) + m \in DOMAIN t /\ t[Len(s) + m] = l[m]
      /\ \A i \in DOMAIN t : i \in DOMAIN s \/ (i - Len(s) \in DOMAIN l /\ i = Len(s) + (i - Len(s)))
  BY ONLY <1>1 DEF Joined
<1>3. ASSUME Contains(t, y) PROVE Contains(s, y) \/ Contains(l, y)
  <2>1. PICK i \in DOMAIN t : t[i] = y BY <1>2, <1>3 DEF Contains
  <2>2. CASE i \in DOMAIN s BY <1>2, <2>1, <2>2 DEF Contains
  <2>3. CASE i - Len(s) \in DOMAIN l /\ i = Len(s) + (i - Len(s))
    <3>1. l[i - Len(s)] = y BY ONLY <1>2, <2>1, <2>3
    <3> QED BY <1>2, <2>3, <3>1 DEF Contains
  <2> QED BY <1>2, <2>2, <2>3
<1>4. ASSUME Contains(s, y) PROVE Contains(t, y) BY <1>2, <1>4 DEF Contains
<1>5. ASSUME Contains(l, y) PROVE Contains(t, y) BY <1>2, <1>5 DEF Contains
<1>6. Contains(t, y) <=> Contains(s, y) \/ Contains(l, y) BY <1>3, <1>4, <1>5
<1> QED BY <1>6 DEF t

LEMMA AppendJoins ==
    ASSUME NEW T, NEW s \in Seq(T), NEW x \in T
    PROVE  Append(s, x) = s \o <<x>> /\ <<x>> \in Seq(T) /\ DOMAIN <<x>> = {1} /\ <<x>>[1] = x
<1>1. <<x>> \in Seq(T) /\ Len(<<x>>) = 1 /\ <<x>>[1] = x /\ DOMAIN <<x>> = {1} OBVIOUS
<1>2. Append(s, x) = s \o <<x>> BY ONLY AppendIsConcat, s \in Seq(T), x \in T
<1> QED BY <1>1, <1>2

LEMMA ContainsAppend ==
    ASSUME NEW T, NEW s \in Seq(T), NEW x \in T, NEW y
    PROVE  Contains(Append(s, x), y) <=> Contains(s, y) \/ y = x
<1>1. Append(s, x) = s \o <<x>> /\ <<x>> \in Seq(T) /\ DOMAIN <<x>> = {1} /\ <<x>>[1] = x /\ Len(<<x>>) = 1
  BY AppendJoins
<1>2. Contains(<<x>>, y) <=> y = x BY <1>1 DEF Contains
<1>3. Contains(s \o <<x>>, y) <=> Contains(s, y) \/ Contains(<<x>>, y) BY <1>1, ContainsJoin
<1> QED BY <1>1, <1>2, <1>3

LEMMA TailIs ==
    ASSUME NEW T, NEW s \in Seq(T), s # <<>>
    PROVE  /\ Tail(s) \in Seq(T) /\ Head(s) = s[1] /\ Head(s) \in T /\ 1 \in DOMAIN s
           /\ \A i \in DOMAIN Tail(s) : i \in Nat /\ i + 1 \in DOMAIN s /\ Tail(s)[i] = s[i + 1]
           /\ \A i \in DOMAIN s : i # 1 => i - 1 \in DOMAIN Tail(s) /\ Tail(s)[i - 1] = s[i]
<1>1. /\ Len(s) \in Nat /\ Len(s) >= 1 /\ DOMAIN s = 1..Len(s) /\ Tail(s) \in Seq(T) /\ Len(Tail(s)) = Len(s) - 1
      /\ DOMAIN Tail(s) = 1..(Len(s) - 1) /\ Head(s) = s[1]
  OBVIOUS
<1>2. \A i \in 1..(Len(s) - 1) : Tail(s)[i] = s[i + 1] OBVIOUS
<1>3. 1 \in DOMAIN s /\ Head(s) \in T BY <1>1
<1>4. ASSUME NEW i \in DOMAIN Tail(s) PROVE i \in Nat /\ i + 1 \in DOMAIN s /\ Tail(s)[i] = s[i + 1]
  <2>1. i \in Nat /\ i + 1 \in DOMAIN s BY ONLY <1>1, i \in DOMAIN Tail(s)
  <2> QED BY ONLY <1>1, <1>2, <2>1, i \in DOMAIN Tail(s)
<1>5. ASSUME NEW i \in DOMAIN s, i # 1 PROVE i - 1 \in DOMAIN Tail(s) /\ Tail(s)[i - 1] = s[i]
  <2>1. i - 1 \in 1..(Len(s) - 1) /\ (i - 1) + 1 = i BY ONLY <1>1, <1>5, i \in DOMAIN s
  <2> QED BY ONLY <1>1, <1>2, <2>1
<1> QED BY ONLY <1>1, <1>3, <1>4, <1>5

LEMMA ContainsTail ==
    ASSUME NEW T, NEW s \in Seq(T), s # <<>>, NEW y
    PROVE  Contains(s, y) <=> y = Head(s) \/ Contains(Tail(s), y)
<1>1. /\ Tail(s) \in Seq(T) /\ Head(s) = s[1] /\ 1 \in DOMAIN s
      /\ \A i \in DOMAIN Tail(s) : i + 1 \in DOMAIN s /\ Tail(s)[i] = s[i + 1]
      /\ \A i \in DOMAIN s : i # 1 => i - 1 \in DOMAIN Tail(s) /\ Tail(s)[i - 1] = s[i]
  BY TailIs
<1>2. DOMAIN s = 1..Len(s) /\ DOMAIN Tail(s) = 1..Len(Tail(s)) BY <1>1
<1>3. ASSUME NEW i \in DOMAIN s, s[i] = y PROVE y = Head(s) \/ \E j \in DOMAIN Tail(s) : Tail(s)[j] = y
  <2>1. CASE i = 1 BY <1>1, <1>3, <2>1
  <2>2. CASE i # 1 BY <1>1, <1>3, <2>2
  <2> QED BY <2>1, <2>2
<1>4. ASSUME NEW i \in DOMAIN Tail(s), Tail(s)[i] = y PROVE \E j \in DOMAIN s : s[j] = y
  BY <1>1, <1>4
<1>5. y = Head(s) => \E j \in DOMAIN s : s[j] = y BY ONLY <1>1
<1> QED BY ONLY <1>2, <1>3, <1>4, <1>5 DEF Contains

LEMMA KnownContains ==
    ASSUME NEW w, NEW S, NEW p \in Seq(Nat), KnownTo(p, w, S), NEW n, Contains(p, n)
    PROVE  n \in 1..Len(w) /\ w[n] \in S
  BY DEF Contains, KnownTo

LEMMA LinesContain ==
    ASSUME NEW w, NEW r \in Seq(Pages \X Nat), LinesKnown(r, w), NEW c, NEW n, Contains(r, <<c, n>>)
    PROVE  n \in 1..Len(w) /\ w[n] = "log" /\ \E i \in DOMAIN r : r[i][1] = c /\ r[i][2] = n
<1>1. PICK i \in DOMAIN r : r[i] = <<c, n>> BY DEF Contains
<1>2. r[i][1] = c /\ r[i][2] = n BY <1>1
<1> QED BY <1>2 DEF LinesKnown

(* What a connection has stays as it is when the history grows. *)
StillKnown(v) ==
    /\ \A c \in Sockets : /\ KnownTo(put[c], v, Watches(c)) /\ GivenTo(put[c], v, doubled[c])
                          /\ LinesAfter(put[c], ready, c, v, doubled[c])
    /\ LinesKnown(ready, v)

(* Whoever writes: what was given stays in order and is older. *)
LEMMA HistoryGrows ==
    ASSUME StreamsInv, NEW k \in ListKinds, written < MaxEntries, wrote' = Append(wrote, k)
    PROVE  /\ Written(k) /\ wrote' \in Seq(ListKinds) /\ Len(wrote') <= MaxEntries
           /\ written + 1 \in 1..Len(wrote') /\ StillKnown(wrote')
           /\ \A c \in Sockets : \A i \in DOMAIN put[c] : put[c][i] < written + 1
           /\ \A i \in DOMAIN ready : ready[i][2] < written + 1
<1>1. StreamsTyped /\ KnownInv /\ OrderInv BY DEF StreamsInv
<1>2. Written(k) BY <1>1, WrittenIs
<1>3. /\ wrote \in Seq(ListKinds) /\ wrote' \in Seq(ListKinds) /\ GrownInto(wrote, wrote') /\ Len(wrote') <= MaxEntries
      /\ written \in Nat /\ written = Len(wrote) /\ Len(wrote') = written + 1
  BY <1>1, <1>2, StreamsAssumption DEF Written, StreamsTyped, GrownInto, written
<1>4. LinesKnown(ready, wrote') BY <1>1, <1>3, LinesKnownStays DEF KnownInv
<1>5. ASSUME NEW c \in Sockets
      PROVE  /\ KnownTo(put[c], wrote', Watches(c)) /\ GivenTo(put[c], wrote', doubled[c])
             /\ LinesAfter(put[c], ready, c, wrote', doubled[c])
  <2>1. /\ KnownTo(put[c], wrote, Watches(c)) /\ put[c] \in Seq(Nat) /\ GivenTo(put[c], wrote, doubled[c])
        /\ LinesAfter(put[c], ready, c, wrote, doubled[c])
    BY <1>1 DEF KnownInv, StreamsTyped, OrderInv
  <2>2. KnownTo(put[c], wrote', Watches(c)) BY ONLY <1>3, <2>1, KnownStays
  <2>3. GivenTo(put[c], wrote', doubled[c]) BY ONLY <1>3, <2>1, GivenStays
  <2>4. LinesAfter(put[c], ready, c, wrote', doubled[c]) BY ONLY <1>3, <2>1, AfterStays
  <2> QED BY <2>2, <2>3, <2>4
<1>6. \A c \in Sockets : \A i \in DOMAIN put[c] : put[c][i] < written + 1
  BY <1>1, <1>3 DEF KnownInv, KnownTo
<1>7. \A i \in DOMAIN ready : ready[i][2] < written + 1 BY <1>1, <1>3 DEF KnownInv, LinesKnown
<1> QED BY <1>2, <1>3, <1>4, <1>5, <1>6, <1>7 DEF StillKnown

(* One lemma per action. *)
LEMMA LoopWritesSafe ==
    ASSUME StreamsInv, NEW k \in ListKinds, LoopWrites(k)
    PROVE  StreamsInv'
<1> DEFINE n == written + 1
<1>1. /\ k # "log" /\ written < MaxEntries /\ wrote' = Append(wrote, k) /\ Puts(Observers(k), n)
      /\ UNCHANGED <<observing, emitting, page, fresh, ready, sending, doubled>>
      /\ IF k = "value" THEN UNCHANGED ring ELSE Kept(k, n)
  BY DEF LoopWrites
<1>2. StreamsTyped /\ KnownInv /\ EmitInv /\ DoubledInv /\ PagesInv /\ OrderInv /\ QueuesInv /\ NothingSkipped /\ RingsKeepTheNewest
  BY DEF StreamsInv
<1>3. /\ Written(k) /\ wrote' \in Seq(ListKinds) /\ Len(wrote') <= MaxEntries /\ n \in 1..Len(wrote') /\ StillKnown(wrote')
      /\ \A c \in Sockets : \A i \in DOMAIN put[c] : put[c][i] < n
      /\ \A i \in DOMAIN ready : ready[i][2] < n
  BY <1>1, HistoryGrows
<1>4. written \in Nat /\ n \in Nat /\ wrote'[n] = k /\ Len(wrote') = n /\ \A m \in 1..written : wrote'[m] = wrote[m]
  BY <1>3 DEF Written
<1>5. /\ outbox' \in [Sockets -> Seq(Nat)] /\ put' \in [Sockets -> Seq(Nat)] /\ QueuesInv'
      /\ \A c \in Sockets : put'[c] = IF c \in observing[k] THEN Append(put[c], n) ELSE put[c]
      /\ \A c \in Sockets : c \notin observing[k] => outbox'[c] = outbox[c]
  BY <1>1, <1>2, <1>4, PutsAre DEF Observers
<1> HIDE DEF n
<1>6. RingsKeepTheNewest' /\ ring' \in [ListKinds -> Seq(Nat)]
  <2>1. CASE k = "value" BY <1>1, <1>2, <2>1, RingsStand DEF StreamsTyped
  <2>2. CASE k # "value"
    <3>1. k \in {"command", "log"} BY <2>2 DEF ListKinds
    <3> QED BY <1>1, <1>2, <2>2, <3>1, RingsGrow DEF n
  <2> QED BY <2>1, <2>2
<1>7. StreamsTyped' BY <1>1, <1>2, <1>3, <1>5, <1>6 DEF StreamsTyped
<1>8. ASSUME NEW c \in Sockets
      PROVE  KnownTo(put'[c], wrote', Watches(c)) /\ GivenTo(put'[c], wrote', doubled[c])
             /\ LinesAfter(put'[c], ready, c, wrote', doubled[c])
  <2>1. /\ put[c] \in Seq(Nat) /\ KnownTo(put[c], wrote', Watches(c)) /\ GivenTo(put[c], wrote', doubled[c])
        /\ LinesAfter(put[c], ready, c, wrote', doubled[c])
    BY <1>2, <1>3 DEF StillKnown, StreamsTyped
  <2>2. CASE c \in observing[k]
    <3>1. k \in Watches(c) BY <1>2, <2>2 DEF PagesInv
    <3>2. put'[c] = Append(put[c], n) /\ wrote'[n] \in Watches(c) /\ wrote'[n] # "log"
      BY <1>1, <1>4, <1>5, <2>2, <3>1
    <3>3. \A i \in DOMAIN put[c] : put[c][i] < n BY <1>3
    <3>4. KnownTo(Append(put[c], n), wrote', Watches(c)) /\ GivenTo(Append(put[c], n), wrote', doubled[c])
      BY ONLY <1>3, <2>1, <3>2, <3>3, GivenOne
    <3>5. LinesAfter(Append(put[c], n), ready, c, wrote', doubled[c])
      BY ONLY <1>3, <1>4, <2>1, <3>2, AfterOne
    <3> QED BY <3>2, <3>4, <3>5
  <2>3. CASE c \notin observing[k] BY <1>5, <2>1, <2>3
  <2> QED BY <2>2, <2>3
<1>9. KnownInv' BY <1>1, <1>2, <1>3, <1>4, <1>8 DEF KnownInv, StillKnown, written
<1>10. EmitInv' BY <1>1, <1>2, <1>3, <1>4 DEF EmitInv, Silent, written, n
<1>11. OrderInv' BY <1>1, <1>2, <1>8 DEF OrderInv
<1>12. \A c \in Sockets : \A m : Contains(put'[c], m) <=> Contains(put[c], m) \/ (m = n /\ c \in observing[k])
  <2> TAKE c \in Sockets
  <2> TAKE m
  <2>1. put[c] \in Seq(Nat) /\ n \in Nat BY <1>2, <1>4 DEF StreamsTyped
  <2>2. Contains(Append(put[c], n), m) <=> Contains(put[c], m) \/ m = n
    BY ONLY <2>1, ContainsAppend
  <2>3. CASE c \in observing[k] BY <1>5, <2>2, <2>3
  <2>4. CASE c \notin observing[k] BY <1>5, <2>4
  <2> QED BY <2>3, <2>4
<1>13. DoubledInv'
  <2> SUFFICES ASSUME NEW c \in Pages, c \in emitting.left \/ (emitting.at = "kept" /\ c \in observing["log"]),
                      Has(c, emitting.line)'
               PROVE  doubled[c] = emitting.line
    BY <1>1 DEF DoubledInv
  <2>1. emitting.line # n BY <1>2, <1>4 DEF EmitInv, Silent, n, written
  <2>2. Has(c, emitting.line) BY <1>1, <1>12, <2>1 DEF Has, Sockets
  <2> QED BY <1>2, <2>2 DEF DoubledInv
<1>14. PagesInv'
  <2>1. \A c \in Sockets : page[c] = "closed" => put'[c] = <<>> /\ outbox'[c] = <<>>
    BY <1>2, <1>5 DEF PagesInv
  <2> QED BY <1>1, <1>2, <2>1 DEF PagesInv
<1>15. NothingSkipped'
  <2> SUFFICES ASSUME NEW c \in Sockets, page[c] = "open", NEW m \in fresh[c]..written', wrote'[m] \in Watches(c)
               PROVE  \/ Contains(put'[c], m) \/ Contains(ready, <<c, m>>)
                      \/ emitting.line = m /\ (emitting.at = "kept" \/ c \in emitting.left)
    BY <1>1 DEF NothingSkipped
  <2>0. fresh[c] \in Nat /\ fresh[c] >= 1 /\ written' = n /\ written + 1 = n
    BY <1>2, <1>4 DEF StreamsTyped, KnownInv, written, n
  <2>1. CASE m = n
    <3>1. c \in observing[k] BY <1>2, <1>4, <2>1 DEF PagesInv
    <3> QED BY <1>12, <2>1, <3>1
  <2>2. CASE m # n
    <3>1. m \in fresh[c]..written /\ m \in 1..written
      BY ONLY <1>4, <2>0, <2>2, m \in fresh[c]..written'
    <3>2. wrote[m] \in Watches(c) BY <1>4, <3>1
    <3> QED BY <1>2, <1>12, <3>1, <3>2 DEF NothingSkipped
  <2> QED BY <2>1, <2>2
<1> QED BY <1>5, <1>6, <1>7, <1>9, <1>10, <1>11, <1>13, <1>14, <1>15 DEF StreamsInv

LEMMA ThreadLogsSafe ==
    ASSUME StreamsInv, ThreadLogs
    PROVE  StreamsInv'
<1> DEFINE n == written + 1
<1>1. /\ emitting = Silent /\ written < MaxEntries /\ wrote' = Append(wrote, "log") /\ Kept("log", n)
      /\ emitting' = [line |-> n, at |-> "kept", left |-> {}]
      /\ UNCHANGED <<observing, page, fresh, ready, awake, outbox, sending, put, doubled>>
  BY DEF ThreadLogs
<1>2. StreamsTyped /\ KnownInv /\ EmitInv /\ DoubledInv /\ PagesInv /\ OrderInv /\ QueuesInv /\ NothingSkipped /\ RingsKeepTheNewest
  BY DEF StreamsInv
<1>0. "log" \in ListKinds BY DEF ListKinds
<1>3. /\ Written("log") /\ wrote' \in Seq(ListKinds) /\ Len(wrote') <= MaxEntries /\ n \in 1..Len(wrote') /\ StillKnown(wrote')
      /\ \A c \in Sockets : \A i \in DOMAIN put[c] : put[c][i] < n
      /\ \A i \in DOMAIN ready : ready[i][2] < n
  BY <1>0, <1>1, HistoryGrows
<1>4. written \in Nat /\ n \in Nat /\ wrote'[n] = "log" /\ Len(wrote') = n /\ \A m \in 1..written : wrote'[m] = wrote[m]
  BY <1>3 DEF Written
<1>5. RingsKeepTheNewest' /\ ring' \in [ListKinds -> Seq(Nat)] BY <1>1, <1>2, RingsGrow
<1>6. written' = n /\ written + 1 = n BY <1>4 DEF written
<1> HIDE DEF n
<1>7. StreamsTyped'
  <2>1. emitting' \in EmitType BY <1>1, <1>4 DEF EmitType
  <2> QED BY <1>1, <1>2, <1>3, <1>5, <2>1 DEF StreamsTyped
<1>8. KnownInv' BY <1>1, <1>2, <1>3, <1>4, <1>6 DEF KnownInv, StillKnown
<1>9. EmitInv'
  <2>1. \A m \in 1..written' : m <= n BY <1>4, <1>6
  <2> QED BY <1>1, <1>3, <1>4, <1>6, <2>1 DEF EmitInv, written
<1>10. DoubledInv'
  <2> SUFFICES ASSUME NEW c \in Pages PROVE ~Contains(put[c], n) /\ ~Contains(ready, <<c, n>>)
    BY <1>1 DEF DoubledInv, Has
  <2>0. c \in Sockets BY DEF Sockets
  <2>1. ~Contains(put[c], n)
    <3>1. put[c] \in Seq(Nat) /\ KnownTo(put[c], wrote, Watches(c)) /\ ~(n \in 1..Len(wrote))
      BY <1>2, <1>4, <1>6, <2>0 DEF StreamsTyped, KnownInv, written
    <3> QED BY ONLY <3>1, KnownContains
  <2>2. ~Contains(ready, <<c, n>>)
    <3>1. ready \in Seq(Pages \X Nat) /\ LinesKnown(ready, wrote) /\ ~(n \in 1..Len(wrote))
      BY <1>2, <1>4, <1>6 DEF StreamsTyped, KnownInv, written
    <3> QED BY ONLY <3>1, LinesContain
  <2> QED BY <2>1, <2>2
<1>11. PagesInv' BY <1>1, <1>2 DEF PagesInv
<1>12. OrderInv' BY <1>1, <1>2, <1>3 DEF OrderInv, StillKnown
<1>13. QueuesInv' BY <1>1, <1>2 DEF QueuesInv
<1>14. NothingSkipped'
  <2> SUFFICES ASSUME NEW c \in Sockets, page[c] = "open", NEW m \in fresh[c]..n, m # n, wrote'[m] \in Watches(c)
               PROVE  Contains(put[c], m) \/ Contains(ready, <<c, m>>)
    BY <1>1, <1>6 DEF NothingSkipped
  <2>1. m \in fresh[c]..written /\ m \in 1..written BY <1>2, <1>4, <1>6 DEF StreamsTyped, KnownInv
  <2>2. wrote[m] \in Watches(c) /\ emitting.line # m BY <1>1, <1>4, <2>1 DEF Silent
  <2> QED BY <1>2, <2>1, <2>2 DEF NothingSkipped
<1> QED BY <1>5, <1>7, <1>8, <1>9, <1>10, <1>11, <1>12, <1>13, <1>14 DEF StreamsInv

LEMMA ThreadCopiesSafe ==
    ASSUME StreamsInv, ThreadCopies
    PROVE  StreamsInv'
<1>1. /\ emitting.at = "kept"
      /\ emitting' = IF observing["log"] = {} THEN Silent
                     ELSE [emitting EXCEPT !.at = "calling", !.left = observing["log"]]
      /\ UNCHANGED <<wrote, observing, ring, page, fresh, ready, awake, outbox, sending, put, doubled>>
  BY DEF ThreadCopies, Observers
<1>2. StreamsTyped /\ KnownInv /\ EmitInv /\ DoubledInv /\ PagesInv /\ OrderInv /\ QueuesInv /\ NothingSkipped /\ RingsKeepTheNewest
  BY DEF StreamsInv
<1>3. emitting \in EmitType /\ observing["log"] \subseteq Sockets /\ "log" \in ListKinds
  BY <1>2 DEF StreamsTyped, ListKinds
<1>4. /\ emitting'.left = observing["log"]
      /\ emitting'.at = "idle" => emitting' = Silent
      /\ emitting'.at # "kept"
      /\ emitting'.at # "idle" => emitting'.line = emitting.line
      /\ observing["log"] # {} => emitting'.line = emitting.line
      /\ emitting' \in EmitType
  <2>1. CASE observing["log"] = {} BY <1>1, <2>1 DEF Silent, EmitType
  <2>2. CASE observing["log"] # {}
    <3>1. emitting' = [emitting EXCEPT !.at = "calling", !.left = observing["log"]] BY <1>1, <2>2
    <3> QED BY ONLY <1>3, <3>1 DEF EmitType
  <2> QED BY <2>1, <2>2
<1>5. \A c \in Sockets : c \in observing["log"] <=> c \in Pages /\ page[c] \in {"open", "leaving"}
  <2>1. \A c \in Sockets : "log" \in Watches(c) <=> c \in Pages BY DEF Watches
  <2> QED BY <1>2, <1>3, <2>1 DEF PagesInv
<1>6. StreamsTyped' BY <1>1, <1>2, <1>4 DEF StreamsTyped
<1>7. KnownInv' BY <1>1, <1>2 DEF KnownInv, written
<1>8. EmitInv'
  <2>1. observing["log"] \subseteq Pages BY <1>3, <1>5
  <2> QED BY <1>1, <1>2, <1>4, <2>1 DEF EmitInv, written
<1>9. DoubledInv'
  <2> SUFFICES ASSUME NEW c \in Pages, c \in observing["log"], Has(c, emitting'.line) PROVE doubled[c] = emitting'.line
    BY <1>1, <1>4 DEF DoubledInv, Has
  <2>1. emitting'.line = emitting.line BY <1>4
  <2> QED BY <1>1, <1>2, <2>1 DEF DoubledInv
<1>10. PagesInv' BY <1>1, <1>2, <1>4, <1>5 DEF PagesInv
<1>11. OrderInv' /\ QueuesInv' /\ RingsKeepTheNewest'
  BY <1>1, <1>2 DEF OrderInv, QueuesInv, RingsKeepTheNewest, written
<1>12. NothingSkipped'
  <2> SUFFICES ASSUME NEW c \in Sockets, page[c] = "open", NEW m \in fresh[c]..written, wrote[m] \in Watches(c),
                      ~Contains(put[c], m), ~Contains(ready, <<c, m>>)
               PROVE  emitting'.line = m /\ c \in emitting'.left
    BY <1>1 DEF NothingSkipped, written
  <2>1. emitting.line = m BY <1>2 DEF NothingSkipped
  <2>2. wrote[m] = "log" BY <1>1, <1>2, <2>1 DEF EmitInv
  <2>3. c \in Pages BY <2>2 DEF Watches
  <2>4. c \in observing["log"] BY <1>5, <2>3
  <2> QED BY <1>4, <2>1, <2>4
<1> QED BY <1>6, <1>7, <1>8, <1>9, <1>10, <1>11, <1>12 DEF StreamsInv

LEMMA ThreadCallsSafe ==
    ASSUME StreamsInv, NEW c \in Sockets, ThreadCalls(c)
    PROVE  StreamsInv'
<1> DEFINE line == emitting.line
           l == <<<<c, line>>>>
<1>1. /\ emitting.at = "calling" /\ c \in emitting.left
      /\ emitting' = IF emitting.left = {c} THEN Silent ELSE [emitting EXCEPT !.left = emitting.left \ {c}]
      /\ ready' = Append(ready, <<c, line>>)
      /\ UNCHANGED <<outbox, put, wrote, observing, ring, page, fresh, sending, doubled>>
  BY DEF ThreadCalls, Hands
<1>2. StreamsTyped /\ KnownInv /\ EmitInv /\ DoubledInv /\ PagesInv /\ OrderInv /\ QueuesInv /\ NothingSkipped /\ RingsKeepTheNewest
  BY DEF StreamsInv
<1>3. /\ emitting \in EmitType /\ c \in Pages /\ line \in Nat /\ line \in 1..written /\ wrote[line] = "log"
      /\ \A n \in 1..written : wrote[n] = "log" => n <= line
  BY <1>1, <1>2 DEF EmitInv, EmitType, StreamsTyped
<1> HIDE DEF line
<1>4. /\ ready \in Seq(Pages \X Nat) /\ <<c, line>> \in Pages \X Nat /\ ready' = ready \o l /\ l \in Seq(Pages \X Nat)
      /\ DOMAIN l = {1} /\ l[1] = <<c, line>> /\ ready' \in Seq(Pages \X Nat)
  <2> DEFINE x == <<c, line>>
  <2>1. ready \in Seq(Pages \X Nat) /\ x \in Pages \X Nat BY <1>2, <1>3 DEF StreamsTyped
  <2> HIDE DEF x
  <2>3. Append(ready, x) = ready \o <<x>> /\ <<x>> \in Seq(Pages \X Nat) /\ DOMAIN <<x>> = {1} /\ <<x>>[1] = x
    BY ONLY <2>1, AppendJoins
  <2>2. Append(ready, <<c, line>>) = ready \o l /\ l \in Seq(Pages \X Nat) /\ DOMAIN l = {1} /\ l[1] = <<c, line>>
    BY ONLY <2>3 DEF x
  <2> USE DEF x
  <2> QED BY <1>1, <2>1, <2>2
<1>5. /\ emitting'.left = emitting.left \ {c}
      /\ emitting'.at = "idle" => emitting' = Silent
      /\ emitting'.at # "kept"
      /\ emitting'.at # "idle" => emitting'.line = line
      /\ emitting'.left # {} => emitting'.line = line
      /\ emitting' \in EmitType
  <2>1. CASE emitting.left = {c} BY <1>1, <2>1 DEF Silent, EmitType
  <2>2. CASE emitting.left # {c}
    <3>1. emitting' = [emitting EXCEPT !.left = emitting.left \ {c}] BY <1>1, <2>2
    <3> QED BY ONLY <1>1, <1>3, <2>2, <3>1 DEF EmitType, line
  <2> QED BY <2>1, <2>2
<1>6. \A d, m : Contains(ready', <<d, m>>) <=> Contains(ready, <<d, m>>) \/ (d = c /\ m = line)
  <2> TAKE d, m
  <2> DEFINE x == <<c, line>>
             y == <<d, m>>
  <2>1. ready \in Seq(Pages \X Nat) /\ x \in Pages \X Nat BY ONLY <1>4
  <2> HIDE DEF x, y
  <2>2. Contains(Append(ready, x), y) <=> Contains(ready, y) \/ y = x BY ONLY <2>1, ContainsAppend
  <2> QED BY <1>1, <2>2 DEF x, y, line
<1>7. StreamsTyped' BY <1>1, <1>2, <1>4, <1>5 DEF StreamsTyped
<1>8. LinesKnown(l, wrote) /\ LinesInOrder(l, doubled) /\ c \in Sockets
  BY <1>3, <1>4 DEF LinesKnown, LinesInOrder, written
<1>9. Has(c, line) => doubled[c] = line BY <1>1, <1>2, <1>3 DEF DoubledInv, line
<1>10. ASSUME NEW d \in Sockets PROVE LinesAfter(put[d], l, d, wrote, doubled[d])
  <2> SUFFICES ASSUME c = d, NEW i \in DOMAIN put[d], wrote[put[d][i]] = "log"
               PROVE  put[d][i] < line \/ (put[d][i] = line /\ put[d][i] = doubled[d])
    BY <1>4 DEF LinesAfter
  <2>1. put[d] \in Seq(Nat) /\ put[d][i] \in 1..written /\ written \in Nat
    BY <1>2 DEF StreamsTyped, KnownInv, KnownTo, written
  <2>2. put[d][i] <= line BY <1>3, <2>1
  <2>3. CASE put[d][i] = line
    <3>1. Contains(put[d], line) BY <2>1, <2>3 DEF Contains
    <3> QED BY <1>9, <2>3, <3>1 DEF Has
  <2>4. CASE put[d][i] # line BY ONLY <1>3, <2>1, <2>2, <2>4
  <2> QED BY <2>3, <2>4
<1>11. ASSUME NEW i \in DOMAIN ready, ready[i][1] = c
       PROVE  ready[i][2] < line \/ (ready[i][2] = line /\ ready[i][2] = doubled[c])
  <2>1. ready[i] \in Pages \X Nat /\ ready[i][2] \in 1..written /\ wrote[ready[i][2]] = "log" /\ written \in Nat
    BY <1>2, <1>4 DEF StreamsTyped, KnownInv, LinesKnown, written
  <2>2. ready[i][2] <= line BY <1>3, <2>1
  <2>3. CASE ready[i][2] = line
    <3>1. ready[i] = <<c, line>> BY <1>11, <2>1, <2>3
    <3>2. DOMAIN ready = 1..Len(ready) BY ONLY <1>4
    <3>3. Contains(ready, <<c, line>>) BY ONLY <3>1, <3>2, i \in DOMAIN ready DEF Contains
    <3> QED BY <1>9, <2>3, <3>3 DEF Has
  <2>4. CASE ready[i][2] # line BY ONLY <1>3, <2>1, <2>2, <2>4
  <2> QED BY <2>3, <2>4
<1> HIDE DEF line, l
<1>12. LinesKnown(ready', wrote) /\ LinesInOrder(ready', doubled)
  <2>1. /\ wrote \in Seq(ListKinds) /\ LinesKnown(ready, wrote) /\ LinesInOrder(ready, doubled)
        /\ \A i \in DOMAIN ready, m \in DOMAIN l : ready[i][1] = l[m][1] =>
             ready[i][2] < l[m][2] \/ (ready[i][2] = l[m][2] /\ ready[i][2] = doubled[ready[i][1]])
    BY <1>2, <1>4, <1>11 DEF StreamsTyped, KnownInv, OrderInv
  <2> QED BY ONLY <1>4, <1>8, <2>1, LinesMore
<1>13. KnownInv' BY <1>1, <1>2, <1>12 DEF KnownInv, written
<1>14. EmitInv' BY <1>1, <1>2, <1>3, <1>5 DEF EmitInv, written, line
<1>15. OrderInv'
  <2>1. \A d \in Sockets : LinesAfter(put[d], ready \o l, d, wrote, doubled[d])
    <3> TAKE d \in Sockets
    <3>1. LinesAfter(put[d], ready, d, wrote, doubled[d]) /\ LinesAfter(put[d], l, d, wrote, doubled[d])
      BY <1>2, <1>10 DEF OrderInv
    <3> QED BY ONLY <1>4, <3>1, AfterMore
  <2> QED BY <1>1, <1>2, <1>4, <1>12, <2>1 DEF OrderInv
<1>16. DoubledInv'
  <2> SUFFICES ASSUME NEW d \in Pages, d \in emitting.left, d # c, Contains(put[d], line) \/ Contains(ready', <<d, line>>)
               PROVE  doubled[d] = line
    BY <1>1, <1>5 DEF DoubledInv, Has
  <2>1. Has(d, line) BY <1>1, <1>6 DEF Has, line
  <2> QED BY <1>2, <2>1 DEF DoubledInv, line
<1>17. PagesInv'
  <2>1. \A d \in Sockets : page[d] = "closed" => \A i \in DOMAIN ready' : ready'[i][1] # d
    <3> SUFFICES ASSUME NEW d \in Sockets, page[d] = "closed", NEW i \in DOMAIN ready', ready'[i][1] = d PROVE FALSE
      OBVIOUS
    <3>1. d # c /\ \A j \in DOMAIN ready : ready[j][1] # d BY <1>1, <1>2 DEF PagesInv
    <3>2. Joined(ready', ready, l) BY ONLY <1>4, JoinIs
    <3> QED BY <1>4, <3>1, <3>2 DEF Joined
  <2> QED BY <1>1, <1>2, <1>5, <2>1 DEF PagesInv
<1>18. QueuesInv' /\ RingsKeepTheNewest' BY <1>1, <1>2 DEF QueuesInv, RingsKeepTheNewest, written
<1>19. NothingSkipped'
  <2> SUFFICES ASSUME NEW d \in Sockets, page[d] = "open", NEW m \in fresh[d]..written, wrote[m] \in Watches(d),
                      ~Contains(put[d], m), ~Contains(ready', <<d, m>>)
               PROVE  emitting'.line = m /\ d \in emitting'.left
    BY <1>1 DEF NothingSkipped, written
  <2>1. ~Contains(ready, <<d, m>>) /\ ~(d = c /\ m = line) BY <1>6
  <2>2. line = m /\ d \in emitting.left BY <1>1, <1>2, <2>1 DEF NothingSkipped, line
  <2> QED BY <1>5, <2>1, <2>2
<1> QED BY <1>7, <1>13, <1>14, <1>15, <1>16, <1>17, <1>18, <1>19 DEF StreamsInv

LEMMA LoopLogsSafe ==
    ASSUME StreamsInv, LoopLogs
    PROVE  StreamsInv'
<1> DEFINE n == written + 1
           S == {<<c, n>> : c \in observing["log"]}
           l == SetToSeq(S)
<1>1. /\ emitting = Silent /\ written < MaxEntries /\ wrote' = Append(wrote, "log") /\ Kept("log", n)
      /\ ready' = ready \o l
      /\ UNCHANGED <<observing, emitting, page, fresh, outbox, sending, put, doubled>>
  BY DEF LoopLogs, Observers
<1>2. StreamsTyped /\ KnownInv /\ EmitInv /\ DoubledInv /\ PagesInv /\ OrderInv /\ QueuesInv /\ NothingSkipped /\ RingsKeepTheNewest
  BY DEF StreamsInv
<1>0. "log" \in ListKinds BY DEF ListKinds
<1>3. /\ Written("log") /\ wrote' \in Seq(ListKinds) /\ Len(wrote') <= MaxEntries /\ n \in 1..Len(wrote') /\ StillKnown(wrote')
      /\ \A c \in Sockets : \A i \in DOMAIN put[c] : put[c][i] < n
      /\ \A i \in DOMAIN ready : ready[i][2] < n
  BY <1>0, <1>1, HistoryGrows
<1>4. written \in Nat /\ n \in Nat /\ wrote'[n] = "log" /\ Len(wrote') = n /\ \A m \in 1..written : wrote'[m] = wrote[m]
  BY <1>3 DEF Written
<1>5. RingsKeepTheNewest' /\ ring' \in [ListKinds -> Seq(Nat)] BY <1>1, <1>2, RingsGrow
<1>6. written' = n /\ written + 1 = n BY <1>4 DEF written
<1> HIDE DEF n
<1>7. observing["log"] \subseteq Pages /\ \A c \in Pages : page[c] = "open" => c \in observing["log"]
  <2>1. \A c \in Sockets : "log" \in Watches(c) <=> c \in Pages BY DEF Watches
  <2> QED BY <1>0, <1>2, <2>1 DEF PagesInv, StreamsTyped, Sockets
<1>8. S \subseteq Pages \X Nat /\ IsFiniteSet(S)
  <2>1. IsFiniteSet(observing["log"])
    <3>1. observing["log"] \subseteq Pages \cup Viewers /\ IsFiniteSet(Pages \cup Viewers)
      BY <1>7, StreamsAssumption
    <3> QED BY ONLY <3>1, FS_Subset
  <2> DEFINE f == [c \in observing["log"] |-> <<c, n>>]
  <2>3. f \in Surjection(observing["log"], S) BY DEF Surjection
  <2> HIDE DEF f, S
  <2>2. IsFiniteSet(S) BY ONLY <2>1, <2>3, FS_Surjection
  <2> USE DEF S
  <2> QED BY <1>4, <1>7, <2>2
<1> HIDE DEF S
<1>9. /\ l \in Seq(S) /\ \A i, j \in DOMAIN l : l[i] = l[j] => i = j
      /\ \A x \in S : \E i \in DOMAIN l : l[i] = x
  BY <1>8, ListedOnce
<1> HIDE DEF l
<1>10. l \in Seq(Pages \X Nat) /\ DOMAIN l = 1..Len(l) /\ \A i \in DOMAIN l : l[i] \in S
  BY ONLY <1>8, <1>9
<1>11. \A i \in DOMAIN l : l[i][1] \in observing["log"] /\ l[i][2] = n /\ l[i] = <<l[i][1], n>>
  BY <1>10 DEF S
<1>12. LinesKnown(l, wrote') /\ LinesInOrder(l, doubled)
  <2>1. LinesKnown(l, wrote') BY <1>3, <1>4, <1>11 DEF LinesKnown
  <2>2. ASSUME NEW i \in DOMAIN l, NEW j \in DOMAIN l, i < j, l[i][1] = l[j][1] PROVE FALSE
    <3>1. i = j BY <1>9, <1>11, <2>2
    <3>2. i \in Nat BY <1>10
    <3> QED BY ONLY <2>2, <3>1, <3>2
  <2> QED BY <2>1, <2>2 DEF LinesInOrder
<1>13. ready \in Seq(Pages \X Nat) /\ ready' \in Seq(Pages \X Nat)
  <2>1. ready \in Seq(Pages \X Nat) BY <1>2 DEF StreamsTyped
  <2> QED BY <1>1, <1>10, <2>1
<1>14. LinesKnown(ready', wrote') /\ LinesInOrder(ready', doubled)
  <2>1. /\ LinesKnown(ready, wrote') /\ LinesInOrder(ready, doubled)
        /\ \A i \in DOMAIN ready, m \in DOMAIN l : ready[i][1] = l[m][1] =>
             ready[i][2] < l[m][2] \/ (ready[i][2] = l[m][2] /\ ready[i][2] = doubled[ready[i][1]])
    BY <1>2, <1>3, <1>11 DEF StillKnown, OrderInv
  <2>2. LinesKnown(ready \o l, wrote') /\ LinesInOrder(ready \o l, doubled)
    BY ONLY <1>3, <1>10, <1>12, <1>13, <2>1, LinesMore
  <2> QED BY <1>1, <2>2
<1>15. \A d \in Sockets : LinesAfter(put[d], ready', d, wrote', doubled[d])
  <2> TAKE d \in Sockets
  <2>1. LinesAfter(put[d], ready, d, wrote', doubled[d]) BY <1>3 DEF StillKnown
  <2>2. LinesAfter(put[d], l, d, wrote', doubled[d]) BY <1>3, <1>11 DEF LinesAfter
  <2>3. LinesAfter(put[d], ready \o l, d, wrote', doubled[d])
    BY ONLY <1>10, <1>13, <2>1, <2>2, AfterMore
  <2> QED BY <1>1, <2>3
<1>16. StreamsTyped' BY <1>1, <1>2, <1>3, <1>5, <1>13 DEF StreamsTyped
<1>17. KnownInv' BY <1>1, <1>2, <1>3, <1>4, <1>6, <1>14 DEF KnownInv, StillKnown
<1>18. EmitInv' BY <1>1 DEF EmitInv, Silent
<1>19. DoubledInv' BY <1>1 DEF DoubledInv, Silent
<1>20. PagesInv'
  <2>1. \A d \in Sockets : page[d] = "closed" => \A i \in DOMAIN ready' : ready'[i][1] # d
    <3> SUFFICES ASSUME NEW d \in Sockets, page[d] = "closed", NEW i \in DOMAIN ready', ready'[i][1] = d PROVE FALSE
      OBVIOUS
    <3>1. d \notin observing["log"] /\ \A j \in DOMAIN ready : ready[j][1] # d
      BY <1>0, <1>2 DEF PagesInv
    <3>2. Joined(ready', ready, l) BY <1>1, <1>10, <1>13, JoinIs
    <3> QED BY <1>11, <3>1, <3>2 DEF Joined
  <2> QED BY <1>1, <1>2, <2>1 DEF PagesInv
<1>21. OrderInv' BY <1>1, <1>3, <1>14, <1>15 DEF OrderInv, StillKnown
<1>22. QueuesInv' BY <1>1, <1>2 DEF QueuesInv
<1>23. NothingSkipped'
  <2> SUFFICES ASSUME NEW c \in Sockets, page[c] = "open", NEW m \in fresh[c]..n, wrote'[m] \in Watches(c)
               PROVE  Contains(put[c], m) \/ Contains(ready', <<c, m>>)
    BY <1>1, <1>6 DEF NothingSkipped
  <2>0. \A y : Contains(ready', y) <=> Contains(ready, y) \/ Contains(l, y)
    BY <1>1, <1>10, <1>13, ContainsJoin
  <2>1. CASE m = n
    <3>1. c \in Pages BY <1>4, <2>1 DEF Watches
    <3>2. <<c, m>> \in S BY <1>7, <2>1, <3>1 DEF S
    <3>3. Contains(l, <<c, m>>) BY <1>9, <1>10, <3>2 DEF Contains
    <3> QED BY <2>0, <3>3
  <2>2. CASE m # n
    <3>1. m \in fresh[c]..written /\ m \in 1..written
      BY <1>2, <1>4, <1>6, <2>2 DEF StreamsTyped, KnownInv
    <3>2. wrote[m] \in Watches(c) /\ emitting.line # m BY <1>1, <1>4, <3>1 DEF Silent
    <3> QED BY <1>2, <2>0, <3>1, <3>2 DEF NothingSkipped
  <2> QED BY <2>1, <2>2
<1> QED BY <1>5, <1>16, <1>17, <1>18, <1>19, <1>20, <1>21, <1>22, <1>23 DEF StreamsInv

LEMMA LoopCallsSafe ==
    ASSUME StreamsInv, LoopCalls
    PROVE  StreamsInv'
<1> DEFINE x == Head(ready)
           d == x[1]
           n == x[2]
<1>1. /\ ready # <<>> /\ ready' = Tail(ready) /\ Puts({d}, n)
      /\ UNCHANGED <<wrote, observing, ring, emitting, page, fresh, awake, sending, doubled>>
  BY DEF LoopCalls
<1>2. StreamsTyped /\ KnownInv /\ EmitInv /\ DoubledInv /\ PagesInv /\ OrderInv /\ QueuesInv /\ NothingSkipped /\ RingsKeepTheNewest
  BY DEF StreamsInv
<1>3. /\ ready' \in Seq(Pages \X Nat) /\ x = ready[1] /\ x \in Pages \X Nat /\ 1 \in DOMAIN ready
      /\ \A i \in DOMAIN ready' : i \in Nat /\ i + 1 \in DOMAIN ready /\ ready'[i] = ready[i + 1]
  <2>1. ready \in Seq(Pages \X Nat) BY <1>2 DEF StreamsTyped
  <2> HIDE DEF x
  <2>2. /\ Tail(ready) \in Seq(Pages \X Nat) /\ Head(ready) = ready[1] /\ Head(ready) \in Pages \X Nat /\ 1 \in DOMAIN ready
        /\ \A i \in DOMAIN Tail(ready) : i \in Nat /\ i + 1 \in DOMAIN ready /\ Tail(ready)[i] = ready[i + 1]
    BY ONLY <1>1, <2>1, TailIs
  <2> QED BY <1>1, <2>2 DEF x
<1>4. \A y : Contains(ready, y) <=> y = x \/ Contains(ready', y)
  BY <1>1, <1>2, ContainsTail DEF StreamsTyped
<1> HIDE DEF x
<1>18. ready[1][1] = d /\ ready[1][2] = n BY ONLY <1>3
<1>5. d \in Pages /\ d \in Sockets /\ n \in Nat /\ x = <<d, n>> /\ n \in 1..Len(wrote) /\ wrote[n] = "log" /\ wrote[n] \in Watches(d)
  BY <1>2, <1>3 DEF KnownInv, LinesKnown, Watches, Sockets
<1> HIDE DEF d, n
<1>6. /\ outbox' \in [Sockets -> Seq(Nat)] /\ put' \in [Sockets -> Seq(Nat)] /\ QueuesInv'
      /\ \A c \in Sockets : put'[c] = IF c \in {d} THEN Append(put[c], n) ELSE put[c]
      /\ \A c \in Sockets : c \notin {d} => outbox'[c] = outbox[c]
  BY <1>1, <1>2, <1>5, PutsAre
<1>7. StreamsTyped' BY <1>1, <1>2, <1>3, <1>6 DEF StreamsTyped
<1>8. LinesKnown(ready', wrote) /\ LinesInOrder(ready', doubled)
  <2>1. LinesKnown(ready', wrote) BY <1>2, <1>3 DEF KnownInv, LinesKnown
  <2>2. ASSUME NEW i \in DOMAIN ready', NEW j \in DOMAIN ready', i < j, ready'[i][1] = ready'[j][1]
        PROVE  ready'[i][2] < ready'[j][2] \/ (ready'[i][2] = ready'[j][2] /\ ready'[i][2] = doubled[ready'[i][1]])
    <3>1. i + 1 \in DOMAIN ready /\ j + 1 \in DOMAIN ready /\ ready'[i] = ready[i + 1] /\ ready'[j] = ready[j + 1]
      BY <1>3
    <3>2. i + 1 < j + 1 BY ONLY <1>3, <2>2, i \in DOMAIN ready', j \in DOMAIN ready'
    <3>3. LinesInOrder(ready, doubled) BY <1>2 DEF OrderInv
    <3>4. \A a, b \in DOMAIN ready : a < b /\ ready[a][1] = ready[b][1] =>
             ready[a][2] < ready[b][2] \/ (ready[a][2] = ready[b][2] /\ ready[a][2] = doubled[ready[a][1]])
      BY ONLY <3>3 DEF LinesInOrder
    <3> QED BY ONLY <2>2, <3>1, <3>2, <3>4
  <2> QED BY <2>1, <2>2 DEF LinesInOrder
<1>9. ASSUME NEW c \in Sockets
      PROVE  KnownTo(put'[c], wrote, Watches(c)) /\ GivenTo(put'[c], wrote, doubled[c])
             /\ LinesAfter(put'[c], ready', c, wrote, doubled[c])
  <2>1. /\ put[c] \in Seq(Nat) /\ KnownTo(put[c], wrote, Watches(c)) /\ GivenTo(put[c], wrote, doubled[c])
        /\ LinesAfter(put[c], ready, c, wrote, doubled[c]) /\ wrote \in Seq(ListKinds)
    BY <1>2 DEF StreamsTyped, KnownInv, OrderInv
  <2>0. \A i \in DOMAIN put[c], j \in DOMAIN ready : ready[j][1] = c /\ wrote[put[c][i]] = "log" =>
           put[c][i] < ready[j][2] \/ (put[c][i] = ready[j][2] /\ put[c][i] = doubled[c])
    BY ONLY <2>1 DEF LinesAfter
  <2>2. LinesAfter(put[c], ready', c, wrote, doubled[c])
    <3> SUFFICES ASSUME NEW i \in DOMAIN put[c], NEW j \in DOMAIN ready', ready'[j][1] = c, wrote[put[c][i]] = "log"
                 PROVE  put[c][i] < ready'[j][2] \/ (put[c][i] = ready'[j][2] /\ put[c][i] = doubled[c])
      BY DEF LinesAfter
    <3>1. j + 1 \in DOMAIN ready /\ ready'[j] = ready[j + 1] BY <1>3
    <3>2. put[c][i] < ready[j + 1][2] \/ (put[c][i] = ready[j + 1][2] /\ put[c][i] = doubled[c])
      BY <2>0, <3>1
    <3> QED BY <3>1, <3>2
  <2>3. CASE c = d
    <3>1. put'[c] = Append(put[c], n) BY <1>6, <2>3
    <3>2. \A i \in DOMAIN put[c] : wrote[put[c][i]] = wrote[n] => put[c][i] < n \/ (put[c][i] = n /\ put[c][i] = doubled[c])
      BY ONLY <1>3, <1>5, <1>18, <2>0, <2>3
    <3>3. KnownTo(Append(put[c], n), wrote, Watches(c)) /\ GivenTo(Append(put[c], n), wrote, doubled[c])
      <4>1. wrote[n] \in Watches(c) /\ n \in 1..Len(wrote) BY <1>5, <2>3
      <4> QED BY ONLY <2>1, <3>2, <4>1, GivenOne
    <3>4. \A j \in DOMAIN ready' : ready'[j][1] = c /\ wrote[n] = "log" =>
             n < ready'[j][2] \/ (n = ready'[j][2] /\ n = doubled[c])
      <4> SUFFICES ASSUME NEW j \in DOMAIN ready', ready'[j][1] = c
                   PROVE  n < ready'[j][2] \/ (n = ready'[j][2] /\ n = doubled[c])
        OBVIOUS
      <4>1. j \in Nat /\ j + 1 \in DOMAIN ready /\ ready'[j] = ready[j + 1] /\ 1 \in DOMAIN ready
        BY <1>3
      <4>2. j # 0
        <5>1. DOMAIN ready' = 1..Len(ready') BY ONLY <1>3
        <5> QED BY ONLY <5>1, j \in DOMAIN ready'
      <4>3. 1 < j + 1 BY ONLY <4>1, <4>2
      <4>4. ready[1][1] = ready[j + 1][1] /\ ready[1][2] = n /\ ready[1][1] = c
        BY <1>3, <1>5, <2>3, <4>1
      <4>5. \A a, b \in DOMAIN ready : a < b /\ ready[a][1] = ready[b][1] =>
             ready[a][2] < ready[b][2] \/ (ready[a][2] = ready[b][2] /\ ready[a][2] = doubled[ready[a][1]])
        BY <1>2 DEF OrderInv, LinesInOrder
      <4>6. n < ready[j + 1][2] \/ (n = ready[j + 1][2] /\ n = doubled[c])
        BY ONLY <4>1, <4>3, <4>4, <4>5
      <4> QED BY ONLY <4>1, <4>6
    <3>5. LinesAfter(Append(put[c], n), ready', c, wrote, doubled[c])
      BY ONLY <1>5, <2>1, <2>2, <3>4, AfterOne
    <3> QED BY <3>1, <3>3, <3>5
  <2>4. CASE c # d BY <1>6, <2>1, <2>2, <2>4
  <2> QED BY <2>3, <2>4
<1>10. KnownInv' BY <1>1, <1>2, <1>8, <1>9 DEF KnownInv, written
<1>11. EmitInv' /\ RingsKeepTheNewest' BY <1>1, <1>2 DEF EmitInv, RingsKeepTheNewest, written
<1>12. OrderInv' BY <1>1, <1>8, <1>9 DEF OrderInv
<1>13. \A c \in Sockets : \A m : Contains(put'[c], m) <=> Contains(put[c], m) \/ (m = n /\ c = d)
  <2> TAKE c \in Sockets
  <2> TAKE m
  <2>1. put[c] \in Seq(Nat) /\ n \in Nat BY <1>2, <1>5 DEF StreamsTyped
  <2>2. Contains(Append(put[c], n), m) <=> Contains(put[c], m) \/ m = n
    BY ONLY <2>1, ContainsAppend
  <2>3. CASE c = d BY <1>6, <2>2, <2>3
  <2>4. CASE c # d BY <1>6, <2>4
  <2> QED BY <2>3, <2>4
<1>14. \A c \in Sockets : \A m : (Contains(put'[c], m) \/ Contains(ready', <<c, m>>)) <=> Has(c, m)
  <2> TAKE c \in Sockets
  <2> TAKE m
  <2>1. Contains(ready, <<c, m>>) <=> <<c, m>> = x \/ Contains(ready', <<c, m>>) BY <1>4
  <2>2. <<c, m>> = x <=> c = d /\ m = n BY ONLY <1>5
  <2> QED BY <1>13, <2>1, <2>2 DEF Has
<1>15. DoubledInv'
  <2> SUFFICES ASSUME NEW c \in Pages, c \in emitting.left \/ (emitting.at = "kept" /\ c \in observing["log"]),
                      Contains(put'[c], emitting.line) \/ Contains(ready', <<c, emitting.line>>)
               PROVE  doubled[c] = emitting.line
    BY <1>1 DEF DoubledInv, Has
  <2>1. c \in Sockets BY DEF Sockets
  <2> QED BY <1>2, <1>14, <2>1 DEF DoubledInv
<1>16. PagesInv'
  <2>1. \A c \in Sockets : page[c] = "closed" => c # d BY <1>2, <1>3 DEF PagesInv, d
  <2>2. \A c \in Sockets : page[c] = "closed" => put'[c] = <<>> /\ outbox'[c] = <<>> /\ \A i \in DOMAIN ready' : ready'[i][1] # c
    <3> SUFFICES ASSUME NEW c \in Sockets, page[c] = "closed"
                 PROVE  put'[c] = <<>> /\ outbox'[c] = <<>> /\ \A i \in DOMAIN ready' : ready'[i][1] # c
      OBVIOUS
    <3>1. put[c] = <<>> /\ outbox[c] = <<>> /\ \A i \in DOMAIN ready : ready[i][1] # c
      BY <1>2 DEF PagesInv
    <3>2. put'[c] = <<>> /\ outbox'[c] = <<>> BY <1>6, <2>1, <3>1
    <3>3. ASSUME NEW i \in DOMAIN ready' PROVE ready'[i][1] # c BY <1>3, <3>1
    <3> QED BY <3>2, <3>3
  <2> QED BY <1>1, <1>2, <2>2 DEF PagesInv
<1>17. NothingSkipped'
  <2> SUFFICES ASSUME NEW c \in Sockets, page[c] = "open", NEW m \in fresh[c]..written, wrote[m] \in Watches(c),
                      ~(Contains(put'[c], m) \/ Contains(ready', <<c, m>>))
               PROVE  emitting.line = m /\ (emitting.at = "kept" \/ c \in emitting.left)
    BY <1>1 DEF NothingSkipped, written
  <2>1. ~Has(c, m) BY <1>14
  <2> QED BY <1>2, <2>1 DEF NothingSkipped, Has
<1> QED BY <1>6, <1>7, <1>10, <1>11, <1>12, <1>15, <1>16, <1>17 DEF StreamsInv

(* The newest entries of a ring: as it holds them. *)
LEMMA NewestOfRing ==
    ASSUME NEW k, NEW r \in Seq(Nat), NEW w \in Seq(ListKinds), RingOf(k, r, w), NEW n \in Nat \ {0}
    PROVE  LET t == Newest(r, n)
           IN  /\ t \in Seq(Nat) /\ \A i \in DOMAIN t : t[i] \in 1..Len(w) /\ w[t[i]] = k
               /\ \A i, j \in DOMAIN t : i < j => t[i] < t[j]
<1> DEFINE t == Newest(r, n)
           d == Len(r) - Len(t)
<1>1. t \in Seq(Nat) /\ EndOf(t, r) BY ONLY NewestIs, r \in Seq(Nat), n \in Nat \ {0}
<1> HIDE DEF t
<1>2. Len(t) \in Nat /\ Len(r) \in Nat /\ DOMAIN t = 1..Len(t) /\ DOMAIN r = 1..Len(r) /\ Len(t) <= Len(r)
      /\ \A i \in 1..Len(t) : t[i] = r[d + i]
  BY <1>1 DEF EndOf
<1>3. d \in Nat /\ Len(r) = d + Len(t) BY ONLY <1>2 DEF d
<1> HIDE DEF d
<1>4. \A i \in 1..Len(t) : d + i \in 1..Len(r) BY ONLY <1>2, <1>3
<1>5. \A i \in DOMAIN t : t[i] \in 1..Len(w) /\ w[t[i]] = k BY <1>2, <1>4 DEF RingOf
<1>6. ASSUME NEW i \in DOMAIN t, NEW j \in DOMAIN t, i < j PROVE t[i] < t[j]
  <2>3. i \in 1..Len(t) /\ j \in 1..Len(t) /\ i \in Nat /\ j \in Nat
    BY ONLY <1>2, i \in DOMAIN t, j \in DOMAIN t
  <2>4. d + i < d + j BY ONLY <1>3, <1>6, <2>3
  <2>1. d + i < d + j /\ d + i \in DOMAIN r /\ d + j \in DOMAIN r BY ONLY <1>2, <1>4, <2>3, <2>4
  <2>2. t[i] = r[d + i] /\ t[j] = r[d + j] BY <1>2
  <2> QED BY ONLY <2>1, <2>2, RingOf(k, r, w) DEF RingOf
<1> QED BY <1>1, <1>5, <1>6 DEF t

(* The snapshot: commands at once, lines through the loop. *)
LEMMA PageSnapsSafe ==
    ASSUME StreamsInv, NEW c \in Sockets, PageSnaps(c)
    PROVE  StreamsInv'
<1> DEFINE commands == Newest(ring["command"], SnapshotLimit)
           lines == Newest(ring["log"], SnapshotLimit)
           l == [i \in DOMAIN lines |-> <<c, lines[i]>>]
<1>1. /\ c \in Pages /\ page[c] = "closed"
      /\ page' = [page EXCEPT ![c] = "snapshot"]
      /\ outbox' = [outbox EXCEPT ![c] = Newest(outbox[c] \o commands, QueueSize)]
      /\ put' = [put EXCEPT ![c] = commands]
      /\ ready' = ready \o l
      /\ UNCHANGED <<wrote, observing, ring, emitting, fresh, sending, doubled>>
  BY DEF PageSnaps
<1>2. StreamsTyped /\ KnownInv /\ EmitInv /\ DoubledInv /\ PagesInv /\ OrderInv /\ QueuesInv /\ NothingSkipped /\ RingsKeepTheNewest
  BY DEF StreamsInv
<1>3. /\ RingOf("command", ring["command"], wrote) /\ RingOf("log", ring["log"], wrote)
      /\ ring["command"] \in Seq(Nat) /\ ring["log"] \in Seq(Nat) /\ wrote \in Seq(ListKinds)
      /\ SnapshotLimit \in Nat \ {0} /\ QueueSize \in Nat \ {0}
  BY <1>2, RingsAre, StreamsAssumption DEF StreamsTyped, ListKinds
<1>4. /\ commands \in Seq(Nat) /\ \A i \in DOMAIN commands : commands[i] \in 1..Len(wrote) /\ wrote[commands[i]] = "command"
      /\ \A i, j \in DOMAIN commands : i < j => commands[i] < commands[j]
  BY ONLY <1>3, NewestOfRing
<1>5. /\ lines \in Seq(Nat) /\ \A i \in DOMAIN lines : lines[i] \in 1..Len(wrote) /\ wrote[lines[i]] = "log"
      /\ \A i, j \in DOMAIN lines : i < j => lines[i] < lines[j]
  BY ONLY <1>3, NewestOfRing
<1> HIDE DEF commands, lines
<1>6. /\ l \in Seq(Pages \X Nat) /\ DOMAIN l = DOMAIN lines /\ \A i \in DOMAIN l : l[i][1] = c /\ l[i][2] = lines[i]
  <2>1. Len(lines) \in Nat /\ DOMAIN lines = 1..Len(lines) /\ \A i \in DOMAIN lines : lines[i] \in Nat
    BY <1>5
  <2>2. l \in [1..Len(lines) -> Pages \X Nat] BY <1>1, <2>1
  <2>3. l \in Seq(Pages \X Nat) BY ONLY <2>1, <2>2
  <2> QED BY <2>3
<1> HIDE DEF l
<1>7. /\ put[c] = <<>> /\ outbox[c] = <<>> /\ \A i \in DOMAIN ready : ready[i][1] # c
      /\ doubled[c] = 0 /\ c \notin emitting.left
      /\ \A k \in ListKinds : c \notin observing[k]
  BY <1>1, <1>2 DEF PagesInv
<1>8. /\ ready \in Seq(Pages \X Nat) /\ ready' \in Seq(Pages \X Nat) /\ Joined(ready', ready, l)
      /\ \A y : Contains(ready', y) <=> Contains(ready, y) \/ Contains(l, y)
  <2>1. ready \in Seq(Pages \X Nat) BY <1>2 DEF StreamsTyped
  <2>2. ready \o l \in Seq(Pages \X Nat) /\ Joined(ready \o l, ready, l)
    BY ONLY <1>6, <2>1, JoinIs
  <2>3. \A y : Contains(ready \o l, y) <=> Contains(ready, y) \/ Contains(l, y)
    BY ONLY <1>6, <2>1, ContainsJoin
  <2> QED BY <1>1, <2>1, <2>2, <2>3
<1>9. /\ outbox'[c] \in Seq(Nat) /\ EndOf(outbox'[c], commands) /\ Len(outbox'[c]) <= QueueSize
  <2>1. outbox[c] \o commands = commands BY <1>4, <1>7
  <2>2. outbox'[c] = Newest(commands, QueueSize) BY <1>1, <1>2, <2>1 DEF StreamsTyped
  <2> QED BY ONLY <1>3, <1>4, <2>2, NewestIs
<1>10. put'[c] = commands /\ \A d \in Sockets : d # c => put'[d] = put[d] /\ outbox'[d] = outbox[d] /\ page'[d] = page[d]
  BY <1>1, <1>2 DEF StreamsTyped
<1>11. page'[c] = "snapshot" BY <1>1, <1>2 DEF StreamsTyped
<1>12. StreamsTyped'
  <2>1. outbox' \in [Sockets -> Seq(Nat)] /\ put' \in [Sockets -> Seq(Nat)]
    BY <1>1, <1>2, <1>4, <1>9 DEF StreamsTyped
  <2>2. page' \in [Sockets -> {"closed", "snapshot", "open", "leaving", "gone"}]
    BY <1>1, <1>2 DEF StreamsTyped
  <2> QED BY <1>1, <1>2, <1>8, <2>1, <2>2 DEF StreamsTyped
<1>13. LinesKnown(l, wrote) /\ LinesInOrder(l, doubled)
  <2>1. LinesKnown(l, wrote) BY ONLY <1>5, <1>6 DEF LinesKnown
  <2>2. ASSUME NEW i \in DOMAIN l, NEW j \in DOMAIN l, i < j PROVE l[i][2] < l[j][2]
    BY ONLY <1>5, <1>6, <2>2, i \in DOMAIN l, j \in DOMAIN l
  <2> QED BY ONLY <2>1, <2>2 DEF LinesInOrder
<1>14. LinesKnown(ready', wrote) /\ LinesInOrder(ready', doubled)
  <2>1. /\ LinesKnown(ready, wrote) /\ LinesInOrder(ready, doubled)
        /\ \A i \in DOMAIN ready, m \in DOMAIN l : ready[i][1] = l[m][1] =>
             ready[i][2] < l[m][2] \/ (ready[i][2] = l[m][2] /\ ready[i][2] = doubled[ready[i][1]])
    BY <1>2, <1>6, <1>7 DEF KnownInv, OrderInv
  <2>2. LinesKnown(ready \o l, wrote) /\ LinesInOrder(ready \o l, doubled)
    BY ONLY <1>3, <1>6, <1>8, <1>13, <2>1, LinesMore
  <2> QED BY <1>1, <2>2
<1>15. ASSUME NEW d \in Sockets
       PROVE  KnownTo(put'[d], wrote, Watches(d)) /\ GivenTo(put'[d], wrote, doubled[d])
              /\ LinesAfter(put'[d], ready', d, wrote, doubled[d])
  <2>1. CASE d = c
    <3>1. KnownTo(commands, wrote, Watches(c)) BY <1>1, <1>4 DEF KnownTo, Watches
    <3>2. GivenTo(commands, wrote, doubled[c]) BY <1>4 DEF GivenTo
    <3>3. LinesAfter(commands, ready', c, wrote, doubled[c]) BY <1>4 DEF LinesAfter
    <3> QED BY <1>10, <2>1, <3>1, <3>2, <3>3
  <2>2. CASE d # c
    <3>1. /\ KnownTo(put[d], wrote, Watches(d)) /\ GivenTo(put[d], wrote, doubled[d])
          /\ LinesAfter(put[d], ready, d, wrote, doubled[d])
      BY <1>2 DEF KnownInv, OrderInv
    <3>2. LinesAfter(put[d], l, d, wrote, doubled[d]) BY <1>6, <2>2 DEF LinesAfter
    <3>3. LinesAfter(put[d], ready \o l, d, wrote, doubled[d])
      BY ONLY <1>6, <1>8, <3>1, <3>2, AfterMore
    <3> QED BY <1>1, <1>10, <2>2, <3>1, <3>3
  <2> QED BY <2>1, <2>2
<1>16. KnownInv'
  <2>1. \A d \in Sockets : page'[d] = "open" => fresh[d] >= 1 BY <1>2, <1>10, <1>11 DEF KnownInv
  <2> QED BY <1>1, <1>2, <1>14, <1>15, <2>1 DEF KnownInv, written
<1>17. EmitInv' /\ RingsKeepTheNewest' BY <1>1, <1>2 DEF EmitInv, RingsKeepTheNewest, written
<1>18. OrderInv' BY <1>1, <1>14, <1>15 DEF OrderInv
<1>19. \A d \in Sockets : d # c => \A m : Contains(ready', <<d, m>>) <=> Contains(ready, <<d, m>>)
  <2> TAKE d \in Sockets
  <2> HAVE d # c
  <2> TAKE m
  <2>1. ~Contains(l, <<d, m>>)
    <3> SUFFICES ASSUME Contains(l, <<d, m>>) PROVE FALSE OBVIOUS
    <3>1. PICK i \in 1..Len(l) : l[i] = <<d, m>> BY DEF Contains
    <3>2. i \in DOMAIN l BY <1>6
    <3> QED BY <1>6, <3>1, <3>2
  <2> QED BY <1>8, <2>1
<1>20. DoubledInv'
  <2> SUFFICES ASSUME NEW d \in Pages, d \in emitting.left \/ (emitting.at = "kept" /\ d \in observing["log"]),
                      Contains(put'[d], emitting.line) \/ Contains(ready', <<d, emitting.line>>)
               PROVE  doubled[d] = emitting.line
    BY <1>1 DEF DoubledInv, Has
  <2>1. d # c /\ d \in Sockets BY <1>7 DEF Sockets, ListKinds
  <2>2. Has(d, emitting.line) BY <1>10, <1>19, <2>1 DEF Has
  <2> QED BY <1>2, <2>2 DEF DoubledInv
<1>21. PagesInv'
  <2> SUFFICES ASSUME NEW d \in Sockets
               PROVE  /\ page'[d] = "closed" => /\ put'[d] = <<>> /\ outbox'[d] = <<>>
                                                /\ \A i \in DOMAIN ready' : ready'[i][1] # d
                      /\ page'[d] \in {"closed", "snapshot"} => doubled[d] = 0 /\ d \notin emitting.left
                      /\ \A k \in ListKinds : d \in observing[k] <=> k \in Watches(d) /\ page'[d] \in {"open", "leaving"}
    BY <1>1 DEF PagesInv
  <2>1. CASE d = c BY <1>7, <1>11, <2>1
  <2>2. CASE d # c
    <3>1. put'[d] = put[d] /\ outbox'[d] = outbox[d] /\ page'[d] = page[d] BY <1>10, <2>2
    <3>2. ASSUME page[d] = "closed", NEW i \in DOMAIN ready', ready'[i][1] = d PROVE FALSE
      <4>1. \A j \in DOMAIN ready : ready[j][1] # d BY <1>2, <3>2 DEF PagesInv
      <4>2. /\ i \in DOMAIN ready \/ (i - Len(ready) \in DOMAIN l /\ i = Len(ready) + (i - Len(ready)))
            /\ \A j \in DOMAIN ready : ready'[j] = ready[j]
            /\ \A m \in DOMAIN l : ready'[Len(ready) + m] = l[m]
        BY <1>8 DEF Joined
      <4>3. CASE i \in DOMAIN ready BY ONLY <3>2, <4>1, <4>2, <4>3
      <4>4. CASE i - Len(ready) \in DOMAIN l /\ i = Len(ready) + (i - Len(ready))
        <5>1. ready'[i] = l[i - Len(ready)] BY ONLY <4>2, <4>4
        <5> QED BY ONLY <1>6, <2>2, <3>2, <4>4, <5>1
      <4> QED BY ONLY <4>2, <4>3, <4>4
    <3> QED BY <1>2, <3>1, <3>2 DEF PagesInv
  <2> QED BY <2>1, <2>2
<1>22. QueuesInv'
  <2> SUFFICES ASSUME NEW d \in Sockets PROVE EndOf(outbox'[d], put'[d]) /\ Len(outbox'[d]) <= QueueSize
    BY DEF QueuesInv
  <2>1. CASE d = c BY <1>9, <1>10, <2>1
  <2>2. CASE d # c BY <1>2, <1>10, <2>2 DEF QueuesInv
  <2> QED BY <2>1, <2>2
<1>23. NothingSkipped'
  <2> SUFFICES ASSUME NEW d \in Sockets, page'[d] = "open", NEW m \in fresh[d]..written, wrote[m] \in Watches(d),
                      ~Contains(put'[d], m), ~Contains(ready', <<d, m>>)
               PROVE  emitting.line = m /\ (emitting.at = "kept" \/ d \in emitting.left)
    BY <1>1 DEF NothingSkipped, written
  <2>1. d # c BY <1>11
  <2> QED BY <1>2, <1>10, <1>19, <2>1 DEF NothingSkipped
<1> QED BY <1>12, <1>16, <1>17, <1>18, <1>20, <1>21, <1>22, <1>23 DEF StreamsInv

LEMMA ViewerOpensSafe ==
    ASSUME StreamsInv, NEW c \in Sockets, ViewerOpens(c)
    PROVE  StreamsInv'
<1>1. /\ c \in Viewers /\ page[c] = "closed"
      /\ page' = [page EXCEPT ![c] = "open"] /\ fresh' = [fresh EXCEPT ![c] = written + 1]
      /\ observing' = [k \in ListKinds |-> IF k \in Watches(c) THEN observing[k] \cup {c} ELSE observing[k]]
      /\ UNCHANGED <<wrote, ring, emitting, ready, outbox, sending, put, doubled>>
  BY DEF ViewerOpens, Registers
<1>2. StreamsTyped /\ KnownInv /\ EmitInv /\ DoubledInv /\ PagesInv /\ OrderInv /\ QueuesInv /\ NothingSkipped /\ RingsKeepTheNewest
  BY DEF StreamsInv
<1>3. /\ page'[c] = "open" /\ fresh'[c] = written + 1 /\ written \in Nat
      /\ \A d \in Sockets : d # c => page'[d] = page[d] /\ fresh'[d] = fresh[d]
  BY <1>1, <1>2 DEF StreamsTyped, written
<1>4. /\ \A k \in ListKinds : \A d \in Sockets : d \in observing'[k] <=> d \in observing[k] \/ (d = c /\ k \in Watches(c))
      /\ observing' \in [ListKinds -> SUBSET Sockets] /\ "log" \in ListKinds /\ "log" \notin Watches(c)
  BY <1>1, <1>2, StreamsAssumption DEF StreamsTyped, ListKinds, Watches
<1>5. StreamsTyped' BY <1>1, <1>2, <1>3, <1>4 DEF StreamsTyped
<1>6. KnownInv' BY <1>1, <1>2, <1>3 DEF KnownInv, written
<1>7. EmitInv' /\ OrderInv' /\ QueuesInv' /\ RingsKeepTheNewest'
  BY <1>1, <1>2 DEF EmitInv, OrderInv, QueuesInv, RingsKeepTheNewest, written
<1>8. DoubledInv'
  <2> SUFFICES ASSUME NEW d \in Pages, d \in emitting.left \/ (emitting.at = "kept" /\ d \in observing'["log"]),
                      Has(d, emitting.line)
               PROVE  doubled[d] = emitting.line
    BY <1>1 DEF DoubledInv, Has
  <2>1. d \in emitting.left \/ (emitting.at = "kept" /\ d \in observing["log"])
    BY <1>4 DEF Sockets
  <2> QED BY <1>2, <2>1 DEF DoubledInv
<1>9. PagesInv'
  <2> SUFFICES ASSUME NEW d \in Sockets
               PROVE  /\ page'[d] = "closed" => /\ put[d] = <<>> /\ outbox[d] = <<>>
                                                /\ \A i \in DOMAIN ready : ready[i][1] # d
                      /\ page'[d] \in {"closed", "snapshot"} => doubled[d] = 0 /\ d \notin emitting.left
                      /\ \A k \in ListKinds : d \in observing'[k] <=> k \in Watches(d) /\ page'[d] \in {"open", "leaving"}
    BY <1>1 DEF PagesInv
  <2>1. CASE d = c BY <1>1, <1>2, <1>3, <1>4, <2>1 DEF PagesInv
  <2>2. CASE d # c BY <1>2, <1>3, <1>4, <2>2 DEF PagesInv
  <2> QED BY <2>1, <2>2
<1>10. NothingSkipped'
  <2> SUFFICES ASSUME NEW d \in Sockets, page'[d] = "open", NEW m \in fresh'[d]..written, wrote[m] \in Watches(d)
               PROVE  \/ Contains(put[d], m) \/ Contains(ready, <<d, m>>)
                      \/ emitting.line = m /\ (emitting.at = "kept" \/ d \in emitting.left)
    BY <1>1 DEF NothingSkipped, written
  <2>1. d # c BY <1>3
  <2> QED BY <1>2, <1>3, <2>1 DEF NothingSkipped
<1> QED BY <1>5, <1>6, <1>7, <1>8, <1>9, <1>10 DEF StreamsInv

LEMMA PageRegistersSafe ==
    ASSUME StreamsInv, NEW c \in Sockets, PageRegisters(c)
    PROVE  StreamsInv'
<1>1. /\ page[c] = "snapshot"
      /\ page' = [page EXCEPT ![c] = "open"] /\ fresh' = [fresh EXCEPT ![c] = written + 1]
      /\ observing' = [k \in ListKinds |-> IF k \in Watches(c) THEN observing[k] \cup {c} ELSE observing[k]]
      /\ doubled' = [doubled EXCEPT ![c] = IF emitting.at = "kept" THEN emitting.line ELSE 0]
      /\ UNCHANGED <<wrote, ring, emitting, ready, awake, outbox, sending, put>>
  BY DEF PageRegisters, Registers
<1>2. StreamsTyped /\ KnownInv /\ EmitInv /\ DoubledInv /\ PagesInv /\ OrderInv /\ QueuesInv /\ NothingSkipped /\ RingsKeepTheNewest
  BY DEF StreamsInv
<1>3. /\ page'[c] = "open" /\ fresh'[c] = written + 1 /\ written \in Nat
      /\ \A d \in Sockets : d # c => page'[d] = page[d] /\ fresh'[d] = fresh[d] /\ doubled'[d] = doubled[d]
      /\ emitting.at = "kept" => doubled'[c] = emitting.line
      /\ doubled' \in [Sockets -> Nat]
  BY <1>1, <1>2 DEF StreamsTyped, written, EmitType
<1>4. /\ \A k \in ListKinds : \A d \in Sockets : d \in observing'[k] <=> d \in observing[k] \/ (d = c /\ k \in Watches(c))
      /\ observing' \in [ListKinds -> SUBSET Sockets] /\ "log" \in ListKinds
  BY <1>1, <1>2 DEF StreamsTyped, ListKinds
<1>11. doubled[c] = 0 /\ c \notin emitting.left BY <1>1, <1>2 DEF PagesInv
<1>5. StreamsTyped' BY <1>1, <1>2, <1>3, <1>4 DEF StreamsTyped
<1>6. KnownInv' BY <1>1, <1>2, <1>3 DEF KnownInv, written
<1>7. EmitInv' /\ QueuesInv' /\ RingsKeepTheNewest'
  BY <1>1, <1>2 DEF EmitInv, QueuesInv, RingsKeepTheNewest, written
<1>8. DoubledInv'
  <2> SUFFICES ASSUME NEW d \in Pages, d \in emitting.left \/ (emitting.at = "kept" /\ d \in observing'["log"]),
                      Has(d, emitting.line)
               PROVE  doubled'[d] = emitting.line
    BY <1>1 DEF DoubledInv, Has
  <2>0. d \in Sockets BY DEF Sockets
  <2>1. CASE d = c BY <1>3, <1>11, <2>1
  <2>2. CASE d # c BY <1>2, <1>3, <1>4, <2>0, <2>2 DEF DoubledInv
  <2> QED BY <2>1, <2>2
<1>9. PagesInv'
  <2> SUFFICES ASSUME NEW d \in Sockets
               PROVE  /\ page'[d] = "closed" => /\ put[d] = <<>> /\ outbox[d] = <<>>
                                                /\ \A i \in DOMAIN ready : ready[i][1] # d
                      /\ page'[d] \in {"closed", "snapshot"} => doubled'[d] = 0 /\ d \notin emitting.left
                      /\ \A k \in ListKinds : d \in observing'[k] <=> k \in Watches(d) /\ page'[d] \in {"open", "leaving"}
    BY <1>1 DEF PagesInv
  <2>1. CASE d = c BY <1>1, <1>2, <1>3, <1>4, <2>1 DEF PagesInv
  <2>2. CASE d # c BY <1>2, <1>3, <1>4, <2>2 DEF PagesInv
  <2> QED BY <2>1, <2>2
<1>10. NothingSkipped'
  <2> SUFFICES ASSUME NEW d \in Sockets, page'[d] = "open", NEW m \in fresh'[d]..written, wrote[m] \in Watches(d)
               PROVE  \/ Contains(put[d], m) \/ Contains(ready, <<d, m>>)
                      \/ emitting.line = m /\ (emitting.at = "kept" \/ d \in emitting.left)
    BY <1>1 DEF NothingSkipped, written
  <2>1. d # c BY <1>3
  <2> QED BY <1>2, <1>3, <2>1 DEF NothingSkipped
<1>12. ASSUME NEW d \in Sockets
       PROVE  GivenTo(put[d], wrote, doubled'[d]) /\ LinesAfter(put[d], ready, d, wrote, doubled'[d])
  <2>1. GivenTo(put[d], wrote, doubled[d]) /\ LinesAfter(put[d], ready, d, wrote, doubled[d])
    BY <1>2 DEF OrderInv
  <2>2. CASE d # c BY <1>3, <2>1, <2>2
  <2>3. CASE d = c
    <3>1. \A i \in DOMAIN put[d] : put[d][i] # doubled[d]
      BY <1>2, <1>11, <2>3 DEF KnownInv, KnownTo
    <3> QED BY <2>1, <3>1 DEF GivenTo, LinesAfter
  <2> QED BY <2>2, <2>3
<1>13. LinesInOrder(ready, doubled')
  <2> SUFFICES ASSUME NEW i \in DOMAIN ready, NEW j \in DOMAIN ready, i < j, ready[i][1] = ready[j][1]
               PROVE  ready[i][2] < ready[j][2] \/ (ready[i][2] = ready[j][2] /\ ready[i][2] = doubled'[ready[i][1]])
    BY DEF LinesInOrder
  <2>1. ready[i][2] < ready[j][2] \/ (ready[i][2] = ready[j][2] /\ ready[i][2] = doubled[ready[i][1]])
    BY <1>2 DEF OrderInv, LinesInOrder
  <2>2. ready[i][1] \in Sockets /\ ready[i][2] # 0
    <3>1. ready \in Seq(Pages \X Nat) BY <1>2 DEF StreamsTyped
    <3>2. ready[i] \in Pages \X Nat BY ONLY <3>1, i \in DOMAIN ready
    <3>3. ready[i][2] \in 1..Len(wrote) BY <1>2 DEF KnownInv, LinesKnown
    <3> QED BY ONLY <3>2, <3>3 DEF Sockets
  <2> QED BY <1>3, <1>11, <2>1, <2>2
<1>14. OrderInv' BY <1>1, <1>12, <1>13 DEF OrderInv
<1> QED BY <1>5, <1>6, <1>7, <1>8, <1>9, <1>10, <1>14 DEF StreamsInv

LEMMA PumpTakesSafe ==
    ASSUME StreamsInv, NEW c \in Sockets, PumpTakes(c)
    PROVE  StreamsInv'
<1>1. /\ outbox[c] # <<>> /\ page[c] = "open"
      /\ sending' = [sending EXCEPT ![c] = Head(outbox[c])]
      /\ outbox' = [outbox EXCEPT ![c] = Tail(outbox[c])]
      /\ UNCHANGED <<wrote, observing, ring, emitting, page, fresh, ready, awake, put, doubled>>
  BY DEF PumpTakes
<1>2. StreamsTyped /\ KnownInv /\ EmitInv /\ DoubledInv /\ PagesInv /\ OrderInv /\ QueuesInv /\ NothingSkipped /\ RingsKeepTheNewest
  BY DEF StreamsInv
<1>3. /\ Tail(outbox[c]) \in Seq(Nat) /\ EndOf(Tail(outbox[c]), put[c]) /\ Len(Tail(outbox[c])) <= Len(outbox[c])
      /\ Head(outbox[c]) \in 1..written /\ written \in Nat /\ Len(outbox[c]) <= QueueSize
      /\ Len(Tail(outbox[c])) \in Nat /\ Len(outbox[c]) \in Nat /\ QueueSize \in Nat
  <2>1. outbox[c] \in Seq(Nat) /\ put[c] \in Seq(Nat) /\ EndOf(outbox[c], put[c]) /\ Len(outbox[c]) <= QueueSize /\ written \in Nat
    BY <1>2 DEF StreamsTyped, QueuesInv, written
  <2>2. /\ Tail(outbox[c]) \in Seq(Nat) /\ EndOf(Tail(outbox[c]), put[c]) /\ Len(Tail(outbox[c])) <= Len(outbox[c])
        /\ Head(outbox[c]) = put[c][Len(put[c]) - Len(outbox[c]) + 1]
        /\ Len(put[c]) - Len(outbox[c]) + 1 \in 1..Len(put[c])
    BY ONLY <1>1, <2>1, TailIsEnd
  <2>5. DOMAIN put[c] = 1..Len(put[c]) /\ Len(outbox[c]) \in Nat BY ONLY <2>1
  <2>3. Len(put[c]) - Len(outbox[c]) + 1 \in DOMAIN put[c] BY ONLY <2>2, <2>5
  <2>4. \A i \in DOMAIN put[c] : put[c][i] \in 1..written BY <1>2 DEF KnownInv, KnownTo, written
  <2>6. Len(Tail(outbox[c])) \in Nat BY ONLY <2>2
  <2>7. Head(outbox[c]) \in 1..written BY ONLY <2>2, <2>3, <2>4
  <2>8. QueueSize \in Nat BY StreamsAssumption
  <2> QED BY ONLY <2>1, <2>2, <2>5, <2>6, <2>7, <2>8
<1>9. /\ sending \in [Sockets -> Nat] /\ outbox \in [Sockets -> Seq(Nat)] /\ Head(outbox[c]) \in Nat
  BY <1>2, <1>3 DEF StreamsTyped
<1>10. sending' \in [Sockets -> Nat] /\ outbox' \in [Sockets -> Seq(Nat)] BY ONLY <1>1, <1>3, <1>9
<1>4. StreamsTyped' BY <1>1, <1>2, <1>10 DEF StreamsTyped
<1>5. KnownInv' BY <1>1, <1>2, <1>3 DEF KnownInv, StreamsTyped, written
<1>6. EmitInv' /\ DoubledInv' /\ OrderInv' /\ NothingSkipped' /\ RingsKeepTheNewest'
  BY <1>1, <1>2 DEF EmitInv, DoubledInv, OrderInv, NothingSkipped, RingsKeepTheNewest, written, Has
<1>7. PagesInv' BY <1>1, <1>2 DEF PagesInv, StreamsTyped
<1>8. QueuesInv'
  <2> SUFFICES ASSUME NEW d \in Sockets PROVE EndOf(outbox'[d], put[d]) /\ Len(outbox'[d]) <= QueueSize
    BY <1>1 DEF QueuesInv
  <2>1. CASE d = c
    <3>1. outbox'[d] = Tail(outbox[c]) BY <1>1, <1>2, <2>1 DEF StreamsTyped
    <3> QED BY ONLY <1>3, <2>1, <3>1
  <2>2. CASE d # c BY <1>1, <1>2, <2>2 DEF QueuesInv, StreamsTyped
  <2> QED BY <2>1, <2>2
<1> QED BY <1>4, <1>5, <1>6, <1>7, <1>8 DEF StreamsInv

LEMMA PumpSendsSafe ==
    ASSUME StreamsInv, NEW c \in Sockets, PumpSends(c)
    PROVE  StreamsInv'
<1>1. /\ sending' = [sending EXCEPT ![c] = 0]
      /\ UNCHANGED <<wrote, observing, ring, emitting, page, fresh, ready, outbox, put, doubled>>
  BY DEF PumpSends
<1>2. StreamsTyped /\ KnownInv /\ EmitInv /\ DoubledInv /\ PagesInv /\ OrderInv /\ QueuesInv /\ NothingSkipped /\ RingsKeepTheNewest
  BY DEF StreamsInv
<1>3. StreamsTyped' BY <1>1, <1>2 DEF StreamsTyped
<1>4. KnownInv' BY <1>1, <1>2 DEF KnownInv, StreamsTyped, written
<1>5. EmitInv' /\ DoubledInv' /\ OrderInv' /\ NothingSkipped' /\ RingsKeepTheNewest' /\ PagesInv' /\ QueuesInv'
  BY <1>1, <1>2 DEF EmitInv, DoubledInv, OrderInv, NothingSkipped, RingsKeepTheNewest, written, Has, PagesInv, QueuesInv
<1> QED BY <1>3, <1>4, <1>5 DEF StreamsInv

LEMMA LeavesSafe ==
    ASSUME StreamsInv, NEW c \in Sockets, Leaves(c)
    PROVE  StreamsInv'
<1>1. /\ page[c] = "open" /\ page' = [page EXCEPT ![c] = "leaving"] /\ sending' = [sending EXCEPT ![c] = 0]
      /\ UNCHANGED <<wrote, observing, ring, emitting, fresh, ready, outbox, put, doubled>>
  BY DEF Leaves
<1>2. StreamsTyped /\ KnownInv /\ EmitInv /\ DoubledInv /\ PagesInv /\ OrderInv /\ QueuesInv /\ NothingSkipped /\ RingsKeepTheNewest
  BY DEF StreamsInv
<1>3. StreamsTyped' BY <1>1, <1>2 DEF StreamsTyped
<1>6. page'[c] = "leaving" /\ \A d \in Sockets : d # c => page'[d] = page[d]
  BY <1>1, <1>2 DEF StreamsTyped
<1>4. KnownInv' BY <1>1, <1>2 DEF KnownInv, StreamsTyped, written
<1>5. EmitInv' /\ DoubledInv' /\ OrderInv' /\ RingsKeepTheNewest' /\ QueuesInv'
  BY <1>1, <1>2 DEF EmitInv, DoubledInv, OrderInv, RingsKeepTheNewest, written, Has, QueuesInv
<1>7. PagesInv' BY <1>1, <1>2, <1>6 DEF PagesInv
<1>8. NothingSkipped' BY <1>1, <1>2, <1>6 DEF NothingSkipped, written
<1> QED BY <1>3, <1>4, <1>5, <1>7, <1>8 DEF StreamsInv

LEMMA DeregistersSafe ==
    ASSUME StreamsInv, NEW c \in Sockets, Deregisters(c)
    PROVE  StreamsInv'
<1>1. /\ page[c] = "leaving" /\ page' = [page EXCEPT ![c] = "gone"]
      /\ observing' = [k \in ListKinds |-> observing[k] \ {c}]
      /\ UNCHANGED <<wrote, ring, emitting, fresh, ready, awake, outbox, sending, put, doubled>>
  BY DEF Deregisters, Unregisters
<1>2. StreamsTyped /\ KnownInv /\ EmitInv /\ DoubledInv /\ PagesInv /\ OrderInv /\ QueuesInv /\ NothingSkipped /\ RingsKeepTheNewest
  BY DEF StreamsInv
<1>6. page'[c] = "gone" /\ (\A d \in Sockets : d # c => page'[d] = page[d]) /\ "log" \in ListKinds
      /\ \A k \in ListKinds : observing'[k] = observing[k] \ {c}
  BY <1>1, <1>2 DEF StreamsTyped, ListKinds
<1>3. StreamsTyped' BY <1>1, <1>2 DEF StreamsTyped
<1>4. KnownInv' BY <1>1, <1>2, <1>6 DEF KnownInv, written
<1>5. EmitInv' /\ OrderInv' /\ RingsKeepTheNewest' /\ QueuesInv'
  BY <1>1, <1>2 DEF EmitInv, OrderInv, RingsKeepTheNewest, written, QueuesInv
<1>9. DoubledInv' BY <1>1, <1>2, <1>6 DEF DoubledInv, Has
<1>7. PagesInv' BY <1>1, <1>2, <1>6 DEF PagesInv
<1>8. NothingSkipped' BY <1>1, <1>2, <1>6 DEF NothingSkipped, written
<1> QED BY <1>3, <1>4, <1>5, <1>7, <1>8, <1>9 DEF StreamsInv

(* A step that touches none of it. *)
LEMMA StreamsQuiet ==
    ASSUME StreamsInv, UNCHANGED <<wrote, observing, ring, emitting, page, fresh, ready, outbox, sending, put, doubled>>
    PROVE  StreamsInv'
<1>1. StreamsTyped' /\ KnownInv' /\ EmitInv' /\ DoubledInv' /\ PagesInv'
  BY DEF StreamsInv, StreamsTyped, KnownInv, EmitInv, DoubledInv, PagesInv, Has, written
<1>2. OrderInv' /\ QueuesInv' /\ NothingSkipped' /\ RingsKeepTheNewest'
  BY DEF StreamsInv, OrderInv, QueuesInv, NothingSkipped, RingsKeepTheNewest, written
<1> QED BY <1>1, <1>2 DEF StreamsInv

LEMMA StreamsStart == ASSUME StreamsInit PROVE StreamsInv
<1>1. /\ wrote = <<>> /\ observing = [k \in ListKinds |-> {}] /\ ring = [k \in ListKinds |-> <<>>] /\ emitting = Silent
      /\ page = [c \in Sockets |-> "closed"] /\ fresh = [c \in Sockets |-> 0]
      /\ ready = <<>> /\ outbox = [c \in Sockets |-> <<>>] /\ sending = [c \in Sockets |-> 0]
      /\ put = [c \in Sockets |-> <<>>] /\ doubled = [c \in Sockets |-> 0]
  BY DEF StreamsInit
<1>2. Len(wrote) = 0 /\ MaxEntries \in Nat /\ QueueSize \in Nat /\ RingSize \in Nat
  BY <1>1, StreamsAssumption
<1>3. StreamsTyped
  <2>1. emitting \in EmitType BY <1>1 DEF EmitType, Silent
  <2> QED BY <1>1, <1>2, <2>1 DEF StreamsTyped
<1>4. KnownInv BY <1>1, <1>2 DEF KnownInv, KnownTo, LinesKnown, written
<1>5. EmitInv /\ DoubledInv BY <1>1 DEF EmitInv, DoubledInv, Silent
<1>6. PagesInv BY <1>1 DEF PagesInv, Silent
<1>7. OrderInv BY <1>1 DEF OrderInv, GivenTo, LinesAfter, LinesInOrder
<1>8. QueuesInv BY <1>1, <1>2 DEF QueuesInv, EndOf
<1>9. NothingSkipped BY <1>1 DEF NothingSkipped
<1>10. RingsKeepTheNewest
  <2>1. \A k \in {"command", "log"} : ring[k] = <<>> BY <1>1 DEF ListKinds
  <2> QED BY <1>2, <2>1 DEF RingsKeepTheNewest, written
<1> QED BY <1>3, <1>4, <1>5, <1>6, <1>7, <1>8, <1>9, <1>10 DEF StreamsInv

LEMMA StreamsHold == ASSUME StreamsInv PROVE StreamsSafe
<1>2. StreamsTyped /\ KnownInv /\ EmitInv /\ DoubledInv /\ PagesInv /\ OrderInv /\ QueuesInv /\ NothingSkipped /\ RingsKeepTheNewest
  BY DEF StreamsInv
<1>1. emitting.line \in 0..written /\ emitting.at \in {"idle", "kept", "calling"}
  BY <1>2 DEF StreamsTyped, EmitType, EmitInv, Silent, written
<1>3. StreamsTypeOK BY <1>1, <1>2 DEF StreamsTypeOK, StreamsTyped, QueuesInv, KnownInv, written
<1>4. GivenInOrder BY <1>2 DEF GivenInOrder, OrderInv, GivenTo
<1>5. NewestQueued
  <2> SUFFICES ASSUME NEW c \in Sockets PROVE IsSuffix(outbox[c], put[c]) BY DEF NewestQueued
  <2>1. outbox[c] \in Seq(Nat) /\ put[c] \in Seq(Nat) /\ EndOf(outbox[c], put[c])
    BY <1>2 DEF StreamsTyped, QueuesInv
  <2> QED BY ONLY <2>1, EndIsSuffix
<1>6. NoObserverLeft
  <2>1. \A c \in Sockets : Watches(c) \subseteq ListKinds BY DEF Watches, ListKinds
  <2> QED BY <1>2, <2>1 DEF NoObserverLeft, PagesInv
<1> QED BY <1>2, <1>3, <1>4, <1>5, <1>6 DEF StreamsSafe

(* For any pages, queues, rings and limits, and wherever a thread that logs *)
(* falls between the steps of a page that opens: what a connection is given *)
(* comes in the order it was written, and twice only the line that was on *)
(* its way while it registered; nothing written after it registered is *)
(* skipped; a full queue loses the oldest; a ring holds the newest; and no *)
(* observer outlives its connection (api/streaming.py, diagnostics_live.py). *)
THEOREM StreamsAreSafe == StreamsSpec => []StreamsSafe
<1>1. StreamsInit => StreamsInv BY StreamsStart
<1>2. StreamsInv /\ [StreamsNext]_streamVars => StreamsInv'
  <2> SUFFICES ASSUME StreamsInv, [StreamsNext]_streamVars PROVE StreamsInv' OBVIOUS
  <2>1. CASE ThreadLogs \/ ThreadCopies \/ LoopLogs \/ LoopCalls
    BY <2>1, ThreadLogsSafe, ThreadCopiesSafe, LoopLogsSafe, LoopCallsSafe
  <2>2. CASE LoopSleeps BY <2>2, StreamsQuiet DEF LoopSleeps
  <2>3. ASSUME NEW k \in ListKinds, LoopWrites(k) PROVE StreamsInv' BY <2>3, LoopWritesSafe
  <2>4. ASSUME NEW c \in Sockets, ThreadCalls(c) \/ ViewerOpens(c) \/ PageSnaps(c) \/ PageRegisters(c) PROVE StreamsInv'
    BY <2>4, ThreadCallsSafe, ViewerOpensSafe, PageSnapsSafe, PageRegistersSafe
  <2>5. ASSUME NEW c \in Sockets, PumpTakes(c) \/ PumpSends(c) \/ Leaves(c) \/ Deregisters(c) PROVE StreamsInv'
    BY <2>5, PumpTakesSafe, PumpSendsSafe, LeavesSafe, DeregistersSafe
  <2>6. CASE UNCHANGED streamVars BY <2>6, StreamsQuiet DEF streamVars
  <2> QED BY <2>1, <2>2, <2>3, <2>4, <2>5, <2>6 DEF StreamsNext
<1>3. StreamsInv => StreamsSafe BY StreamsHold
<1> QED BY <1>1, <1>2, <1>3, PTL DEF StreamsSpec

----------------------------------------
(***************************************************************************)
(* The lamps (LampCommands), for any lamps, orders, plans, keys and bounds.*)
(***************************************************************************)
(* What the variables are. *)
Reports == [on : BOOLEAN, wall : BOOLEAN]
LampResults == {"none", "pending", "ok", "replaced", "unreachable", "unconfigured"}
Doings == [order : Nat, calls : Seq(CallsMade), flight : {"none", "on", "call"}, onSent : BOOLEAN]

LampTypes ==
    /\ power \in [Lamps -> BOOLEAN] /\ news \in [Lamps -> Seq(Reports)]
    /\ reported \in [Lamps -> {"none", "on", "off"}]
    /\ sentOn \in [Lamps -> {"none", "on", "off"}]
    /\ reachable \in [Lamps -> BOOLEAN] /\ active \in [Lamps -> BOOLEAN]
    /\ waitingFor \in [Lamps -> SUBSET Numbers]
    /\ doing \in [Lamps -> Doings]
    /\ ordersDue \in [Lamps -> {"any", "on", "off"}]
    /\ blind \in SUBSET Lamps /\ dark \in SUBSET Lamps

RequestTypes ==
    /\ orders \in Seq([order : Orders, route : Routes])
    /\ result \in [Numbers -> [Lamps -> LampResults]]
    /\ answer \in [Numbers -> {"none", "ok", "not configured", "not reached"}]
    /\ touched \in [Numbers -> SUBSET Lamps] /\ left \in [Numbers -> SUBSET Lamps]
    /\ DOMAIN result = Numbers

(* Each request is in one place, and requests come in the order of their numbers. *)
PlaceAt(m) == \A r \in Numbers :
    result[r][m] = "pending" <=> (doing[m].order = r \/ r \in waitingFor[m])

(* Who works has a request and calls left; what waits came later. *)
WorkOf(d) ==
    /\ d.order \in 0..Len(orders)
    /\ d.order = 0 => d = Nobody
    /\ d.order # 0 => d.calls # <<>>
    /\ d.onSent \/ d.flight = "on" => d.order # 0 /\ Lights(Head(d.calls))
WorkAt(m) == WorkOf(doing[m]) /\ \A w \in waitingFor[m] : doing[m].order < w /\ PlanOf(m, w) # <<>>
LampWork == \A m \in Lamps : WorkAt(m)

(* A lamp that was switched on and is off went off at the wall, and its *)
(* last report says so. *)
KnownOff(m) ==
    IF news[m] = <<>> THEN reported[m] = "off"
    ELSE news[m][Len(news[m])].on = FALSE /\ news[m][Len(news[m])].wall
LightAt(m) ==
    /\ sentOn[m] = "on" /\ ~power[m] => KnownOff(m)
    /\ \A i \in DOMAIN news[m] : news[m][i].wall => m \in blind
    /\ doing[m].onSent /\ m \notin blind => power[m]
    /\ doing[m].flight = "call" /\ Lights(Head(doing[m].calls)) /\ active[m] /\ m \notin blind
          => power[m]

(* Who took a call of a request is asked in it, and who did so and then *)
(* failed for want of a source lost it meanwhile. *)
TouchedIn(r, m) ==
    /\ m \in touched[r] => result[r][m] # "none" /\ r \notin waitingFor[m]
    /\ doing[m].order = r /\ ~reachable[m] /\ (m \in touched[r] \/ doing[m].flight # "none") => m \in left[r]
    /\ result[r][m] = "unconfigured" /\ m \in touched[r] => m \in left[r]
TouchedAt(m) == \A r \in Numbers : TouchedIn(r, m)

(* The last waiting request that switches leads to what is due, else the *)
(* calls that are left, else the lamp is there. *)
LeadsOf(m, w) == Leads(PlanOf(m, w))
AllSame(m) == \A w \in waitingFor[m] : LeadsOf(m, w) = "same"
DueAt(m) == ordersDue[m] # "any" =>
    /\ \A w \in waitingFor[m] :
         LeadsOf(m, w) # "same" /\ (\A v \in waitingFor[m] : v > w => LeadsOf(m, v) = "same")
            => LeadsOf(m, w) = ordersDue[m]
    /\ AllSame(m) => IF doing[m].order # 0 /\ Leads(doing[m].calls) # "same"
                     THEN Leads(doing[m].calls) = ordersDue[m]
                     ELSE power[m] = (ordersDue[m] = "on")

LampAt(m) == PlaceAt(m) /\ LightAt(m) /\ TouchedAt(m) /\ DueAt(m)

(* An answer is given when every lamp's part has ended, and stays true. *)
AnsweredIn(r) == orders[r].route = "ui" /\ answer[r] # "none" =>
    /\ \A m \in Lamps : result[r][m] # "pending"
    /\ answer[r] = "ok" => \A m \in Lamps : result[r][m] \in {"none", "ok", "replaced"}
    /\ answer[r] = "not configured" => \A m \in touched[r] : m \in left[r]
LampAnswered == \A r \in Numbers : AnsweredIn(r)

LampInv ==
    /\ LampTypes /\ RequestTypes /\ LampWork
    /\ \A m \in Lamps : LampAt(m)
    /\ LampAnswered /\ dark = {}

LEMMA NatLeast ==
  ASSUME NEW S \in SUBSET Nat, S # {}
  PROVE  \E n \in S : \A m \in S : n <= m
<1>1. PICK n \in S : \A m \in S : <<m, n>> \notin OpToRel(<, Nat) BY NatLessThanWellFounded, WFMin
<1>2. \A m \in S : n <= m
  <2> TAKE m \in S
  <2>1. m \in Nat /\ n \in Nat OBVIOUS
  <2>2. ~(m < n) BY <1>1, <2>1 DEF OpToRel
  <2> QED BY <2>1, <2>2
<1> QED BY <1>2

(* What one call leads to, if it switches at all. *)
LeadOf(c) == CASE c.pair = "toggle" -> "any"
               [] c.pair = "on" \/ (c.pair = "levelOnOff" /\ c.arg # 0) -> "on"
               [] OTHER -> "off"
SwitchPairs == {"on", "off", "toggle", "levelOnOff"}

LEMMA HasLast ==
  ASSUME NEW S, NEW given \in Seq(S), Switching(given) # {}
  PROVE  \E i \in Switching(given) : \A j \in Switching(given) : j <= i
<1> DEFINE n == Len(given)
           back == {k \in 0..n : n - k \in Switching(given)}
<1>1. n \in Nat /\ DOMAIN given = 1..n OBVIOUS
<1>2. Switching(given) \subseteq 1..n BY <1>1 DEF Switching
<1>3. back \in SUBSET Nat BY <1>1
<1>4. back # {}
  <2>1. PICK i \in Switching(given) : TRUE OBVIOUS
  <2>2. i \in 1..n BY <1>2, <2>1
  <2>3. n - i \in 0..n /\ n - (n - i) = i BY <1>1, <2>2
  <2> QED BY <2>1, <2>3
<1>5. PICK k \in back : \A l \in back : k <= l
  <2> HIDE DEF back
  <2> QED BY <1>3, <1>4, NatLeast
<1>6. \A j \in Switching(given) : j <= n - k
  <2> TAKE j \in Switching(given)
  <2>1. j \in 1..n BY <1>2
  <2>2. n - j \in 0..n /\ n - (n - j) = j BY <1>1, <2>1
  <2>3. n - j \in back BY <2>2
  <2>4. k <= n - j BY <1>5, <2>3
  <2>5. k \in 0..n OBVIOUS
  <2> HIDE DEF n, back
  <2> QED BY <1>1, <2>1, <2>4, <2>5
<1> QED BY <1>5, <1>6

LEMMA LastLeads ==
  ASSUME NEW S, NEW given \in Seq(S), NEW i \in Switching(given), \A j \in Switching(given) : j <= i
  PROVE  Leads(given) = LeadOf(given[i])
<1>1. \A j \in Switching(given) : j \in Nat BY DEF Switching
<1>2. \A k \in Switching(given) : (\A j \in Switching(given) : j <= k) => k = i BY <1>1
<1>3. (CHOOSE k \in Switching(given) : \A j \in Switching(given) : j <= k) = i BY <1>2
<1>4. Switching(given) # {} OBVIOUS
<1> QED BY ONLY <1>3, <1>4 DEF Leads, LeadOf

LEMMA SameIsNone ==
  ASSUME NEW S, NEW given \in Seq(S)
  PROVE  /\ Leads(given) = "same" <=> Switching(given) = {}
         /\ Leads(given) \in {"same", "any", "on", "off"}
<1>1. CASE Switching(given) = {} BY <1>1 DEF Leads
<1>2. CASE Switching(given) # {}
  <2>1. PICK i \in Switching(given) : \A j \in Switching(given) : j <= i BY <1>2, HasLast
  <2>2. Leads(given) = LeadOf(given[i]) BY <2>1, LastLeads
  <2>3. LeadOf(given[i]) \in {"any", "on", "off"} BY DEF LeadOf
  <2> QED BY <1>2, <2>2, <2>3
<1> QED BY <1>1, <1>2

LEMMA TailLeads ==
  ASSUME NEW S, NEW given \in Seq(S), given # <<>>
  PROVE  Leads(given) = IF Leads(Tail(given)) # "same" THEN Leads(Tail(given))
                        ELSE IF Head(given).pair \in SwitchPairs THEN LeadOf(Head(given)) ELSE "same"
<1> DEFINE rest == Tail(given)
<1>1. /\ rest \in Seq(S) /\ Len(rest) = Len(given) - 1 /\ \A i \in 1..Len(rest) : rest[i] = given[i + 1]
      /\ Len(given) \in Nat /\ Len(given) > 0 /\ Len(rest) \in Nat
  BY HeadTailProperties
<1>2. DOMAIN rest = 1..Len(rest) /\ DOMAIN given = 1..Len(given) /\ Head(given) = given[1] BY <1>1
<1> HIDE DEF rest
<1>3. \A i \in Switching(rest) : i + 1 \in Switching(given) /\ rest[i] = given[i + 1] /\ i \in Nat
  BY <1>1, <1>2 DEF Switching
<1>4. \A j \in Switching(given) : j \in Nat /\ (j = 1 \/ (j - 1 \in Switching(rest) /\ j > 1))
  <2> TAKE j \in Switching(given)
  <2>1. j \in 1..Len(given) /\ given[j].pair \in SwitchPairs BY <1>2 DEF Switching, SwitchPairs
  <2>2. CASE j # 1
    <3>1. j - 1 \in 1..Len(rest) /\ (j - 1) + 1 = j /\ j > 1 BY <1>1, <2>1, <2>2
    <3>2. rest[j - 1] = given[j] BY <1>1, <3>1
    <3> QED BY <1>2, <2>1, <3>1, <3>2 DEF Switching, SwitchPairs
  <2> QED BY <2>1, <2>2
<1>5. CASE Switching(rest) # {}
  <2>1. PICK i \in Switching(rest) : \A j \in Switching(rest) : j <= i BY <1>1, <1>5, HasLast
  <2>2. Leads(rest) = LeadOf(rest[i]) BY <1>1, <2>1, LastLeads
  <2>3. \A j \in Switching(given) : j <= i + 1
    <3> TAKE j \in Switching(given)
    <3>1. CASE j = 1 BY <1>3, <3>1
    <3>2. CASE j - 1 \in Switching(rest) /\ j > 1
      <4>1. j - 1 <= i BY <2>1, <3>2
      <4> QED BY <1>3, <1>4, <4>1
    <3> QED BY <1>4, <3>1, <3>2
  <2>4. i + 1 \in Switching(given) /\ rest[i] = given[i + 1] BY <1>3
  <2>5. Leads(given) = LeadOf(given[i + 1]) BY <2>3, <2>4, LastLeads
  <2>6. Leads(rest) # "same" BY <1>1, <1>5, SameIsNone
  <2> QED BY <2>2, <2>4, <2>5, <2>6 DEF rest
<1>6. CASE Switching(rest) = {}
  <2>1. Leads(rest) = "same" BY <1>1, <1>6, SameIsNone
  <2>2. \A j \in Switching(given) : j = 1 BY <1>4, <1>6
  <2>3. CASE Head(given).pair \in SwitchPairs
    <3>1. 1 \in Switching(given) BY <1>1, <1>2, <2>3 DEF Switching, SwitchPairs
    <3>2. \A j \in Switching(given) : j <= 1 BY <2>2
    <3>3. Leads(given) = LeadOf(given[1]) BY <3>1, <3>2, LastLeads
    <3> QED BY <1>2, <2>1, <2>3, <3>3 DEF rest
  <2>4. CASE Head(given).pair \notin SwitchPairs
    <3>1. Switching(given) = {} BY <1>2, <2>2, <2>4 DEF Switching, SwitchPairs
    <3>2. Leads(given) = "same" BY <3>1, SameIsNone
    <3> QED BY <2>1, <2>4, <3>2 DEF rest
  <2> QED BY <2>3, <2>4
<1> QED BY <1>5, <1>6

LEMMA EmptyLeads == Leads(<<>>) = "same"
BY DEF Leads, Switching

(* A value that is replaced switched nothing that its successor does not. *)
LEMMA CoveredLeads ==
  ASSUME NEW S, NEW new \in Seq(S), NEW old \in Seq(S), Supersedes(new, old), Leads(new) = "same"
  PROVE  Leads(old) = "same"
<1>1. Switching(new) = {} BY SameIsNone
<1>2. "levelOnOff" \notin PairsHere(new) BY <1>1 DEF PairsHere, Switching
<1>3. LevelStrength(new) \in {0, 1} BY <1>2 DEF LevelStrength
<1>4. LevelStrength(old) \in {0, 1, 2} /\ LevelStrength(old) <= LevelStrength(new)
  BY DEF Supersedes, LevelStrength
<1>5. "levelOnOff" \notin PairsHere(old)
  <2>1. LevelStrength(old) # 2 BY <1>3, <1>4
  <2> QED BY <2>1 DEF LevelStrength
<1>6. PairsHere(old) \cap {"on", "off", "toggle"} = {} BY DEF Supersedes, Unslotted
<1>7. Switching(old) = {} BY <1>5, <1>6 DEF PairsHere, Switching
<1> QED BY <1>7, SameIsNone

----------------------------------------

(* Nothing happens at another lamp. *)
SameLamp(n) ==
    /\ power'[n] = power[n] /\ news'[n] = news[n] /\ reported'[n] = reported[n]
    /\ sentOn'[n] = sentOn[n] /\ reachable'[n] = reachable[n] /\ active'[n] = active[n]
    /\ waitingFor'[n] = waitingFor[n] /\ doing'[n] = doing[n] /\ ordersDue'[n] = ordersDue[n]
    /\ n \in blind' <=> n \in blind
SameRequests(n) == \A r \in Numbers :
    /\ result'[r][n] = result[r][n] /\ (n \in touched'[r] <=> n \in touched[r])
    /\ n \in left'[r] <=> n \in left[r]
Elsewhere(m) == \A n \in Lamps \ {m} : SameLamp(n) /\ SameRequests(n)

OneLamp(m) ==
    \/ WallSwitch(m) \/ ReportArrives(m) \/ SourceStops(m) \/ Removed(m)
    \/ Starts(m) \/ Sends(m) \/ NotSent(m) \/ Acknowledged(m) \/ TimesOut(m)
    \/ \E taken \in BOOLEAN : Fails(m, taken)

LEMMA NobodyIs == Nobody \in Doings
  BY DEF Nobody, Doings

LEMMA SpecSteps ==
  ASSUME LampNext
  PROVE  \/ \E k \in Keys : GroupCommand(k) \/ DeviceCommand(k)
         \/ \E r \in 1..MaxOrders : Answers(r)
         \/ \E m \in Lamps : OneLamp(m)
BY DEF LampNext, OneLamp

LEMMA WallThere ==
  ASSUME LampTypes, RequestTypes, NEW m \in Lamps, WallSwitch(m)
  PROVE  Elsewhere(m) /\ LampTypes' /\ RequestTypes' /\ orders' = orders
<1> USE DEF WallSwitch, Powered
<1>1. Elsewhere(m) BY DEF Elsewhere, SameLamp, SameRequests, LampTypes, RequestTypes
<1>2. RequestTypes' /\ orders' = orders BY DEF RequestTypes, Numbers
<1>3. news' \in [Lamps -> Seq(Reports)]
  <2>1. [on |-> ~power[m], wall |-> TRUE] \in Reports BY DEF LampTypes, Reports
  <2>2. Append(news[m], [on |-> ~power[m], wall |-> TRUE]) \in Seq(Reports)
    BY <2>1, AppendProperties DEF LampTypes
  <2> QED BY <2>2 DEF LampTypes
<1>4. LampTypes' BY <1>3 DEF LampTypes, Numbers
<1> QED BY <1>1, <1>2, <1>4

LEMMA ReportThere ==
  ASSUME LampTypes, RequestTypes, NEW m \in Lamps, ReportArrives(m)
  PROVE  Elsewhere(m) /\ LampTypes' /\ RequestTypes' /\ orders' = orders
<1> USE DEF ReportArrives
<1>1. Elsewhere(m) BY DEF Elsewhere, SameLamp, SameRequests, LampTypes, RequestTypes
<1>2. RequestTypes' /\ orders' = orders BY DEF RequestTypes, Numbers
<1>3. news' \in [Lamps -> Seq(Reports)]
  <2>2. Tail(news[m]) \in Seq(Reports) BY HeadTailProperties DEF LampTypes
  <2> QED BY <2>2 DEF LampTypes
<1>4. LampTypes' BY <1>3 DEF LampTypes, Numbers
<1> QED BY <1>1, <1>2, <1>4

LEMMA StopsThere ==
  ASSUME LampTypes, RequestTypes, LampWork, NEW m \in Lamps, SourceStops(m)
  PROVE  Elsewhere(m) /\ LampTypes' /\ RequestTypes' /\ orders' = orders
<1> USE DEF SourceStops
<1>0. doing[m].order # 0 => doing[m].order \in Numbers BY DEF LampWork, WorkAt, WorkOf, Numbers
<1>1. Elsewhere(m) BY <1>0 DEF Elsewhere, SameLamp, SameRequests, LampTypes, RequestTypes
<1>2. RequestTypes' /\ orders' = orders BY <1>0 DEF RequestTypes, Numbers
<1>4. LampTypes' BY DEF LampTypes, Numbers
<1> QED BY <1>1, <1>2, <1>4

LEMMA RemovedThere ==
  ASSUME LampTypes, RequestTypes, NEW m \in Lamps, Removed(m)
  PROVE  Elsewhere(m) /\ LampTypes' /\ RequestTypes' /\ orders' = orders
<1> USE DEF Removed
<1>1. Elsewhere(m) BY DEF Elsewhere, SameLamp, SameRequests, LampTypes, RequestTypes
<1>2. RequestTypes' /\ orders' = orders BY DEF RequestTypes, Numbers
<1>4. LampTypes' BY DEF LampTypes, Numbers
<1> QED BY <1>1, <1>2, <1>4

LEMMA PlanIs ==
  ASSUME RequestTypes, NEW m \in Lamps, NEW r \in Numbers
  PROVE  PlanOf(m, r) \in Seq(CallsMade)
<1>0. orders \in Seq([order : Orders, route : Routes]) /\ r \in 1..Len(orders)
  BY DEF RequestTypes, Numbers
<1>1. orders[r] \in [order : Orders, route : Routes] BY ONLY <1>0, ElementOfSeq
<1>2. orders[r].order \in Orders BY <1>1
<1> QED BY <1>2, LampsAssumption DEF PlanOf

LEMMA StartsThere ==
  ASSUME LampTypes, RequestTypes, NEW m \in Lamps, Starts(m)
  PROVE  Elsewhere(m) /\ LampTypes' /\ RequestTypes' /\ orders' = orders
<1>1. PICK r \in waitingFor[m] :
         /\ doing' = [doing EXCEPT ![m] = [Nobody EXCEPT !.order = r, !.calls = PlanOf(m, r)]]
         /\ waitingFor' = [waitingFor EXCEPT ![m] = @ \ {r}]
  BY DEF Starts
<1>2. r \in Numbers /\ r \in Nat BY DEF LampTypes, Numbers
<1>3. [Nobody EXCEPT !.order = r, !.calls = PlanOf(m, r)] \in Doings
  BY <1>2, PlanIs DEF Nobody, Doings
<1>4. UNCHANGED <<power, news, reported, sentOn, reachable, active, orders, result, answer,
                  touched, left, dark, ordersDue, walls, lampFaults, blind>>
  BY DEF Starts
<1>5. Elsewhere(m) BY <1>1, <1>4 DEF Elsewhere, SameLamp, SameRequests, LampTypes, RequestTypes
<1>6. RequestTypes' /\ orders' = orders BY <1>4 DEF RequestTypes, Numbers
<1>7. LampTypes' BY <1>1, <1>3, <1>4 DEF LampTypes, Numbers
<1> QED BY <1>5, <1>6, <1>7

LEMMA FlightSet ==
  ASSUME NEW f \in [Lamps -> Doings], NEW m \in Lamps, NEW a \in {"none", "on", "call"}
  PROVE  [f EXCEPT ![m].flight = a] \in [Lamps -> Doings]
BY DEF Doings

LEMMA SendsThere ==
  ASSUME LampTypes, RequestTypes, NEW m \in Lamps, Sends(m)
  PROVE  Elsewhere(m) /\ LampTypes' /\ RequestTypes' /\ orders' = orders
<1> USE DEF Sends
<1>1. Elsewhere(m) BY DEF Elsewhere, SameLamp, SameRequests, LampTypes, RequestTypes
<1>2. RequestTypes' /\ orders' = orders BY DEF RequestTypes, Numbers
<1>3. doing' \in [Lamps -> Doings]
  <2> DEFINE f == IF ~doing[m].onSent /\ NeedsOn(m, Head(doing[m].calls)) THEN "on" ELSE "call"
  <2>1. f \in {"none", "on", "call"} /\ doing' = [doing EXCEPT ![m].flight = f] OBVIOUS
  <2> HIDE DEF f
  <2>2. doing \in [Lamps -> Doings] BY DEF LampTypes
  <2> QED BY ONLY <2>1, <2>2, FlightSet, m \in Lamps
<1>4. LampTypes' BY <1>3 DEF LampTypes, Numbers
<1> QED BY <1>1, <1>2, <1>4

LEMMA NotSentThere ==
  ASSUME LampTypes, RequestTypes, LampWork, NEW m \in Lamps, NotSent(m)
  PROVE  Elsewhere(m) /\ LampTypes' /\ RequestTypes' /\ orders' = orders
<1> USE DEF NotSent, Ends
<1>0. doing[m].order \in Numbers BY DEF LampWork, WorkAt, WorkOf, Numbers
<1>1. Elsewhere(m) BY <1>0 DEF Elsewhere, SameLamp, SameRequests, LampTypes, RequestTypes
<1>2. RequestTypes' /\ orders' = orders BY <1>0 DEF RequestTypes, Numbers, LampResults
<1>4. LampTypes' BY NobodyIs DEF LampTypes, Numbers
<1> QED BY <1>1, <1>2, <1>4

LEMMA TimesOutThere ==
  ASSUME LampTypes, RequestTypes, NEW m \in Lamps, TimesOut(m)
  PROVE  Elsewhere(m) /\ LampTypes' /\ RequestTypes' /\ orders' = orders
<1>1. PICK r \in waitingFor[m] :
         /\ result' = [result EXCEPT ![r][m] = "unreachable"]
         /\ waitingFor' = [waitingFor EXCEPT ![m] = @ \ {r}]
  BY DEF TimesOut
<1>2. r \in Numbers BY DEF LampTypes
<1>3. /\ ordersDue' = [ordersDue EXCEPT ![m] = "any"]
      /\ UNCHANGED <<power, news, reported, sentOn, reachable, active, doing, orders, answer, touched,
                     left, dark, walls, blind>>
  BY DEF TimesOut
<1>5. Elsewhere(m)
  BY <1>1, <1>2, <1>3 DEF Elsewhere, SameLamp, SameRequests, LampTypes, RequestTypes
<1>6. RequestTypes' /\ orders' = orders BY <1>1, <1>2, <1>3 DEF RequestTypes, Numbers, LampResults
<1>7. LampTypes' BY <1>1, <1>3 DEF LampTypes, Numbers
<1> QED BY <1>5, <1>6, <1>7

(* What a lamp that takes a call changes. *)
LEMMA TakesThere ==
  ASSUME LampTypes, RequestTypes, LampWork, NEW m \in Lamps, NEW cmd, LampTakes(m, cmd), doing[m].order # 0
  PROVE  /\ power' \in [Lamps -> BOOLEAN] /\ news' \in [Lamps -> Seq(Reports)] /\ dark' \in SUBSET Lamps
         /\ touched' \in [Numbers -> SUBSET Lamps]
         /\ \A n \in Lamps \ {m} : power'[n] = power[n] /\ news'[n] = news[n]
         /\ \A n \in Lamps \ {m} : \A r \in Numbers : n \in touched'[r] <=> n \in touched[r]
         /\ \A r \in Numbers : m \in touched'[r] <=> r = doing[m].order \/ m \in touched[r]
<1>0. doing[m].order \in Numbers BY DEF LampWork, WorkAt, WorkOf, Numbers
<1>1. \A on \in BOOLEAN : Powered(m, on, FALSE) =>
         /\ power' \in [Lamps -> BOOLEAN] /\ news' \in [Lamps -> Seq(Reports)]
         /\ \A n \in Lamps \ {m} : power'[n] = power[n] /\ news'[n] = news[n]
  <2> SUFFICES ASSUME NEW on \in BOOLEAN, Powered(m, on, FALSE)
               PROVE  /\ power' \in [Lamps -> BOOLEAN] /\ news' \in [Lamps -> Seq(Reports)]
                      /\ \A n \in Lamps \ {m} : power'[n] = power[n] /\ news'[n] = news[n]
    OBVIOUS
  <2>1. [on |-> on, wall |-> FALSE] \in Reports BY DEF Reports
  <2>2. Append(news[m], [on |-> on, wall |-> FALSE]) \in Seq(Reports)
    BY <2>1, AppendProperties DEF LampTypes
  <2> QED BY <2>2 DEF LampTypes, Powered
<1>2. \/ \E on \in BOOLEAN : Powered(m, on, FALSE)
      \/ UNCHANGED <<power, news>>
  BY DEF LampTakes, LampTypes
<1>3. /\ power' \in [Lamps -> BOOLEAN] /\ news' \in [Lamps -> Seq(Reports)]
      /\ \A n \in Lamps \ {m} : power'[n] = power[n] /\ news'[n] = news[n]
  BY <1>1, <1>2 DEF LampTypes
<1>4. dark' \in SUBSET Lamps BY DEF LampTakes, LampTypes
<1>5. touched' = [touched EXCEPT ![doing[m].order] = @ \cup {m}] BY DEF LampTakes
<1>6. touched' \in [Numbers -> SUBSET Lamps] BY <1>0, <1>5 DEF RequestTypes
<1>7. /\ \A n \in Lamps \ {m} : \A r \in Numbers : n \in touched'[r] <=> n \in touched[r]
      /\ \A r \in Numbers : m \in touched'[r] <=> r = doing[m].order \/ m \in touched[r]
  BY <1>0, <1>5 DEF RequestTypes
<1> QED BY <1>3, <1>4, <1>6, <1>7

LEMMA RemembersThere ==
  ASSUME LampTypes, NEW m \in Lamps, NEW cmd, Remembers(m, cmd)
  PROVE  /\ sentOn' \in [Lamps -> {"none", "on", "off"}]
         /\ \A n \in Lamps \ {m} : sentOn'[n] = sentOn[n]
<1> DEFINE new == CASE cmd.pair = "toggle" -> "none"
          [] cmd.pair = "on" \/ Lights(cmd) -> "on"
          [] Darkens(cmd) -> "off"
          [] OTHER -> sentOn[m]
<1>1. new \in {"none", "on", "off"} BY DEF LampTypes
<1>2. sentOn' = [sentOn EXCEPT ![m] = new] BY DEF Remembers
<1> HIDE DEF new
<1> QED BY <1>1, <1>2 DEF LampTypes

LEMMA AcknowledgedThere ==
  ASSUME LampTypes, RequestTypes, LampWork, NEW m \in Lamps, Acknowledged(m)
  PROVE  Elsewhere(m) /\ LampTypes' /\ RequestTypes' /\ orders' = orders
<1>0. doing[m].order \in Numbers /\ doing[m].order # 0 /\ doing[m] \in Doings
  BY DEF LampWork, WorkAt, WorkOf, Numbers, Acknowledged, Nobody, LampTypes
<1>1. LampTakes(m, Flying(m)) /\ Remembers(m, Flying(m))
      /\ UNCHANGED <<reported, reachable, active, waitingFor, orders, answer, left, ordersDue, walls, lampFaults, blind>>
  BY DEF Acknowledged
<1>2. /\ power' \in [Lamps -> BOOLEAN] /\ news' \in [Lamps -> Seq(Reports)] /\ dark' \in SUBSET Lamps
      /\ touched' \in [Numbers -> SUBSET Lamps]
      /\ \A n \in Lamps \ {m} : power'[n] = power[n] /\ news'[n] = news[n]
      /\ \A n \in Lamps \ {m} : \A r \in Numbers : n \in touched'[r] <=> n \in touched[r]
  BY <1>0, <1>1, TakesThere
<1>3. /\ sentOn' \in [Lamps -> {"none", "on", "off"}]
      /\ \A n \in Lamps \ {m} : sentOn'[n] = sentOn[n]
  BY <1>1, RemembersThere
<1> DEFINE c == IF doing[m].flight = "on" THEN doing[m].calls ELSE Tail(doing[m].calls)
           new == [order |-> doing[m].order, calls |-> c, flight |-> "none", onSent |-> doing[m].flight = "on"]
<1>4. Ends(m, "ok") \/ (UNCHANGED result /\ doing' = [doing EXCEPT ![m] = new]) BY DEF Acknowledged
<1>5. /\ doing' \in [Lamps -> Doings] /\ \A n \in Lamps \ {m} : doing'[n] = doing[n]
      /\ result' \in [Numbers -> [Lamps -> LampResults]] /\ DOMAIN result' = Numbers
      /\ \A n \in Lamps \ {m} : \A r \in Numbers : result'[r][n] = result[r][n]
  <2>1. CASE Ends(m, "ok") BY <1>0, <2>1, NobodyIs DEF Ends, LampTypes, RequestTypes, LampResults
  <2>2. CASE UNCHANGED result /\ doing' = [doing EXCEPT ![m] = new]
    <3>1. doing[m].calls # <<>> BY <1>0 DEF LampWork, WorkAt, WorkOf
    <3>2. c \in Seq(CallsMade) BY <1>0, <3>1, HeadTailProperties DEF Doings
    <3> HIDE DEF c
    <3>3. new \in Doings BY <1>0, <3>2 DEF Doings
    <3> HIDE DEF new
    <3> QED BY <2>2, <3>3 DEF LampTypes, RequestTypes
  <2> QED BY <1>4, <2>1, <2>2
<1> HIDE DEF c, new
<1>6. Elsewhere(m) BY <1>1, <1>2, <1>3, <1>5 DEF Elsewhere, SameLamp, SameRequests
<1>7. RequestTypes' /\ orders' = orders BY <1>1, <1>2, <1>5 DEF RequestTypes, Numbers
<1>8. LampTypes' BY <1>1, <1>2, <1>3, <1>5 DEF LampTypes, Numbers
<1> QED BY <1>6, <1>7, <1>8

LEMMA FailsThere ==
  ASSUME LampTypes, RequestTypes, LampWork, NEW m \in Lamps, NEW taken \in BOOLEAN, Fails(m, taken)
  PROVE  Elsewhere(m) /\ LampTypes' /\ RequestTypes' /\ orders' = orders
<1>0. doing[m].order \in Numbers /\ doing[m].order # 0 /\ doing[m] \in Doings
  BY DEF LampWork, WorkAt, WorkOf, Numbers, Fails, Nobody, LampTypes
<1>1. /\ \/ LampTakes(m, Flying(m))
         \/ UNCHANGED <<power, news, dark, touched>>
      /\ ForgetsOrders(m) /\ Ends(m, "unreachable") /\ ordersDue' = [ordersDue EXCEPT ![m] = "any"]
      /\ UNCHANGED <<reported, reachable, active, waitingFor, orders, answer, left, walls, blind>>
  BY DEF Fails
<1>2. /\ power' \in [Lamps -> BOOLEAN] /\ news' \in [Lamps -> Seq(Reports)] /\ dark' \in SUBSET Lamps
      /\ touched' \in [Numbers -> SUBSET Lamps]
      /\ \A n \in Lamps \ {m} : power'[n] = power[n] /\ news'[n] = news[n]
      /\ \A n \in Lamps \ {m} : \A r \in Numbers : n \in touched'[r] <=> n \in touched[r]
  <2>1. CASE LampTakes(m, Flying(m)) BY <1>0, <2>1, TakesThere
  <2>2. CASE UNCHANGED <<power, news, dark, touched>> BY <2>2 DEF LampTypes, RequestTypes
  <2> QED BY <1>1, <2>1, <2>2
<1>5. /\ doing' \in [Lamps -> Doings] /\ \A n \in Lamps \ {m} : doing'[n] = doing[n]
      /\ result' \in [Numbers -> [Lamps -> LampResults]] /\ DOMAIN result' = Numbers
      /\ \A n \in Lamps \ {m} : \A r \in Numbers : result'[r][n] = result[r][n]
  BY <1>0, <1>1, NobodyIs DEF Ends, LampTypes, RequestTypes, LampResults
<1>3. /\ sentOn' \in [Lamps -> {"none", "on", "off"}] /\ ordersDue' \in [Lamps -> {"any", "on", "off"}]
      /\ \A n \in Lamps \ {m} : sentOn'[n] = sentOn[n] /\ ordersDue'[n] = ordersDue[n]
  BY <1>1 DEF ForgetsOrders, LampTypes
<1>6. Elsewhere(m) BY <1>1, <1>2, <1>3, <1>5 DEF Elsewhere, SameLamp, SameRequests
<1>7. RequestTypes' /\ orders' = orders BY <1>1, <1>2, <1>5 DEF RequestTypes, Numbers
<1>8. LampTypes' BY <1>1, <1>2, <1>3, <1>5 DEF LampTypes, Numbers
<1> QED BY <1>6, <1>7, <1>8

LEMMA OneLampThere ==
  ASSUME LampTypes, RequestTypes, LampWork, NEW m \in Lamps, OneLamp(m)
  PROVE  Elsewhere(m) /\ LampTypes' /\ RequestTypes' /\ orders' = orders
BY WallThere, ReportThere, StopsThere, RemovedThere, StartsThere, SendsThere, NotSentThere,
   AcknowledgedThere, TimesOutThere, FailsThere DEF OneLamp

----------------------------------------

LEMMA NumbersAre ==
  ASSUME RequestTypes
  PROVE  Len(orders) \in Nat /\ Numbers = 1..Len(orders) /\ Numbers \subseteq Nat /\ 0 \notin Numbers
<1>0. orders \in Seq([order : Orders, route : Routes]) BY DEF RequestTypes
<1>1. Len(orders) \in Nat BY ONLY <1>0, LenProperties
<1> QED BY <1>1 DEF Numbers

LEMMA TakesAt ==
  ASSUME LampTypes, NEW m \in Lamps, NEW cmd, LampTakes(m, cmd)
  PROVE  /\ cmd.pair \in SwitchPairs => LeadOf(cmd) = "any" \/ power'[m] = (LeadOf(cmd) = "on")
         /\ cmd.pair \notin SwitchPairs => power'[m] = power[m] /\ news'[m] = news[m]
         /\ cmd.pair = "on" \/ Lights(cmd) => power'[m]
         /\ \A i \in DOMAIN news'[m] : news'[m][i].wall => \E j \in DOMAIN news[m] : news[m][j].wall
         /\ (Lights(cmd) /\ active[m] /\ m \notin blind => power[m]) => dark' = dark
<1>1. \A on \in BOOLEAN : Powered(m, on, FALSE) =>
         /\ power'[m] = on
         /\ \A i \in DOMAIN news'[m] : news'[m][i].wall => \E j \in DOMAIN news[m] : news[m][j].wall
  <2> SUFFICES ASSUME NEW on \in BOOLEAN, Powered(m, on, FALSE)
               PROVE  /\ power'[m] = on
                      /\ \A i \in DOMAIN news'[m] : news'[m][i].wall => \E j \in DOMAIN news[m] : news[m][j].wall
    OBVIOUS
  <2> DEFINE e == [on |-> on, wall |-> FALSE]
             more == Append(news[m], e)
  <2>1. e \in Reports /\ ~e.wall /\ news[m] \in Seq(Reports) BY DEF Reports, LampTypes
  <2>2. news'[m] \in {news[m], more} /\ power'[m] = on BY DEF Powered, LampTypes
  <2> HIDE DEF e
  <2>3. /\ more \in Seq(Reports) /\ Len(more) = Len(news[m]) + 1 /\ Len(news[m]) \in Nat
        /\ \A i \in 1..Len(news[m]) : more[i] = news[m][i]
        /\ more[Len(news[m]) + 1] = e
    BY <2>1, AppendProperties
  <2> HIDE DEF more
  <2>4. \A i \in DOMAIN more : more[i].wall => \E j \in DOMAIN news[m] : news[m][j].wall
    BY <2>1, <2>3
  <2> QED BY <2>2, <2>4
<1>2. cmd.pair = "toggle" => Powered(m, ~power[m], FALSE) BY DEF LampTakes, Lights, Darkens
<1>3. cmd.pair = "on" \/ Lights(cmd) => Powered(m, TRUE, FALSE) BY DEF LampTakes, Lights, Darkens
<1>4. Darkens(cmd) => Powered(m, FALSE, FALSE) BY DEF LampTakes, Lights, Darkens
<1>5. cmd.pair \notin SwitchPairs => UNCHANGED <<power, news>>
  BY DEF LampTakes, Lights, Darkens, SwitchPairs
<1>6. cmd.pair = "toggle" \/ cmd.pair = "on" \/ Lights(cmd) \/ Darkens(cmd) \/ cmd.pair \notin SwitchPairs
  BY DEF Lights, Darkens, SwitchPairs
<1>7. /\ cmd.pair = "toggle" => LeadOf(cmd) = "any"
      /\ cmd.pair = "on" \/ Lights(cmd) => LeadOf(cmd) = "on" /\ cmd.pair \in SwitchPairs
      /\ Darkens(cmd) => LeadOf(cmd) = "off" /\ cmd.pair \in SwitchPairs
  BY DEF LeadOf, Lights, Darkens, SwitchPairs
<1>8. (Lights(cmd) /\ active[m] /\ m \notin blind => power[m]) => dark' = dark BY DEF LampTakes
<1>9. power[m] \in BOOLEAN BY DEF LampTypes
<1> HIDE DEF LampTakes
<1>10. cmd.pair \in SwitchPairs => LeadOf(cmd) = "any" \/ power'[m] = (LeadOf(cmd) = "on")
  BY <1>1, <1>3, <1>4, <1>6, <1>7
<1>11. \A i \in DOMAIN news'[m] : news'[m][i].wall => \E j \in DOMAIN news[m] : news[m][j].wall
  BY <1>1, <1>2, <1>3, <1>4, <1>5, <1>6, <1>9
<1>12. cmd.pair = "on" \/ Lights(cmd) => power'[m] BY <1>1, <1>3
<1> QED BY <1>5, <1>8, <1>10, <1>11, <1>12

LEMMA RemembersAt ==
  ASSUME LampTypes, NEW m \in Lamps, NEW cmd, Remembers(m, cmd)
  PROVE  sentOn'[m] = "on" => cmd.pair = "on" \/ Lights(cmd) \/ (cmd.pair \notin SwitchPairs /\ sentOn[m] = "on")
BY DEF Remembers, LampTypes, Lights, Darkens, SwitchPairs

(* What another lamp does leaves this one alone. *)
LEMMA ElsewhereKeeps ==
  ASSUME LampTypes, RequestTypes, RequestTypes', NEW n \in Lamps, SameLamp(n), SameRequests(n), orders' = orders,
         WorkAt(n), LampAt(n)
  PROVE  WorkAt(n)' /\ LampAt(n)'
<1> USE DEF SameLamp, SameRequests
<1>0. Numbers' = Numbers BY DEF Numbers
<1>1. WorkAt(n)' BY DEF WorkAt, WorkOf, PlanOf
<1>2. PlaceAt(n)' BY <1>0 DEF LampAt, PlaceAt
<1>3. LightAt(n)' BY DEF LampAt, LightAt, KnownOff
<1>4. TouchedAt(n)' BY <1>0 DEF LampAt, TouchedAt, TouchedIn
<1>5. DueAt(n)' BY DEF LampAt, DueAt, AllSame, LeadsOf, PlanOf
<1> QED BY <1>1, <1>2, <1>3, <1>4, <1>5 DEF LampAt

----------------------------------------
(* The steps at one lamp, at that lamp. *)

LEMMA WallKeeps ==
  ASSUME LampInv, NEW m \in Lamps, WallSwitch(m)
  PROVE  WorkAt(m)' /\ LampAt(m)' /\ dark' = {}
<1> DEFINE e == [on |-> ~power[m], wall |-> TRUE]
           more == Append(news[m], e)
<1>1. /\ power'[m] = ~power[m] /\ news'[m] = more /\ m \in blind' /\ ordersDue'[m] = "any"
      /\ UNCHANGED <<reported, sentOn, reachable, active, waitingFor, doing, orders, result, answer,
                     touched, left, dark>>
  BY DEF WallSwitch, Powered, LampInv, LampTypes
<1>2. e \in Reports /\ news[m] \in Seq(Reports) /\ e.wall /\ e.on = ~power[m] /\ power[m] \in BOOLEAN
  BY DEF Reports, LampInv, LampTypes
<1> HIDE DEF e
<1>3. more # <<>> /\ Len(more) = Len(news[m]) + 1 /\ more[Len(news[m]) + 1] = e /\ Len(news[m]) \in Nat
  BY <1>2, AppendProperties
<1> HIDE DEF more
<1>4. LightAt(m)' BY <1>1, <1>2, <1>3 DEF LightAt, KnownOff
<1>5. WorkAt(m)' /\ PlaceAt(m)' /\ TouchedAt(m)' /\ DueAt(m)'
  BY <1>1 DEF LampInv, LampWork, LampAt, WorkAt, WorkOf, PlanOf, PlaceAt, TouchedAt, TouchedIn, DueAt, Numbers
<1> QED BY <1>1, <1>4, <1>5 DEF LampAt, LampInv

LEMMA ReportKeeps ==
  ASSUME LampInv, NEW m \in Lamps, ReportArrives(m)
  PROVE  WorkAt(m)' /\ LampAt(m)' /\ dark' = {}
<1>1. /\ news[m] # <<>> /\ news'[m] = Tail(news[m])
      /\ reported'[m] = (IF Head(news[m]).on THEN "on" ELSE "off")
      /\ UNCHANGED <<power, sentOn, reachable, active, waitingFor, doing, orders, result, answer,
                   touched, left, dark, ordersDue, blind>>
  BY DEF ReportArrives, LampInv, LampTypes
<1>2. news[m] \in Seq(Reports) BY DEF LampInv, LampTypes
<1>3. /\ Tail(news[m]) \in Seq(Reports) /\ Len(Tail(news[m])) = Len(news[m]) - 1
      /\ \A i \in 1..Len(Tail(news[m])) : Tail(news[m])[i] = news[m][i + 1]
      /\ Len(news[m]) \in Nat /\ Len(news[m]) > 0
  BY <1>1, <1>2, HeadTailProperties
<1>4. KnownOff(m) => KnownOff(m)'
  <2>1. CASE Len(news[m]) = 1
    <3>2. Len(Tail(news[m])) = 0 BY <1>3, <2>1
    <3>3. Tail(news[m]) = <<>> BY ONLY <1>3, <3>2, EmptySeq
    <3>1. Tail(news[m]) = <<>> /\ Head(news[m]) = news[m][1] BY <1>2, <1>3, <3>3
    <3> QED BY <1>1, <2>1, <3>1 DEF KnownOff
  <2>2. CASE Len(news[m]) # 1
    <3> DEFINE k == Len(Tail(news[m]))
               l == Len(news[m])
    <3>2. k \in Int /\ l \in Nat /\ k = l - 1 /\ l > 0 /\ l # 1 BY <1>3, <2>2
    <3>3. \A i \in 1..k : Tail(news[m])[i] = news[m][i + 1] BY <1>3
    <3> HIDE DEF k, l
    <3>4. k \in 1..k /\ k + 1 = l /\ k # 0 BY ONLY <3>2
    <3>5. Tail(news[m])[k] = news[m][l] BY ONLY <3>3, <3>4
    <3>1. Tail(news[m]) # <<>> /\ Tail(news[m])[Len(Tail(news[m]))] = news[m][Len(news[m])]
      BY <3>4, <3>5, EmptySeq DEF k, l
    <3> QED BY <1>1, <3>1 DEF KnownOff
  <2> QED BY <2>1, <2>2
<1>5. \A i \in DOMAIN Tail(news[m]) : \E j \in DOMAIN news[m] : Tail(news[m])[i] = news[m][j]
  <2> TAKE i \in DOMAIN Tail(news[m])
  <2>1. i \in 1..Len(Tail(news[m])) /\ i + 1 \in 1..Len(news[m]) /\ DOMAIN news[m] = 1..Len(news[m])
    BY <1>2, <1>3
  <2> QED BY <1>3, <2>1
<1>6. LightAt(m)' BY <1>1, <1>4, <1>5 DEF LampInv, LampAt, LightAt
<1>7. WorkAt(m)' /\ PlaceAt(m)' /\ TouchedAt(m)' /\ DueAt(m)'
  BY <1>1 DEF LampInv, LampWork, LampAt, WorkAt, WorkOf, PlanOf, PlaceAt, TouchedAt, TouchedIn,
     DueAt, AllSame, LeadsOf, Numbers
<1> QED BY <1>1, <1>6, <1>7 DEF LampAt, LampInv

LEMMA StopsKeeps ==
  ASSUME LampInv, NEW m \in Lamps, SourceStops(m)
  PROVE  WorkAt(m)' /\ LampAt(m)' /\ dark' = {}
<1>0. doing[m].order # 0 => doing[m].order \in Numbers
  BY DEF LampInv, LampWork, WorkAt, WorkOf, Numbers
<1>1. /\ \A r \in Numbers : m \in left'[r] <=> (r = doing[m].order \/ m \in left[r])
      /\ UNCHANGED <<power, news, reported, sentOn, active, waitingFor, doing, orders, result,
                   answer, touched, dark, ordersDue, blind>>
  <2>1. left' = IF doing[m].order = 0 THEN left ELSE [left EXCEPT ![doing[m].order] = @ \cup {m}]
    BY DEF SourceStops
  <2>2. left \in [Numbers -> SUBSET Lamps] /\ 0 \notin Numbers
    BY NumbersAre DEF LampInv, RequestTypes
  <2>3. \A r \in Numbers : m \in left'[r] <=> (r = doing[m].order \/ m \in left[r])
    BY <1>0, <2>1, <2>2
  <2> QED BY <2>3 DEF SourceStops
<1>2. TouchedAt(m)' BY <1>1 DEF LampInv, LampAt, TouchedAt, TouchedIn, Numbers
<1>3. WorkAt(m)' /\ PlaceAt(m)' /\ LightAt(m)' /\ DueAt(m)'
  BY <1>1 DEF LampInv, LampWork, LampAt, WorkAt, WorkOf, PlanOf, PlaceAt, LightAt, KnownOff, DueAt,
     AllSame, LeadsOf, Numbers
<1> QED BY <1>1, <1>2, <1>3 DEF LampAt, LampInv

LEMMA RemovedKeeps ==
  ASSUME LampInv, NEW m \in Lamps, Removed(m)
  PROVE  WorkAt(m)' /\ LampAt(m)' /\ dark' = {}
<1>1. /\ ~active'[m]
      /\ UNCHANGED <<power, news, reported, sentOn, reachable, waitingFor, doing, orders, result,
                   answer, touched, left, dark, ordersDue, walls, blind>>
  BY DEF Removed, LampInv, LampTypes
<1>2. LightAt(m)' BY <1>1 DEF LampInv, LampAt, LightAt, KnownOff
<1>3. WorkAt(m)' /\ PlaceAt(m)' /\ TouchedAt(m)' /\ DueAt(m)'
  BY <1>1 DEF LampInv, LampWork, LampAt, WorkAt, WorkOf, PlanOf, PlaceAt, TouchedAt, TouchedIn,
     DueAt, AllSame, LeadsOf, Numbers
<1> QED BY <1>1, <1>2, <1>3 DEF LampAt, LampInv

LEMMA StartsKeeps ==
  ASSUME LampInv, NEW m \in Lamps, Starts(m)
  PROVE  WorkAt(m)' /\ LampAt(m)' /\ dark' = {}
<1>1. PICK r \in waitingFor[m] :
         /\ IsNext(m, r)
         /\ doing' = [doing EXCEPT ![m] = [Nobody EXCEPT !.order = r, !.calls = PlanOf(m, r)]]
         /\ waitingFor' = [waitingFor EXCEPT ![m] = @ \ {r}]
  BY DEF Starts
<1>2. /\ doing[m] = Nobody
      /\ UNCHANGED <<power, news, reported, sentOn, reachable, active, orders, result, answer,
                     touched, left, dark, ordersDue, blind>>
  BY DEF Starts
<1>3. /\ doing'[m] = [order |-> r, calls |-> PlanOf(m, r), flight |-> "none", onSent |-> FALSE]
      /\ waitingFor'[m] = waitingFor[m] \ {r}
  BY <1>1 DEF LampInv, LampTypes, Nobody
<1>4. /\ r \in Numbers /\ r \in 1..Len(orders) /\ waitingFor[m] \subseteq Numbers /\ Numbers \subseteq Nat
      /\ \A w \in waitingFor[m] : r <= w /\ PlanOf(m, w) # <<>>
      /\ Numbers' = Numbers
  BY <1>1, <1>2 DEF LampInv, LampTypes, LampWork, WorkAt, Numbers, IsNext
<1>5. \A w \in waitingFor[m] : PlanOf(m, w)' = PlanOf(m, w) BY <1>2 DEF PlanOf
<1>11. \A w \in waitingFor[m] : w # r => w \in Nat /\ r < w
  <2> SUFFICES ASSUME NEW w \in waitingFor[m], w # r PROVE w \in Nat /\ r < w OBVIOUS
  <2>1. w \in Nat /\ r \in Nat BY <1>4
  <2>2. r <= w BY <1>4
  <2> QED BY ONLY <2>1, <2>2, w # r
<1>6. WorkAt(m)'
  <2>1. doing'[m].order \in 0..Len(orders') /\ doing'[m].order # 0 /\ doing'[m].calls # <<>>
        /\ ~doing'[m].onSent /\ doing'[m].flight # "on"
    BY <1>2, <1>3, <1>4
  <2>2. \A w \in waitingFor'[m] : doing'[m].order < w /\ PlanOf(m, w)' # <<>>
    BY <1>3, <1>4, <1>5, <1>11
  <2> QED BY <2>1, <2>2 DEF WorkAt, WorkOf
<1>7. PlaceAt(m)'
  <2>1. \A s \in Numbers : result[s][m] = "pending" <=> s \in waitingFor[m]
    <3>1. 0 \notin Numbers BY NumbersAre DEF LampInv
    <3> QED BY <1>2, <3>1 DEF LampInv, LampAt, PlaceAt, Nobody
  <2>2. \A s : s \in waitingFor[m] <=> (doing'[m].order = s \/ s \in waitingFor'[m]) BY <1>3
  <2> QED BY <1>2, <1>4, <2>1, <2>2 DEF PlaceAt
<1>8. LightAt(m)' BY <1>2, <1>3 DEF LampInv, LampAt, LightAt, KnownOff
<1>9. TouchedAt(m)'
  <2> SUFFICES ASSUME NEW s \in Numbers PROVE TouchedIn(s, m)' BY <1>4 DEF TouchedAt
  <2>1. TouchedIn(s, m) BY DEF LampInv, LampAt, TouchedAt
  <2>2. doing'[m].order = s => s \in waitingFor[m] /\ doing'[m].flight = "none" BY <1>3
  <2>3. s \in waitingFor'[m] => s \in waitingFor[m] BY <1>3
  <2> QED BY <1>2, <2>1, <2>2, <2>3 DEF TouchedIn
<1>10. DueAt(m)'
  <2> SUFFICES ASSUME ordersDue[m] # "any"
               PROVE  /\ \A w \in waitingFor'[m] :
                           LeadsOf(m, w)' # "same" /\ (\A v \in waitingFor'[m] : v > w => LeadsOf(m, v)' = "same")
                             => LeadsOf(m, w)' = ordersDue[m]
                      /\ AllSame(m)' => IF doing'[m].order # 0 /\ Leads(doing'[m].calls) # "same"
                                        THEN Leads(doing'[m].calls) = ordersDue[m]
                                        ELSE power[m] = (ordersDue[m] = "on")
    BY <1>2 DEF DueAt
  <2>1. \A w \in waitingFor[m] : LeadsOf(m, w)' = LeadsOf(m, w) BY <1>5 DEF LeadsOf
  <2>2. /\ \A w \in waitingFor[m] :
             LeadsOf(m, w) # "same" /\ (\A v \in waitingFor[m] : v > w => LeadsOf(m, v) = "same")
               => LeadsOf(m, w) = ordersDue[m]
        /\ AllSame(m) => power[m] = (ordersDue[m] = "on")
    BY <1>2 DEF LampInv, LampAt, DueAt, Nobody
  <2>3. \A w \in waitingFor'[m] : w \in waitingFor[m] /\ \A v \in waitingFor[m] : v > w => v \in waitingFor'[m]
    BY <1>3, <1>4, <1>11
  <2>4. \A w \in waitingFor'[m] :
           LeadsOf(m, w)' # "same" /\ (\A v \in waitingFor'[m] : v > w => LeadsOf(m, v)' = "same")
              => LeadsOf(m, w)' = ordersDue[m]
    BY <2>1, <2>2, <2>3
  <2>5. ASSUME AllSame(m)'
        PROVE  IF doing'[m].order # 0 /\ Leads(doing'[m].calls) # "same"
               THEN Leads(doing'[m].calls) = ordersDue[m]
               ELSE power[m] = (ordersDue[m] = "on")
    <3>1. \A w \in waitingFor[m] : w # r => LeadsOf(m, w) = "same" BY <1>3, <2>1, <2>5 DEF AllSame
    <3>2. doing'[m].order # 0 /\ Leads(doing'[m].calls) = LeadsOf(m, r) BY <1>3, <1>4 DEF LeadsOf
    <3>3. CASE LeadsOf(m, r) = "same" BY <2>2, <3>1, <3>2, <3>3 DEF AllSame
    <3>4. CASE LeadsOf(m, r) # "same"
      <4>1. \A v \in waitingFor[m] : v > r => LeadsOf(m, v) = "same" BY <1>4, <3>1
      <4> QED BY <2>2, <3>2, <3>4, <4>1
    <3> QED BY <3>3, <3>4
  <2> QED BY <2>4, <2>5
<1> QED BY <1>2, <1>6, <1>7, <1>8, <1>9, <1>10 DEF LampAt, LampInv

----------------------------------------

LEMMA SendsKeeps ==
  ASSUME LampInv, NEW m \in Lamps, Sends(m)
  PROVE  WorkAt(m)' /\ LampAt(m)' /\ dark' = {}
<1> DEFINE first == ~doing[m].onSent /\ NeedsOn(m, Head(doing[m].calls))
           f == IF first THEN "on" ELSE "call"
<1>1. /\ doing[m].order # 0 /\ doing[m].flight = "none" /\ reachable[m]
      /\ doing' = [doing EXCEPT ![m].flight = f]
      /\ blind' = (IF doing[m].onSent \/ \E i \in DOMAIN news[m] : news[m][i].wall
                   THEN blind ELSE blind \ {m})
      /\ UNCHANGED <<power, news, reported, sentOn, reachable, active, waitingFor, orders, result,
                     answer, touched, left, dark, ordersDue>>
  BY DEF Sends
<1>2. doing \in [Lamps -> Doings] BY DEF LampInv, LampTypes
<1>3. /\ doing'[m].order = doing[m].order /\ doing'[m].calls = doing[m].calls
      /\ doing'[m].flight = f /\ doing'[m].onSent = doing[m].onSent /\ f \in {"on", "call"}
  <2>1. doing[m] \in Doings /\ doing'[m] = [doing[m] EXCEPT !.flight = f] BY <1>1, <1>2
  <2> HIDE DEF f
  <2>2. f \in {"on", "call"} BY DEF f
  <2> QED BY <2>1, <2>2 DEF Doings
<1>4. /\ f = "on" <=> first
      /\ first => Lights(Head(doing[m].calls))
  BY DEF NeedsOn
<1>5. WorkAt(m)'
  <2>1. WorkAt(m) BY DEF LampInv, LampWork
  <2>2. \A w : PlanOf(m, w)' = PlanOf(m, w) BY <1>1 DEF PlanOf
  <2>3. WorkOf(doing[m])' BY <1>1, <1>3, <1>4, <2>1 DEF WorkAt, WorkOf
  <2> QED BY <1>1, <1>3, <2>1, <2>2, <2>3 DEF WorkAt
<1>6. PlaceAt(m)' BY <1>1, <1>3 DEF LampInv, LampAt, PlaceAt, Numbers
<1>7. LightAt(m)'
  <2>1. LightAt(m) BY DEF LampInv, LampAt
  <2>2. (sentOn[m] = "on" /\ ~power[m] => KnownOff(m))' /\ (\A i \in DOMAIN news[m] : news[m][i].wall => m \in blind)'
    BY <1>1, <2>1 DEF LightAt, KnownOff
  <2>3. (doing[m].onSent /\ m \notin blind => power[m])' BY <1>1, <1>3, <2>1 DEF LightAt
  <2>4. (doing[m].flight = "call" /\ Lights(Head(doing[m].calls)) /\ active[m] /\ m \notin blind => power[m])'
    <3> SUFFICES ASSUME f = "call", Lights(Head(doing[m].calls)), active[m], m \notin blind'
                 PROVE  power[m]
      BY <1>1, <1>3
    <3>1. CASE doing[m].onSent BY <1>1, <2>1, <3>1 DEF LightAt
    <3>2. CASE ~doing[m].onSent
      <4>1. sentOn[m] = "on" /\ reported[m] # "off" BY <3>2 DEF NeedsOn
      <4>2. \A i \in DOMAIN news[m] : ~news[m][i].wall BY <1>1, <2>1 DEF LightAt
      <4>3. news[m] \in Seq(Reports) /\ power[m] \in BOOLEAN BY DEF LampInv, LampTypes
      <4>4. news[m] # <<>> => Len(news[m]) \in DOMAIN news[m] BY <4>3, EmptySeq
      <4>5. ~KnownOff(m) BY <4>1, <4>2, <4>4 DEF KnownOff
      <4> QED BY <2>1, <4>1, <4>3, <4>5 DEF LightAt
    <3> QED BY <3>1, <3>2
  <2> QED BY <2>2, <2>3, <2>4 DEF LightAt
<1>8. TouchedAt(m)'
  <2> SUFFICES ASSUME NEW s \in Numbers PROVE TouchedIn(s, m)' BY <1>1 DEF TouchedAt, Numbers
  <2>1. TouchedIn(s, m) BY DEF LampInv, LampAt, TouchedAt
  <2> QED BY <1>1, <1>3, <2>1 DEF TouchedIn
<1>9. DueAt(m)' BY <1>1, <1>3 DEF LampInv, LampAt, DueAt, AllSame, LeadsOf, PlanOf
<1> QED BY <1>1, <1>5, <1>6, <1>7, <1>8, <1>9 DEF LampAt, LampInv

(* The end of a request at a lamp. *)
LEMMA EndsAt ==
  ASSUME LampInv, NEW m \in Lamps, NEW how \in LampResults \ {"pending"}, Ends(m, how), doing[m].order # 0
  PROVE  /\ doing[m].order \in Numbers /\ doing'[m] = Nobody
         /\ \A r \in Numbers : result'[r][m] = IF r = doing[m].order THEN how ELSE result[r][m]
         /\ doing[m].order \notin waitingFor[m] /\ result[doing[m].order][m] = "pending"
<1>1. WorkAt(m) /\ PlaceAt(m) BY DEF LampInv, LampWork, LampAt
<1>2. Len(orders) \in Nat /\ Numbers = 1..Len(orders) /\ Numbers \subseteq Nat
  BY NumbersAre DEF LampInv
<1>3. doing[m].order \in Numbers BY <1>1, <1>2 DEF WorkAt, WorkOf
<1>4. doing'[m] = Nobody BY DEF Ends, LampInv, LampTypes
<1>5. \A r \in Numbers : result'[r][m] = IF r = doing[m].order THEN how ELSE result[r][m]
  BY <1>3 DEF Ends, LampInv, RequestTypes
<1>6. doing[m].order \notin waitingFor[m]
  <2>1. \A w \in waitingFor[m] : doing[m].order < w BY <1>1 DEF WorkAt
  <2> QED BY <1>2, <1>3, <2>1
<1>7. result[doing[m].order][m] = "pending" BY <1>1, <1>3 DEF PlaceAt
<1> QED BY <1>3, <1>4, <1>5, <1>6, <1>7

LEMMA EndsKeeps ==
  ASSUME LampInv, NEW m \in Lamps, NEW how \in LampResults \ {"pending"}, Ends(m, how), doing[m].order # 0,
         waitingFor'[m] = waitingFor[m], orders' = orders
  PROVE  WorkAt(m)' /\ PlaceAt(m)' /\ doing[m].order \in Numbers /\ doing'[m] = Nobody
<1>1. /\ doing[m].order \in Numbers /\ doing'[m] = Nobody
      /\ \A r \in Numbers : result'[r][m] = IF r = doing[m].order THEN how ELSE result[r][m]
      /\ doing[m].order \notin waitingFor[m] /\ result[doing[m].order][m] = "pending"
  BY EndsAt
<1>2. WorkAt(m) /\ PlaceAt(m) /\ waitingFor[m] \subseteq Numbers
  BY DEF LampInv, LampWork, LampAt, LampTypes
<1>3. Len(orders) \in Nat /\ Numbers = 1..Len(orders) /\ Numbers \subseteq Nat /\ 0 \notin Numbers /\ Numbers' = Numbers
  BY NumbersAre DEF LampInv, Numbers
<1>4. WorkAt(m)'
  <2>1. \A w \in waitingFor[m] : PlanOf(m, w)' = PlanOf(m, w) /\ PlanOf(m, w) # <<>>
    BY <1>2 DEF PlanOf, WorkAt
  <2>2. \A w \in waitingFor[m] : 0 < w BY <1>2, <1>3
  <2>3. /\ Nobody.order = 0 /\ ~Nobody.onSent /\ Nobody.flight # "on" BY DEF Nobody
  <2>4. 0 \in 0..Len(orders) BY <1>3
  <2> QED BY <1>1, <2>1, <2>2, <2>3, <2>4 DEF WorkAt, WorkOf
<1>5. PlaceAt(m)'
  <2> SUFFICES ASSUME NEW r \in Numbers PROVE result'[r][m] = "pending" <=> r \in waitingFor[m]
    BY <1>1, <1>3 DEF PlaceAt, Nobody
  <2>1. result[r][m] = "pending" <=> (doing[m].order = r \/ r \in waitingFor[m]) BY <1>2 DEF PlaceAt
  <2> QED BY <1>1, <2>1
<1> QED BY <1>1, <1>4, <1>5

LEMMA NotSentKeeps ==
  ASSUME LampInv, NEW m \in Lamps, NotSent(m)
  PROVE  WorkAt(m)' /\ LampAt(m)' /\ dark' = {}
<1>1. /\ doing[m].order # 0 /\ ~reachable[m] /\ Ends(m, "unconfigured")
      /\ sentOn' = [sentOn EXCEPT ![m] = "none"] /\ ordersDue' = [ordersDue EXCEPT ![m] = "any"]
      /\ UNCHANGED <<power, news, reported, reachable, active, waitingFor, orders, answer, touched,
                     left, dark, blind>>
  BY DEF NotSent
<1>2. /\ doing[m].order \in Numbers /\ doing'[m] = Nobody
      /\ \A r \in Numbers : result'[r][m] = IF r = doing[m].order THEN "unconfigured" ELSE result[r][m]
      /\ doing[m].order \notin waitingFor[m] /\ result[doing[m].order][m] = "pending"
  BY <1>1, EndsAt DEF LampResults
<1>3. WorkAt(m)' /\ PlaceAt(m)' BY <1>1, EndsKeeps DEF LampResults
<1>4. sentOn'[m] = "none" /\ ordersDue'[m] = "any" BY <1>1 DEF LampInv, LampTypes
<1>5. LightAt(m)' BY <1>1, <1>2, <1>4 DEF LampInv, LampAt, LightAt, Nobody
<1>6. TouchedAt(m)'
  <2> SUFFICES ASSUME NEW s \in Numbers PROVE TouchedIn(s, m)' BY <1>1 DEF TouchedAt, Numbers
  <2>1. TouchedIn(s, m) BY DEF LampInv, LampAt, TouchedAt
  <2>2. 0 # s BY NumbersAre DEF LampInv
  <2> QED BY <1>1, <1>2, <2>1, <2>2 DEF TouchedIn, Nobody
<1>7. DueAt(m)' BY <1>4 DEF DueAt
<1> QED BY <1>1, <1>3, <1>5, <1>6, <1>7 DEF LampAt, LampInv

LEMMA TimesOutKeeps ==
  ASSUME LampInv, NEW m \in Lamps, TimesOut(m)
  PROVE  WorkAt(m)' /\ LampAt(m)' /\ dark' = {}
<1>1. PICK r \in waitingFor[m] :
         /\ result' = [result EXCEPT ![r][m] = "unreachable"]
         /\ waitingFor' = [waitingFor EXCEPT ![m] = @ \ {r}]
  BY DEF TimesOut
<1>2. /\ ordersDue' = [ordersDue EXCEPT ![m] = "any"]
      /\ UNCHANGED <<power, news, reported, sentOn, reachable, active, doing, orders, answer, touched,
                     left, dark, blind>>
  BY DEF TimesOut
<1>3. WorkAt(m) /\ PlaceAt(m) /\ LightAt(m) /\ TouchedAt(m) /\ waitingFor[m] \subseteq Numbers
  BY DEF LampInv, LampWork, LampAt, LampTypes
<1>4. Numbers \subseteq Nat /\ Numbers' = Numbers BY <1>2, NumbersAre DEF LampInv, Numbers
<1>5. /\ waitingFor'[m] = waitingFor[m] \ {r} /\ ordersDue'[m] = "any" /\ r \in Numbers
      /\ \A s \in Numbers : result'[s][m] = IF s = r THEN "unreachable" ELSE result[s][m]
  BY <1>1, <1>2, <1>3 DEF LampInv, LampTypes, RequestTypes
<1>6. r # doing[m].order
  <2>1. doing[m].order < r /\ r \in Nat BY <1>3, <1>4 DEF WorkAt
  <2>2. doing[m].order \in Nat BY DEF LampInv, LampTypes, Doings
  <2> QED BY <2>1, <2>2
<1>7. WorkAt(m)' BY <1>2, <1>3, <1>5 DEF WorkAt, WorkOf, PlanOf
<1>8. PlaceAt(m)'
  <2> SUFFICES ASSUME NEW s \in Numbers
               PROVE  result'[s][m] = "pending" <=> (doing[m].order = s \/ s \in waitingFor'[m])
    BY <1>2, <1>4 DEF PlaceAt
  <2>1. result[s][m] = "pending" <=> (doing[m].order = s \/ s \in waitingFor[m]) BY <1>3 DEF PlaceAt
  <2> QED BY <1>5, <1>6, <2>1
<1>9. LightAt(m)' BY <1>2, <1>3 DEF LightAt, KnownOff
<1>10. TouchedAt(m)'
  <2> SUFFICES ASSUME NEW s \in Numbers PROVE TouchedIn(s, m)' BY <1>4 DEF TouchedAt
  <2>1. TouchedIn(s, m) BY <1>3 DEF TouchedAt
  <2> QED BY <1>2, <1>5, <1>6, <2>1 DEF TouchedIn
<1>11. DueAt(m)' BY <1>5 DEF DueAt
<1> QED BY <1>2, <1>7, <1>8, <1>9, <1>10, <1>11 DEF LampAt, LampInv

----------------------------------------

(* The lamp's memory and its light, when it takes what flies. *)
LEMMA TakesLight ==
  ASSUME LampInv, NEW m \in Lamps, doing[m].flight # "none", LampTakes(m, Flying(m)),
         active[m], UNCHANGED <<reported, blind>>
  PROVE  /\ dark' = {}
         /\ \A i \in DOMAIN news'[m] : news'[m][i].wall => m \in blind
         /\ Remembers(m, Flying(m)) => (sentOn'[m] = "on" /\ ~power'[m] => KnownOff(m)')
<1>1. LightAt(m) /\ LampTypes BY DEF LampInv, LampAt
<1>2. /\ Flying(m).pair \notin SwitchPairs => power'[m] = power[m] /\ news'[m] = news[m]
      /\ Flying(m).pair = "on" \/ Lights(Flying(m)) => power'[m]
      /\ \A i \in DOMAIN news'[m] : news'[m][i].wall => \E j \in DOMAIN news[m] : news[m][j].wall
      /\ (Lights(Flying(m)) /\ active[m] /\ m \notin blind => power[m]) => dark' = dark
  BY <1>1, TakesAt
<1>3. \A i \in DOMAIN news'[m] : news'[m][i].wall => m \in blind BY <1>1, <1>2 DEF LightAt
<1>4. dark' = {}
  <2>1. doing[m].flight = "on" => ~Lights(Flying(m)) BY DEF Flying, OnCall, Lights
  <2>2. doing[m].flight # "on" => doing[m].flight = "call" /\ Flying(m) = Head(doing[m].calls)
    BY <1>1 DEF Flying, LampTypes, Doings
  <2>3. Lights(Flying(m)) /\ active[m] /\ m \notin blind => power[m] BY <1>1, <2>1, <2>2 DEF LightAt
  <2> QED BY <1>2, <2>3 DEF LampInv
<1>5. ASSUME Remembers(m, Flying(m)), sentOn'[m] = "on", ~power'[m] PROVE KnownOff(m)'
  <2>1. Flying(m).pair \notin SwitchPairs /\ sentOn[m] = "on" BY <1>1, <1>2, <1>5, RemembersAt
  <2>2. KnownOff(m) /\ news'[m] = news[m] /\ reported'[m] = reported[m]
    BY <1>1, <1>2, <1>5, <2>1 DEF LightAt
  <2> QED BY <2>2 DEF KnownOff
<1> QED BY <1>3, <1>4, <1>5

LEMMA TakesTouched ==
  ASSUME LampInv, NEW m \in Lamps, doing[m].order # 0, LampTakes(m, Flying(m))
  PROVE  \A r \in Numbers : m \in touched'[r] <=> (r = doing[m].order \/ m \in touched[r])
BY TakesThere DEF LampInv

LEMMA FailsKeeps ==
  ASSUME LampInv, NEW m \in Lamps, NEW taken \in BOOLEAN, Fails(m, taken)
  PROVE  WorkAt(m)' /\ LampAt(m)' /\ dark' = {}
<1>1. /\ doing[m].flight # "none" /\ Ends(m, "unreachable")
      /\ \/ active[m] /\ LampTakes(m, Flying(m))
         \/ UNCHANGED <<power, news, dark, touched>>
      /\ sentOn' = [sentOn EXCEPT ![m] = "none"] /\ ordersDue' = [ordersDue EXCEPT ![m] = "any"]
      /\ UNCHANGED <<reported, reachable, active, waitingFor, orders, answer, left, blind>>
  BY DEF Fails, ForgetsOrders
<1>2. WorkAt(m) /\ LightAt(m) /\ TouchedAt(m) BY DEF LampInv, LampWork, LampAt
<1>3. doing[m].order # 0 BY <1>1, <1>2 DEF WorkAt, WorkOf, Nobody
<1>4. /\ doing[m].order \in Numbers /\ doing'[m] = Nobody
      /\ \A r \in Numbers : result'[r][m] = IF r = doing[m].order THEN "unreachable" ELSE result[r][m]
      /\ doing[m].order \notin waitingFor[m] /\ result[doing[m].order][m] = "pending"
  BY <1>1, <1>3, EndsAt DEF LampResults
<1>5. WorkAt(m)' /\ PlaceAt(m)' BY <1>1, <1>3, EndsKeeps DEF LampResults
<1>6. sentOn'[m] = "none" /\ ordersDue'[m] = "any" BY <1>1 DEF LampInv, LampTypes
<1>7. LightAt(m)' /\ dark' = {}
  <2>1. dark' = {} /\ \A i \in DOMAIN news'[m] : news'[m][i].wall => m \in blind
    <3>1. CASE active[m] /\ LampTakes(m, Flying(m)) BY <1>1, <3>1, TakesLight
    <3>2. CASE UNCHANGED <<power, news, dark, touched>> BY <1>2, <3>2 DEF LightAt, LampInv
    <3> QED BY <1>1, <3>1, <3>2
  <2> QED BY <1>1, <1>4, <1>6, <2>1 DEF LightAt, Nobody
<1>8. TouchedAt(m)'
  <2> SUFFICES ASSUME NEW s \in Numbers PROVE TouchedIn(s, m)' BY <1>1 DEF TouchedAt, Numbers
  <2>1. TouchedIn(s, m) BY <1>2 DEF TouchedAt
  <2>2. 0 # s BY NumbersAre DEF LampInv
  <2>3. m \in touched'[s] => s = doing[m].order \/ m \in touched[s] BY <1>1, <1>3, TakesTouched
  <2> QED BY <1>1, <1>4, <2>1, <2>2, <2>3 DEF TouchedIn, Nobody
<1>9. DueAt(m)' BY <1>6 DEF DueAt
<1> QED BY <1>5, <1>7, <1>8, <1>9 DEF LampAt

LEMMA AcknowledgedDue ==
  ASSUME LampInv, NEW m \in Lamps, Acknowledged(m)
  PROVE  DueAt(m)'
<1> DEFINE given == doing[m].calls
           c == IF doing[m].flight = "on" THEN given ELSE Tail(given)
           new == [order |-> doing[m].order, calls |-> c, flight |-> "none", onSent |-> doing[m].flight = "on"]
<1>1. /\ doing[m].flight # "none" /\ active[m] /\ LampTakes(m, Flying(m))
      /\ \/ doing[m].flight = "call" /\ Len(given) = 1 /\ Ends(m, "ok")
         \/ ~(doing[m].flight = "call" /\ Len(given) = 1) /\ doing' = [doing EXCEPT ![m] = new]
      /\ UNCHANGED <<waitingFor, orders, ordersDue>>
  BY DEF Acknowledged
<1>2. WorkAt(m) /\ DueAt(m) /\ LampTypes BY DEF LampInv, LampWork, LampAt
<1>3. doing[m].order # 0 /\ given # <<>> /\ given \in Seq(CallsMade) /\ Len(given) \in Nat
  BY <1>1, <1>2 DEF WorkAt, WorkOf, Nobody, LampTypes, Doings
<1>4. /\ Flying(m).pair \in SwitchPairs => LeadOf(Flying(m)) = "any" \/ power'[m] = (LeadOf(Flying(m)) = "on")
      /\ Flying(m).pair \notin SwitchPairs => power'[m] = power[m]
  BY <1>1, <1>2, TakesAt
<1>5. doing[m].flight \in {"on", "call"} /\ doing[m] \in Doings BY <1>1, <1>2 DEF LampTypes, Doings
<1>6. /\ Leads(given) = IF Leads(Tail(given)) # "same" THEN Leads(Tail(given))
                        ELSE IF Head(given).pair \in SwitchPairs THEN LeadOf(Head(given)) ELSE "same"
      /\ \A x : LeadOf(x) \in {"any", "on", "off"}
  BY <1>3, TailLeads DEF LeadOf
<1>7. \A w \in waitingFor[m] : LeadsOf(m, w)' = LeadsOf(m, w) BY <1>1 DEF LeadsOf, PlanOf
<1>8. ASSUME ordersDue[m] # "any", AllSame(m)
      PROVE  IF doing'[m].order # 0 /\ Leads(doing'[m].calls) # "same"
             THEN Leads(doing'[m].calls) = ordersDue[m]
             ELSE power'[m] = (ordersDue[m] = "on")
  <2>1. IF Leads(given) # "same" THEN Leads(given) = ordersDue[m] ELSE power[m] = (ordersDue[m] = "on")
    BY <1>2, <1>3, <1>8 DEF DueAt
  <2>2. CASE doing[m].flight = "on"
    <3>1. Lights(Head(given)) BY <1>2, <2>2 DEF WorkAt, WorkOf
    <3>2. Leads(given) # "same" BY <1>6, <3>1 DEF Lights, SwitchPairs
    <3>3. doing'[m].order # 0 /\ doing'[m].calls = given BY <1>1, <1>2, <1>3, <2>2 DEF LampTypes
    <3> QED BY <2>1, <3>2, <3>3
  <2>3. CASE doing[m].flight = "call"
    <3>1. Flying(m) = Head(given) BY <2>3 DEF Flying
    <3>2. /\ Leads(Tail(given)) # "same" => Leads(Tail(given)) = ordersDue[m]
          /\ Leads(Tail(given)) = "same" => power'[m] = (ordersDue[m] = "on")
      BY <1>4, <1>6, <1>8, <2>1, <3>1
    <3>3. CASE Len(given) = 1
      <4>1. Tail(given) = <<>>
        <5>1. Tail(given) \in Seq(CallsMade) /\ Len(Tail(given)) = 0
          BY <1>3, <3>3, HeadTailProperties
        <5> QED BY <5>1, EmptySeq
      <4>2. doing'[m].order = 0 BY <1>1, <1>2, <2>3, <3>3 DEF Ends, LampTypes, Nobody
      <4> QED BY <3>2, <4>1, <4>2, EmptyLeads
    <3>4. CASE Len(given) # 1
      <4>2. new.order = doing[m].order /\ new.calls = Tail(given) BY <2>3
      <4>3. doing' = [doing EXCEPT ![m] = new] /\ doing \in [Lamps -> Doings]
        BY <1>1, <1>2, <3>4 DEF LampTypes
      <4> HIDE DEF new
      <4>1. doing'[m].order # 0 /\ doing'[m].calls = Tail(given) BY <1>3, <4>2, <4>3
      <4> QED BY <3>2, <4>1
    <3> QED BY <3>3, <3>4
  <2> QED BY <1>5, <2>2, <2>3
<1>9. AllSame(m)' <=> AllSame(m) BY <1>1, <1>7 DEF AllSame
<1>10. ordersDue[m] # "any" =>
         \A w \in waitingFor[m] :
           LeadsOf(m, w)' # "same" /\ (\A v \in waitingFor[m] : v > w => LeadsOf(m, v)' = "same")
             => LeadsOf(m, w)' = ordersDue[m]
  BY <1>2, <1>7 DEF DueAt
<1> HIDE DEF given, c, new
<1> QED BY <1>1, <1>8, <1>9, <1>10 DEF DueAt

LEMMA AcknowledgedKeeps ==
  ASSUME LampInv, NEW m \in Lamps, Acknowledged(m)
  PROVE  WorkAt(m)' /\ LampAt(m)' /\ dark' = {}
<1> DEFINE given == doing[m].calls
           c == IF doing[m].flight = "on" THEN given ELSE Tail(given)
           new == [order |-> doing[m].order, calls |-> c, flight |-> "none", onSent |-> doing[m].flight = "on"]
           last == doing[m].flight = "call" /\ Len(given) = 1
<1>1. /\ doing[m].flight # "none" /\ active[m] /\ LampTakes(m, Flying(m)) /\ Remembers(m, Flying(m))
      /\ IF last THEN Ends(m, "ok") ELSE doing' = [doing EXCEPT ![m] = new] /\ UNCHANGED result
      /\ UNCHANGED <<reported, reachable, active, waitingFor, orders, answer, left, ordersDue, blind>>
  BY DEF Acknowledged
<1>2. WorkAt(m) /\ PlaceAt(m) /\ LightAt(m) /\ TouchedAt(m) /\ LampTypes
  BY DEF LampInv, LampWork, LampAt
<1>3. doing[m].order # 0 /\ given # <<>> /\ given \in Seq(CallsMade) /\ Len(given) \in Nat
  BY <1>1, <1>2 DEF WorkAt, WorkOf, Nobody, LampTypes, Doings
<1>4. doing[m].flight \in {"on", "call"} BY <1>1, <1>2 DEF LampTypes, Doings
<1>5. Len(orders) \in Nat /\ Numbers = 1..Len(orders) /\ 0 \notin Numbers /\ Numbers' = Numbers
  BY <1>1, NumbersAre DEF LampInv, Numbers
<1>6. /\ dark' = {}
      /\ \A i \in DOMAIN news'[m] : news'[m][i].wall => m \in blind
      /\ sentOn'[m] = "on" /\ ~power'[m] => KnownOff(m)'
  BY <1>1, TakesLight
<1>7. \A r \in Numbers : m \in touched'[r] <=> (r = doing[m].order \/ m \in touched[r])
  BY <1>1, <1>3, TakesTouched
<1>8. CASE last
  <2>1. /\ doing[m].order \in Numbers /\ doing'[m] = Nobody
        /\ \A r \in Numbers : result'[r][m] = IF r = doing[m].order THEN "ok" ELSE result[r][m]
        /\ doing[m].order \notin waitingFor[m] /\ result[doing[m].order][m] = "pending"
    BY <1>1, <1>3, <1>8, EndsAt DEF LampResults
  <2>2. WorkAt(m)' /\ PlaceAt(m)' BY <1>1, <1>3, <1>8, EndsKeeps DEF LampResults
  <2>3. LightAt(m)' BY <1>1, <1>6, <2>1 DEF LightAt, Nobody
  <2>4. TouchedAt(m)'
    <3> SUFFICES ASSUME NEW s \in Numbers PROVE TouchedIn(s, m)' BY <1>5 DEF TouchedAt
    <3>1. TouchedIn(s, m) /\ 0 # s BY <1>2, <1>5 DEF TouchedAt
    <3> QED BY <1>1, <1>7, <2>1, <3>1 DEF TouchedIn, Nobody
  <2> QED BY <1>6, <2>2, <2>3, <2>4, AcknowledgedDue DEF LampAt
<1>9. CASE ~last
  <2>1. doing'[m] = new /\ UNCHANGED result BY <1>1, <1>2, <1>9 DEF LampTypes
  <2>7. /\ doing'[m].order = doing[m].order /\ doing'[m].calls = c /\ doing'[m].flight = "none"
        /\ doing'[m].onSent = (doing[m].flight = "on")
    BY <2>1
  <2>2. c # <<>>
    <3>1. CASE doing[m].flight = "on" BY <1>3, <3>1
    <3>2. CASE doing[m].flight = "call"
      <4>1. Len(Tail(given)) = Len(given) - 1 /\ Len(given) > 0 /\ Len(given) # 1
        BY <1>3, <1>9, <3>2, HeadTailProperties, EmptySeq
      <4>2. Len(Tail(given)) # 0 BY <1>3, <4>1
      <4> QED BY <3>2, <4>2, EmptySeq
    <3> QED BY <1>4, <3>1, <3>2
  <2>3. WorkAt(m)'
    <3>1. doing[m].flight = "on" => Lights(Head(c)) BY <1>2 DEF WorkAt, WorkOf
    <3>2. WorkOf(doing[m])'
      <4>1. doing[m].order \in 0..Len(orders) /\ orders' = orders BY <1>1, <1>2 DEF WorkAt, WorkOf
      <4> HIDE DEF c, new, last, given
      <4> QED BY <1>3, <2>2, <2>7, <3>1, <4>1 DEF WorkOf
    <3>3. \A w \in waitingFor[m] : doing[m].order < w /\ PlanOf(m, w)' # <<>>
      BY <1>1, <1>2 DEF WorkAt, PlanOf
    <3> QED BY <1>1, <2>1, <3>2, <3>3 DEF WorkAt
  <2>4. PlaceAt(m)' BY <1>1, <1>2, <1>5, <2>1 DEF PlaceAt
  <2>5. LightAt(m)'
    <3>1. doing[m].flight = "on" => power'[m]
      <4>1. LampTypes /\ (doing[m].flight = "on" => Flying(m).pair = "on")
        BY <1>2 DEF Flying, OnCall
      <4> QED BY <1>1, <4>1, TakesAt
    <3> HIDE DEF c, new, last, given
    <3> QED BY <1>1, <1>6, <2>7, <3>1 DEF LightAt
  <2>6. TouchedAt(m)'
    <3> SUFFICES ASSUME NEW s \in Numbers PROVE TouchedIn(s, m)' BY <1>5 DEF TouchedAt
    <3>1. TouchedIn(s, m) BY <1>2 DEF TouchedAt
    <3>2. s = doing[m].order => result[s][m] = "pending" /\ s \notin waitingFor[m]
      <4>1. \A w \in waitingFor[m] : doing[m].order < w BY <1>2 DEF WorkAt
      <4>2. s \in Nat BY <1>5
      <4> QED BY <1>2, <4>1, <4>2 DEF PlaceAt
    <3>3. new.order = doing[m].order /\ new.flight = "none" OBVIOUS
    <3> HIDE DEF new
    <3> QED BY <1>1, <1>7, <2>1, <3>1, <3>2, <3>3 DEF TouchedIn
  <2> QED BY <1>6, <2>3, <2>4, <2>5, <2>6, AcknowledgedDue DEF LampAt
<1> QED BY <1>8, <1>9

LEMMA OneLampKeeps ==
  ASSUME LampInv, NEW m \in Lamps, OneLamp(m)
  PROVE  WorkAt(m)' /\ LampAt(m)' /\ dark' = {}
BY WallKeeps, ReportKeeps, StopsKeeps, RemovedKeeps, StartsKeeps, SendsKeeps, NotSentKeeps,
   AcknowledgedKeeps, TimesOutKeeps, FailsKeeps DEF OneLamp

----------------------------------------

(* What has ended for a lamp stays as it is. *)
LEMMA OneLampSettled ==
  ASSUME LampInv, NEW m \in Lamps, OneLamp(m), NEW r \in Numbers, result[r][m] # "pending"
  PROVE  /\ result'[r][m] = result[r][m] /\ (m \in touched'[r] => m \in touched[r])
         /\ (m \in left[r] => m \in left'[r]) /\ answer' = answer
<1>1. WorkAt(m) /\ PlaceAt(m) /\ RequestTypes BY DEF LampInv, LampWork, LampAt
<1>2. doing[m].order # r /\ r \notin waitingFor[m] BY <1>1 DEF PlaceAt
<1>3. \A how \in LampResults \ {"pending"} : Ends(m, how) /\ doing[m].order # 0 => result'[r][m] = result[r][m]
  BY <1>2, EndsAt
<1>4. LampTakes(m, Flying(m)) /\ doing[m].order # 0 => (m \in touched'[r] => m \in touched[r])
  BY <1>2, TakesTouched
<1>5. doing[m].flight # "none" => doing[m].order # 0 BY <1>1 DEF WorkAt, WorkOf, Nobody
<1>6. CASE WallSwitch(m) \/ ReportArrives(m) \/ Removed(m) \/ Starts(m) \/ Sends(m)
  BY <1>6 DEF WallSwitch, ReportArrives, Removed, Starts, Sends
<1>7. CASE SourceStops(m)
  <2>1. left' = IF doing[m].order = 0 THEN left ELSE [left EXCEPT ![doing[m].order] = @ \cup {m}]
    BY <1>7 DEF SourceStops
  <2>2. left'[r] = left[r] BY <1>1, <1>2, <2>1 DEF RequestTypes
  <2> QED BY <1>7, <2>2 DEF SourceStops
<1>8. CASE NotSent(m)
  <2>1. result'[r][m] = result[r][m] BY <1>3, <1>8 DEF NotSent, LampResults
  <2> QED BY <1>8, <2>1 DEF NotSent
<1>9. CASE TimesOut(m)
  <2>1. PICK w \in waitingFor[m] : result' = [result EXCEPT ![w][m] = "unreachable"]
    BY <1>9 DEF TimesOut
  <2>2. result'[r][m] = result[r][m] BY <1>1, <1>2, <2>1 DEF RequestTypes
  <2> QED BY <1>9, <2>2 DEF TimesOut
<1>10. CASE Acknowledged(m)
  <2>1. /\ doing[m].flight # "none" /\ LampTakes(m, Flying(m)) /\ (Ends(m, "ok") \/ UNCHANGED result)
        /\ UNCHANGED <<left, answer>>
    BY <1>10 DEF Acknowledged
  <2>2. result'[r][m] = result[r][m] BY <1>3, <1>5, <2>1 DEF LampResults
  <2> QED BY <1>4, <1>5, <2>1, <2>2
<1>11. CASE \E taken \in BOOLEAN : Fails(m, taken)
  <2>1. /\ doing[m].flight # "none" /\ Ends(m, "unreachable") /\ UNCHANGED <<left, answer>>
        /\ LampTakes(m, Flying(m)) \/ UNCHANGED touched
    BY <1>11 DEF Fails
  <2>2. result'[r][m] = result[r][m] BY <1>3, <1>5, <2>1 DEF LampResults
  <2> QED BY <1>4, <1>5, <2>1, <2>2
<1> QED BY <1>6, <1>7, <1>8, <1>9, <1>10, <1>11 DEF OneLamp

LEMMA OneLampAnswers ==
  ASSUME LampInv, NEW m \in Lamps, OneLamp(m)
  PROVE  answer' = answer
BY DEF OneLamp, WallSwitch, ReportArrives, SourceStops, Removed, Starts, Sends, NotSent, Acknowledged, TimesOut, Fails

LEMMA OneLampStep ==
  ASSUME LampInv, NEW m \in Lamps, OneLamp(m)
  PROVE  LampInv'
<1>1. Elsewhere(m) /\ LampTypes' /\ RequestTypes' /\ orders' = orders BY OneLampThere DEF LampInv
<1>2. WorkAt(m)' /\ LampAt(m)' /\ dark' = {} BY OneLampKeeps
<1>3. \A n \in Lamps : WorkAt(n)' /\ LampAt(n)'
  <2> SUFFICES ASSUME NEW n \in Lamps, n # m PROVE WorkAt(n)' /\ LampAt(n)' BY <1>2
  <2>1. SameLamp(n) /\ SameRequests(n) BY <1>1 DEF Elsewhere
  <2>2. LampTypes /\ RequestTypes /\ WorkAt(n) /\ LampAt(n) BY DEF LampInv, LampWork
  <2> QED BY <1>1, <2>1, <2>2, ElsewhereKeeps
<1>4. LampAnswered'
  <2>0. answer' = answer /\ Numbers' = Numbers BY <1>1, OneLampAnswers DEF Numbers
  <2> SUFFICES ASSUME NEW r \in Numbers PROVE AnsweredIn(r)' BY <2>0 DEF LampAnswered
  <2> SUFFICES ASSUME orders[r].route = "ui", answer[r] # "none"
               PROVE  /\ \A n \in Lamps : result'[r][n] # "pending"
                      /\ answer[r] = "ok" => \A n \in Lamps : result'[r][n] \in {"none", "ok", "replaced"}
                      /\ answer[r] = "not configured" => \A n \in touched'[r] : n \in left'[r]
    BY <1>1, <2>0 DEF AnsweredIn
  <2>1. AnsweredIn(r) BY DEF LampInv, LampAnswered
  <2>2. \A n \in Lamps : /\ result'[r][n] = result[r][n] /\ (n \in touched'[r] => n \in touched[r])
                         /\ (n \in left[r] => n \in left'[r])
    <3> SUFFICES ASSUME NEW n \in Lamps
                 PROVE  /\ result'[r][n] = result[r][n] /\ (n \in touched'[r] => n \in touched[r])
                        /\ (n \in left[r] => n \in left'[r])
      OBVIOUS
    <3>1. CASE n = m
      <4>1. result[r][m] # "pending" BY <2>1 DEF AnsweredIn
      <4> QED BY <3>1, <4>1, OneLampSettled
    <3>2. CASE n # m BY <1>1, <3>2 DEF Elsewhere, SameRequests
    <3> QED BY <3>1, <3>2
  <2>3. touched'[r] \subseteq Lamps BY <1>1 DEF RequestTypes, Numbers
  <2> QED BY <2>1, <2>2, <2>3 DEF AnsweredIn
<1> QED BY <1>1, <1>2, <1>3, <1>4 DEF LampInv, LampWork

----------------------------------------
(* An answer. *)

LEMMA AnswersStep ==
  ASSUME LampInv, NEW r \in 1..MaxOrders, Answers(r)
  PROVE  LampInv'
<1>1. /\ r \in Numbers /\ AllDone(r) /\ answer' = [answer EXCEPT ![r] = Verdict(r)]
      /\ UNCHANGED <<power, news, reported, sentOn, reachable, active, waitingFor, doing, orders,
                     result, touched, left, dark, ordersDue, blind>>
  BY DEF Answers
<1>2. LampTypes /\ RequestTypes /\ LampAnswered BY DEF LampInv
<1>3. LampTypes' BY <1>1, <1>2 DEF LampTypes, Numbers
<1>4. Verdict(r) \in {"ok", "not configured", "not reached"} BY DEF Verdict
<1>5. RequestTypes' BY <1>1, <1>2, <1>4 DEF RequestTypes, Numbers
<1>6. LampWork' /\ \A m \in Lamps : LampAt(m)'
  BY <1>1 DEF LampInv, LampWork, WorkAt, WorkOf, PlanOf, LampAt, PlaceAt, LightAt, KnownOff,
     TouchedAt, TouchedIn, DueAt, AllSame, LeadsOf, Numbers
<1>7. /\ \A m \in Lamps : result[r][m] # "pending"
      /\ Verdict(r) = "ok" => \A m \in Lamps : result[r][m] \in {"none", "ok", "replaced"}
      /\ Verdict(r) = "not configured" => \A m \in touched[r] : m \in left[r]
  <2>1. \A m \in Lamps : result[r][m] # "pending" BY <1>1 DEF AllDone
  <2>2. ASSUME Verdict(r) = "ok", NEW m \in Lamps PROVE result[r][m] \in {"none", "ok", "replaced"}
    <3>1. Missed(r, "unconfigured") \cup Missed(r, "unreachable") = {} BY <2>2 DEF Verdict
    <3>2. result[r][m] \in LampResults BY <1>1, <1>2 DEF RequestTypes
    <3>3. result[r][m] # "unconfigured" /\ result[r][m] # "unreachable" BY <3>1 DEF Missed, Asked
    <3> QED BY <2>1, <3>2, <3>3 DEF LampResults
  <2>3. ASSUME Verdict(r) = "not configured", NEW m \in touched[r] PROVE m \in left[r]
    <3>1. m \in Lamps BY <1>1, <1>2 DEF RequestTypes
    <3>2. Missed(r, "unconfigured") = Asked(r) BY <2>3 DEF Verdict
    <3>3. TouchedIn(r, m) BY <1>1, <3>1 DEF LampInv, LampAt, TouchedAt
    <3>4. m \in Asked(r) BY <3>1, <3>3 DEF TouchedIn, Asked
    <3>5. result[r][m] = "unconfigured" BY <3>2, <3>4 DEF Missed
    <3> QED BY <3>3, <3>5 DEF TouchedIn
  <2> QED BY <2>1, <2>2, <2>3
<1>8. LampAnswered'
  <2> SUFFICES ASSUME NEW s \in Numbers PROVE AnsweredIn(s)' BY <1>1 DEF LampAnswered, Numbers
  <2>1. AnsweredIn(s) BY <1>2 DEF LampAnswered
  <2>2. CASE s = r
    <3>1. answer'[s] = Verdict(r) BY <1>1, <1>2, <2>2 DEF RequestTypes
    <3> QED BY <1>1, <1>7, <2>2, <3>1 DEF AnsweredIn
  <2>3. CASE s # r
    <3>1. answer'[s] = answer[s] BY <1>1, <1>2, <2>3 DEF RequestTypes
    <3> QED BY <1>1, <2>1, <3>1 DEF AnsweredIn
  <2> QED BY <2>2, <2>3
<1> QED BY <1>1, <1>3, <1>5, <1>6, <1>8 DEF LampInv

----------------------------------------

(* A new request: where it stands, and what it replaces. *)
NextNumber == Len(orders) + 1
AsksLamp(order, to, m) == m \in to /\ Plan[order][m] # <<>>
OldAt(order, to, m) == IF AsksLamp(order, to, m) THEN Superseded(m, Plan[order][m]) ELSE {}

Grown(order, to, route, r) ==
    /\ Numbers' = Numbers \cup {r} /\ r \notin Numbers /\ r \in Nat
    /\ \A s \in Numbers : /\ orders'[s] = orders[s] /\ answer'[s] = answer[s]
                          /\ touched'[s] = touched[s] /\ left'[s] = left[s]
    /\ \A s \in Numbers, m \in Lamps :
          result'[s][m] = IF s \in OldAt(order, to, m) THEN "replaced" ELSE result[s][m]
    /\ orders'[r].order = order /\ orders'[r].route = route
    /\ answer'[r] = (IF route = "loxone" THEN "ok" ELSE "none")
    /\ touched'[r] = {} /\ left'[r] = {}
    /\ \A m \in Lamps : result'[r][m] = IF AsksLamp(order, to, m) THEN "pending" ELSE "none"
    /\ RequestTypes' /\ Len(orders') = r

LEMMA HandsOrderIs ==
  ASSUME LampInv, NEW order \in Orders, NEW to \in SUBSET Lamps, NEW route \in Routes,
         HandsOrder(order, to, route)
  PROVE  Grown(order, to, route, NextNumber)
<1> DEFINE before == [s \in Numbers |-> [m \in Lamps |->
                        IF s \in OldAt(order, to, m) THEN "replaced" ELSE result[s][m]]]
           new == [m \in Lamps |-> IF AsksLamp(order, to, m) THEN "pending" ELSE "none"]
           o == [order |-> order, route |-> route]
           a == IF route = "loxone" THEN "ok" ELSE "none"
           n == Len(orders)
           r == NextNumber
<1>1. orders' = Append(orders, o) /\ answer' = Append(answer, a)
      /\ touched' = Append(touched, {}) /\ left' = Append(left, {})
  BY DEF HandsOrder
<1>16. result' = Append(before, new)
  <2> DEFINE reached == {m \in to : Plan[order][m] # <<>>}
             old(m) == IF m \in reached THEN Superseded(m, Plan[order][m]) ELSE {}
  <2>1. result' = Append([s \in Numbers |-> [m \in Lamps |-> IF s \in old(m) THEN "replaced" ELSE result[s][m]]],
                       [m \in Lamps |-> IF m \in reached THEN "pending" ELSE "none"])
    BY DEF HandsOrder
  <2>2. \A m : (m \in reached <=> AsksLamp(order, to, m)) /\ old(m) = OldAt(order, to, m)
    BY DEF AsksLamp, OldAt
  <2>3. before = [s \in Numbers |-> [m \in Lamps |-> IF s \in old(m) THEN "replaced" ELSE result[s][m]]]
    BY <2>2
  <2>4. new = [m \in Lamps |-> IF m \in reached THEN "pending" ELSE "none"] BY <2>2
  <2> HIDE DEF reached, old, before, new
  <2> QED BY <2>1, <2>3, <2>4
<1>2. RequestTypes BY DEF LampInv
<1>3. n \in Nat /\ Numbers = 1..n BY <1>2, NumbersAre
<1>17. r = n + 1 /\ r \in Nat BY <1>3 DEF NextNumber
<1>4. o \in [order : Orders, route : Routes] /\ orders \in Seq([order : Orders, route : Routes])
  BY <1>2 DEF RequestTypes
<1>18. o.order = order /\ o.route = route OBVIOUS
<1>8. before \in [1..n -> [Lamps -> LampResults]] /\ new \in [Lamps -> LampResults]
  BY <1>2, <1>3 DEF RequestTypes, LampResults
<1>19. answer \in [1..n -> {"none", "ok", "not configured", "not reached"}]
       /\ touched \in [1..n -> SUBSET Lamps] /\ left \in [1..n -> SUBSET Lamps]
  BY <1>2, <1>3 DEF RequestTypes
<1>20. a \in {"none", "ok", "not configured", "not reached"} /\ {} \in SUBSET Lamps OBVIOUS
<1>15. /\ \A s \in Numbers, m \in Lamps :
             before[s][m] = IF s \in OldAt(order, to, m) THEN "replaced" ELSE result[s][m]
       /\ \A m \in Lamps : new[m] = IF AsksLamp(order, to, m) THEN "pending" ELSE "none"
  OBVIOUS
<1> HIDE DEF before, new, o, n, r
<1>5. /\ orders' \in Seq([order : Orders, route : Routes]) /\ Len(orders') = r
      /\ \A s \in 1..n : orders'[s] = orders[s]
      /\ orders'[r] = o
  BY <1>1, <1>4, <1>17, AppendProperties DEF n
<1>6. Numbers' = 1..r BY <1>5 DEF Numbers
<1>7. Numbers' = Numbers \cup {r} /\ r \notin Numbers BY ONLY <1>3, <1>6, <1>17
<1>22. n \in Nat /\ r = n + 1 BY <1>3, <1>17
<1>9. /\ result' \in [1..r -> [Lamps -> LampResults]]
      /\ \A s \in 1..n : result'[s] = before[s]
      /\ result'[r] = new
  <2> DEFINE S == [Lamps -> LampResults]
  <2>1. n \in Nat BY <1>22
  <2>2. r = n + 1 BY <1>22
  <2>3. before \in [1..n -> S] BY <1>8
  <2>4. new \in S BY <1>8
  <2>5. result' = Append(before, new) BY <1>16
  <2> HIDE DEF S
  <2>7. before \in Seq(S) /\ Len(before) = n BY ONLY <2>1, <2>3
  <2>8. result' \in Seq(S) /\ Len(result') = r /\ (\A i \in 1..n : result'[i] = before[i]) /\ result'[r] = new
    BY ONLY <2>1, <2>2, <2>4, <2>5, <2>7, AppendProperties
  <2>9. result' \in [1..r -> S] BY ONLY <2>8, LenProperties
  <2>6. result' \in [1..r -> S] /\ (\A i \in 1..n : result'[i] = before[i]) /\ result'[r] = new
    BY ONLY <2>8, <2>9
  <2> QED BY <2>6 DEF S
<1>10. /\ answer' \in [1..r -> {"none", "ok", "not configured", "not reached"}]
       /\ \A s \in 1..n : answer'[s] = answer[s]
       /\ answer'[r] = a
  <2> DEFINE S == {"none", "ok", "not configured", "not reached"}
  <2>1. n \in Nat BY <1>22
  <2>2. r = n + 1 BY <1>22
  <2>3. answer \in [1..n -> S] BY <1>19
  <2>4. a \in S BY <1>20
  <2>5. answer' = Append(answer, a) BY <1>1
  <2> HIDE DEF S, a
  <2>7. answer \in Seq(S) /\ Len(answer) = n BY ONLY <2>1, <2>3
  <2>8. answer' \in Seq(S) /\ Len(answer') = r /\ (\A i \in 1..n : answer'[i] = answer[i]) /\ answer'[r] = a
    BY ONLY <2>1, <2>2, <2>4, <2>5, <2>7, AppendProperties
  <2>9. answer' \in [1..r -> S] BY ONLY <2>8, LenProperties
  <2>6. answer' \in [1..r -> S] /\ (\A i \in 1..n : answer'[i] = answer[i]) /\ answer'[r] = a
    BY ONLY <2>8, <2>9
  <2> QED BY <2>6 DEF S
<1>11. /\ touched' \in [1..r -> SUBSET Lamps] /\ \A s \in 1..n : touched'[s] = touched[s]
       /\ touched'[r] = {}
  <2> DEFINE S == SUBSET Lamps
  <2>1. n \in Nat BY <1>22
  <2>2. r = n + 1 BY <1>22
  <2>3. touched \in [1..n -> S] BY <1>19
  <2>4. {} \in S OBVIOUS
  <2>5. touched' = Append(touched, {}) BY <1>1
  <2> HIDE DEF S
  <2>7. touched \in Seq(S) /\ Len(touched) = n BY ONLY <2>1, <2>3
  <2>8. touched' \in Seq(S) /\ Len(touched') = r /\ (\A i \in 1..n : touched'[i] = touched[i]) /\ touched'[r] = {}
    BY ONLY <2>1, <2>2, <2>4, <2>5, <2>7, AppendProperties
  <2>9. touched' \in [1..r -> S] BY ONLY <2>8, LenProperties
  <2>6. touched' \in [1..r -> S] /\ (\A i \in 1..n : touched'[i] = touched[i]) /\ touched'[r] = {}
    BY ONLY <2>8, <2>9
  <2> QED BY <2>6 DEF S
<1>12. /\ left' \in [1..r -> SUBSET Lamps] /\ \A s \in 1..n : left'[s] = left[s]
       /\ left'[r] = {}
  <2> DEFINE S == SUBSET Lamps
  <2>1. n \in Nat BY <1>22
  <2>2. r = n + 1 BY <1>22
  <2>3. left \in [1..n -> S] BY <1>19
  <2>4. {} \in S OBVIOUS
  <2>5. left' = Append(left, {}) BY <1>1
  <2> HIDE DEF S
  <2>7. left \in Seq(S) /\ Len(left) = n BY ONLY <2>1, <2>3
  <2>8. left' \in Seq(S) /\ Len(left') = r /\ (\A i \in 1..n : left'[i] = left[i]) /\ left'[r] = {}
    BY ONLY <2>1, <2>2, <2>4, <2>5, <2>7, AppendProperties
  <2>9. left' \in [1..r -> S] BY ONLY <2>8, LenProperties
  <2>6. left' \in [1..r -> S] /\ (\A i \in 1..n : left'[i] = left[i]) /\ left'[r] = {}
    BY ONLY <2>8, <2>9
  <2> QED BY <2>6 DEF S
<1>14. RequestTypes' BY <1>5, <1>6, <1>9, <1>10, <1>11, <1>12 DEF RequestTypes
<1>21. /\ \A s \in Numbers, m \in Lamps :
             result'[s][m] = IF s \in OldAt(order, to, m) THEN "replaced" ELSE result[s][m]
       /\ \A m \in Lamps : result'[r][m] = IF AsksLamp(order, to, m) THEN "pending" ELSE "none"
  BY <1>3, <1>9, <1>15
<1> QED BY <1>3, <1>5, <1>7, <1>10, <1>11, <1>12, <1>14, <1>17, <1>18, <1>21 DEF Grown, a, r

(* The same request at one lamp. *)
LEMMA HandsOrderAt ==
  ASSUME LampInv, NEW order \in Orders, NEW to \in SUBSET Lamps, NEW route \in Routes,
         HandsOrder(order, to, route), NEW m \in Lamps, NEW r, r = NextNumber
  PROVE  WorkAt(m)' /\ LampAt(m)'
<1> DEFINE plan == Plan[order][m]
           is == AsksLamp(order, to, m)
           old == OldAt(order, to, m)
<1>1. Grown(order, to, route, r) BY HandsOrderIs
<1>16. /\ Numbers' = Numbers \cup {r} /\ r \notin Numbers /\ r \in Nat
       /\ \A s \in Numbers : /\ orders'[s] = orders[s] /\ touched'[s] = touched[s] /\ left'[s] = left[s]
                             /\ result'[s][m] = IF s \in old THEN "replaced" ELSE result[s][m]
       /\ orders'[r].order = order /\ touched'[r] = {}
       /\ result'[r][m] = (IF is THEN "pending" ELSE "none")
       /\ Len(orders') = r
  BY <1>1 DEF Grown
<1>2. /\ waitingFor'[m] = (IF is THEN (waitingFor[m] \ old) \cup {r} ELSE waitingFor[m])
      /\ ordersDue'[m] = (IF is /\ Leads(plan) # "same" THEN Leads(plan) ELSE ordersDue[m])
      /\ UNCHANGED <<power, news, reported, sentOn, reachable, active, doing, dark, blind>>
  BY DEF HandsOrder, AsksLamp, OldAt, NextNumber
<1>3. WorkAt(m) /\ PlaceAt(m) /\ LightAt(m) /\ TouchedAt(m) /\ DueAt(m) /\ LampTypes /\ RequestTypes
  BY DEF LampInv, LampWork, LampAt
<1>4. old \subseteq waitingFor[m] /\ waitingFor[m] \subseteq Numbers
  BY <1>3 DEF OldAt, Superseded, LampTypes
<1>17. is => /\ plan # <<>>
             /\ \A w \in old : Supersedes(plan, PlanOf(m, w))
  BY DEF OldAt, AsksLamp, Superseded
<1>18. ~is => old = {} BY DEF OldAt
<1>5. plan \in Seq(CallsMade) BY LampsAssumption
<1>6. Len(orders) \in Nat /\ Numbers = 1..Len(orders) /\ Numbers \subseteq Nat /\ 0 \notin Numbers
      /\ r = Len(orders) + 1
  BY <1>3, NumbersAre DEF NextNumber
<1> HIDE DEF is, old, plan
<1>7. /\ \A w \in waitingFor[m] : PlanOf(m, w)' = PlanOf(m, w)
      /\ PlanOf(m, r)' = plan
  BY <1>4, <1>16 DEF PlanOf, plan
<1>8. doing[m].order \in 0..Len(orders) /\ doing[m].order < r /\ doing[m].order \notin old
  <2>1. doing[m].order \in 0..Len(orders) BY <1>3 DEF WorkAt, WorkOf
  <2>2. \A w \in waitingFor[m] : doing[m].order < w /\ w \in Nat BY <1>3, <1>4, <1>6 DEF WorkAt
  <2>3. doing[m].order \notin waitingFor[m] BY <2>1, <2>2
  <2>4. doing[m].order < r BY <1>6, <2>1
  <2> QED BY <1>4, <2>1, <2>3, <2>4
<1>9. \A w \in waitingFor[m] : w < r /\ w \in Nat BY <1>4, <1>6
<1>14. \A w \in waitingFor'[m] : w \in waitingFor[m] \/ (w = r /\ is) BY <1>2
<1>10. WorkAt(m)'
  <2>1. WorkOf(doing[m])' BY <1>2, <1>3, <1>6, <1>8, <1>16 DEF WorkAt, WorkOf
  <2>2. \A w \in waitingFor[m] : doing[m].order < w /\ PlanOf(m, w)' # <<>> BY <1>3, <1>7 DEF WorkAt
  <2>3. is => doing[m].order < r /\ PlanOf(m, r)' # <<>> BY <1>7, <1>8, <1>17
  <2> QED BY <1>2, <1>14, <2>1, <2>2, <2>3 DEF WorkAt
<1>11. PlaceAt(m)'
  <2> SUFFICES ASSUME NEW s \in Numbers \cup {r}
               PROVE  result'[s][m] = "pending" <=> (doing[m].order = s \/ s \in waitingFor'[m])
    BY <1>2, <1>16 DEF PlaceAt
  <2>1. CASE s = r
    <3>1. doing[m].order # r /\ r \notin waitingFor[m] BY <1>4, <1>6, <1>8, <1>16
    <3> QED BY <1>2, <1>16, <2>1, <3>1
  <2>2. CASE s \in Numbers
    <3>1. s # r /\ (result[s][m] = "pending" <=> (doing[m].order = s \/ s \in waitingFor[m]))
      BY <1>3, <1>16, <2>2 DEF PlaceAt
    <3>2. s \in waitingFor'[m] <=> (s \in waitingFor[m] /\ s \notin old) BY <1>2, <1>18, <3>1
    <3>3. result'[s][m] = IF s \in old THEN "replaced" ELSE result[s][m] BY <1>16, <2>2
    <3> QED BY <1>4, <1>8, <3>1, <3>2, <3>3
  <2> QED BY <2>1, <2>2
<1>12. LightAt(m)' BY <1>2, <1>3 DEF LightAt, KnownOff
<1>13. TouchedAt(m)'
  <2> SUFFICES ASSUME NEW s \in Numbers \cup {r} PROVE TouchedIn(s, m)' BY <1>16 DEF TouchedAt
  <2>1. CASE s = r
    <3>1. doing[m].order # r /\ touched'[r] = {} BY <1>6, <1>8, <1>16
    <3> QED BY <1>2, <2>1, <3>1 DEF TouchedIn
  <2>2. CASE s \in Numbers
    <3>1. TouchedIn(s, m) /\ s # r BY <1>3, <1>16, <2>2 DEF TouchedAt
    <3>2. s \in waitingFor'[m] => s \in waitingFor[m] BY <1>2, <3>1
    <3>3. /\ touched'[s] = touched[s] /\ left'[s] = left[s]
          /\ result'[s][m] \in {result[s][m], "replaced"}
      BY <1>16, <2>2
    <3> QED BY <1>2, <3>1, <3>2, <3>3 DEF TouchedIn
  <2> QED BY <2>1, <2>2
<1>15. DueAt(m)'
  <2>1. CASE ~is
    <3>1. waitingFor'[m] = waitingFor[m] /\ ordersDue'[m] = ordersDue[m] BY <1>2, <2>1
    <3>2. \A w \in waitingFor[m] : LeadsOf(m, w)' = LeadsOf(m, w) BY <1>7 DEF LeadsOf
    <3> QED BY <1>2, <1>3, <3>1, <3>2 DEF DueAt, AllSame
  <2>2. CASE is /\ Leads(plan) # "same"
    <3>1. waitingFor'[m] = (waitingFor[m] \ old) \cup {r} /\ ordersDue'[m] = Leads(plan)
      BY <1>2, <2>2
    <3>2. LeadsOf(m, r)' = Leads(plan) BY <1>7 DEF LeadsOf
    <3>3. r \in waitingFor'[m] BY <3>1
    <3>4. \A w \in waitingFor'[m] : w # r => r > w BY <1>6, <1>9, <1>16, <3>1
    <3>5. ~AllSame(m)' BY <2>2, <3>2, <3>3 DEF AllSame
    <3>6. \A w \in waitingFor'[m] :
            (\A v \in waitingFor'[m] : v > w => LeadsOf(m, v)' = "same") => w = r
      BY <2>2, <3>2, <3>3, <3>4
    <3> QED BY <3>1, <3>2, <3>5, <3>6 DEF DueAt
  <2>3. CASE is /\ Leads(plan) = "same"
    <3>1. waitingFor'[m] = (waitingFor[m] \ old) \cup {r} /\ ordersDue'[m] = ordersDue[m]
      BY <1>2, <2>3
    <3>2. LeadsOf(m, r)' = "same" /\ \A w \in waitingFor[m] : LeadsOf(m, w)' = LeadsOf(m, w)
      BY <1>7, <2>3 DEF LeadsOf
    <3>3. \A w \in old : LeadsOf(m, w) = "same"
      <4> SUFFICES ASSUME NEW w \in old PROVE Leads(PlanOf(m, w)) = "same" BY DEF LeadsOf
      <4>1. Supersedes(plan, PlanOf(m, w)) BY <1>17, <2>3
      <4>2. w \in Numbers BY <1>4
      <4>3. PlanOf(m, w) \in Seq(CallsMade) BY <1>3, <4>2, PlanIs
      <4> QED BY <1>5, <2>3, <4>1, <4>3, CoveredLeads
    <3>6. \A w \in waitingFor[m] : w \in waitingFor'[m] \/ LeadsOf(m, w) = "same" BY <3>1, <3>3
    <3>7. \A w \in waitingFor'[m] : LeadsOf(m, w)' # "same" => w \in waitingFor[m] /\ LeadsOf(m, w)' = LeadsOf(m, w)
      BY <1>14, <3>2
    <3>4. AllSame(m)' => AllSame(m) BY <3>2, <3>6 DEF AllSame
    <3>5. ASSUME ordersDue[m] # "any", NEW w \in waitingFor'[m], LeadsOf(m, w)' # "same",
                 \A v \in waitingFor'[m] : v > w => LeadsOf(m, v)' = "same"
          PROVE  LeadsOf(m, w)' = ordersDue[m]
      <4>1. w \in waitingFor[m] /\ LeadsOf(m, w) # "same" /\ LeadsOf(m, w)' = LeadsOf(m, w)
        BY <3>5, <3>7
      <4>2. \A v \in waitingFor[m] : v > w => LeadsOf(m, v) = "same" BY <3>2, <3>5, <3>6
      <4> QED BY <1>3, <3>5, <4>1, <4>2 DEF DueAt
    <3> QED BY <1>2, <1>3, <3>1, <3>4, <3>5 DEF DueAt
  <2> QED BY <2>1, <2>2, <2>3
<1> QED BY <1>10, <1>11, <1>12, <1>13, <1>15 DEF LampAt

LEMMA HandsOrderStep ==
  ASSUME LampInv, NEW order \in Orders, NEW to \in SUBSET Lamps, NEW route \in Routes,
         HandsOrder(order, to, route)
  PROVE  LampInv'
<1> PICK r : r = NextNumber OBVIOUS
<1>1. Grown(order, to, route, r) BY HandsOrderIs
<1>2. \A m \in Lamps : WorkAt(m)' /\ LampAt(m)' BY HandsOrderAt
<1>3. LampTypes /\ dark = {} /\ LampAnswered BY DEF LampInv
<1>4. /\ waitingFor' = [m \in Lamps |-> IF AsksLamp(order, to, m)
                          THEN (waitingFor[m] \ OldAt(order, to, m)) \cup {r} ELSE waitingFor[m]]
      /\ ordersDue' = [m \in Lamps |-> IF AsksLamp(order, to, m) /\ Leads(Plan[order][m]) # "same"
                                       THEN Leads(Plan[order][m]) ELSE ordersDue[m]]
      /\ UNCHANGED <<power, news, reported, sentOn, reachable, active, doing, dark, blind>>
  BY DEF HandsOrder, AsksLamp, OldAt, NextNumber
<1>5. LampTypes'
  <2>1. waitingFor' \in [Lamps -> SUBSET Numbers'] BY <1>1, <1>3, <1>4 DEF LampTypes, Grown
  <2>2. \A m \in Lamps : Leads(Plan[order][m]) \in {"same", "any", "on", "off"}
    BY LampsAssumption, SameIsNone
  <2>3. ordersDue' \in [Lamps -> {"any", "on", "off"}] BY <1>3, <1>4, <2>2 DEF LampTypes
  <2> QED BY <1>3, <1>4, <2>1, <2>3 DEF LampTypes
<1>6. LampAnswered'
  <2> SUFFICES ASSUME NEW s \in Numbers \cup {r} PROVE AnsweredIn(s)'
    BY <1>1 DEF LampAnswered, Grown
  <2>1. CASE s = r
    <3>1. orders'[r].route = route /\ answer'[r] = IF route = "loxone" THEN "ok" ELSE "none"
      BY <1>1 DEF Grown
    <3> QED BY <2>1, <3>1 DEF AnsweredIn
  <2>2. CASE s \in Numbers
    <3>1. AnsweredIn(s) BY <1>3, <2>2 DEF LampAnswered
    <3>2. /\ orders'[s] = orders[s] /\ answer'[s] = answer[s]
          /\ touched'[s] = touched[s] /\ left'[s] = left[s]
          /\ \A m \in Lamps : result'[s][m] = IF s \in OldAt(order, to, m) THEN "replaced" ELSE result[s][m]
      BY <1>1, <2>2 DEF Grown
    <3>3. ASSUME orders[s].route = "ui", answer[s] # "none", NEW m \in Lamps
          PROVE  result'[s][m] = result[s][m]
      <4>1. result[s][m] # "pending" BY <3>1, <3>3 DEF AnsweredIn
      <4>2. PlaceAt(m) BY DEF LampInv, LampAt
      <4>3. s \notin waitingFor[m] BY <2>2, <4>1, <4>2 DEF PlaceAt
      <4> QED BY <3>2, <4>3 DEF OldAt, Superseded
    <3> QED BY <3>1, <3>2, <3>3 DEF AnsweredIn
  <2> QED BY <2>1, <2>2
<1>7. RequestTypes' BY <1>1 DEF Grown
<1> QED BY <1>2, <1>3, <1>4, <1>5, <1>6, <1>7 DEF LampInv, LampWork

----------------------------------------

LEMMA LampStarts == LampInit => LampInv
<1> SUFFICES ASSUME LampInit PROVE LampInv OBVIOUS
<1>1. /\ orders = <<>> /\ result = <<>> /\ answer = <<>> /\ touched = <<>> /\ left = <<>>
      /\ news = [m \in Lamps |-> <<>>] /\ waitingFor = [m \in Lamps |-> {}]
      /\ doing = [m \in Lamps |-> Nobody] /\ ordersDue = [m \in Lamps |-> "any"] /\ blind = {} /\ dark = {}
      /\ reachable = [m \in Lamps |-> TRUE] /\ active = [m \in Lamps |-> TRUE]
  BY DEF LampInit
<1>2. /\ power \in [Lamps -> BOOLEAN] /\ reported \in [Lamps -> {"none", "on", "off"}]
      /\ sentOn \in [Lamps -> {"none", "on", "off"}]
      /\ \A m \in Lamps : sentOn[m] = "on" => power[m]
  BY DEF LampInit
<1>3. Len(orders) = 0 /\ Numbers = {} BY <1>1 DEF Numbers
<1>4. LampTypes
  <2>1. <<>> \in Seq(Reports) OBVIOUS
  <2> QED BY <1>1, <1>2, <2>1, NobodyIs DEF LampTypes
<1>5. RequestTypes
  <2>1. \A S : <<>> \in [{} -> S] /\ <<>> \in Seq(S) OBVIOUS
  <2> QED BY <1>1, <1>3, <2>1 DEF RequestTypes
<1>6. LampWork BY <1>1, <1>3 DEF LampWork, WorkAt, WorkOf, Nobody
<1>7. \A m \in Lamps : LampAt(m)
  <2> SUFFICES ASSUME NEW m \in Lamps PROVE LampAt(m) OBVIOUS
  <2>1. LightAt(m) BY <1>1, <1>2 DEF LightAt, Nobody
  <2>2. PlaceAt(m) /\ TouchedAt(m) /\ DueAt(m) BY <1>1, <1>3 DEF PlaceAt, TouchedAt, DueAt
  <2> QED BY <2>1, <2>2 DEF LampAt
<1>8. LampAnswered BY <1>3 DEF LampAnswered
<1> QED BY <1>1, <1>4, <1>5, <1>6, <1>7, <1>8 DEF LampInv

LEMMA LampSteps == LampInv /\ [LampNext]_lampVars => LampInv'
<1> SUFFICES ASSUME LampInv, [LampNext]_lampVars PROVE LampInv' OBVIOUS
<1>1. CASE UNCHANGED lampVars
  <2> USE <1>1 DEF lampVars
  <2>1. LampTypes' /\ RequestTypes' /\ LampWork' /\ dark' = {}
    BY DEF LampInv, LampTypes, RequestTypes, LampWork, WorkAt, WorkOf, PlanOf, Numbers
  <2>2. \A m \in Lamps : LampAt(m)'
    BY DEF LampInv, LampAt, PlaceAt, LightAt, KnownOff, TouchedAt, TouchedIn, DueAt, AllSame, LeadsOf, PlanOf, Numbers
  <2>3. LampAnswered' BY DEF LampInv, LampAnswered, AnsweredIn, Numbers
  <2> QED BY <2>1, <2>2, <2>3 DEF LampInv
<1>2. CASE \E k \in Keys : GroupCommand(k) \/ DeviceCommand(k)
  <2>1. PICK k \in Keys : GroupCommand(k) \/ DeviceCommand(k) BY <1>2
  <2>2. k.order \in Orders /\ k.route \in Routes BY LampsAssumption
  <2>3. CASE GroupCommand(k)
    <3>1. {m \in Lamps : active[m]} \in SUBSET Lamps /\ HandsOrder(k.order, {m \in Lamps : active[m]}, k.route)
      BY <2>3 DEF GroupCommand
    <3> QED BY <2>2, <3>1, HandsOrderStep
  <2>4. CASE DeviceCommand(k)
    <3>1. {k.to} \in SUBSET Lamps /\ HandsOrder(k.order, {k.to}, k.route) BY <2>4 DEF DeviceCommand
    <3> QED BY <2>2, <3>1, HandsOrderStep
  <2> QED BY <2>1, <2>3, <2>4
<1>3. CASE \E r \in 1..MaxOrders : Answers(r) BY <1>3, AnswersStep
<1>4. CASE \E m \in Lamps : OneLamp(m) BY <1>4, OneLampStep
<1> QED BY <1>1, <1>2, <1>3, <1>4, SpecSteps

LEMMA LampInvSafe == LampInv => LampsSafe
<1> SUFFICES ASSUME LampInv PROVE LampsSafe OBVIOUS
<1>1. LampTypes /\ RequestTypes /\ LampWork /\ LampAnswered /\ dark = {} /\ \A m \in Lamps : LampAt(m)
  BY DEF LampInv
<1>2. LampTypeOK
  BY <1>1 DEF LampTypeOK, LampTypes, RequestTypes, LampWork, WorkAt, WorkOf, LampResults, Numbers
<1>3. LampFoundOn BY <1>1 DEF LampFoundOn
<1>4. OnePlace BY <1>1 DEF OnePlace, LampAt, PlaceAt
<1>5. AnswerIsTrue
  <2> SUFFICES ASSUME NEW r \in Numbers, orders[r].route = "ui", answer[r] # "none"
               PROVE  /\ \A m \in Asked(r) : result[r][m] # "pending" /\ doing[m].order # r
                      /\ answer[r] = "ok" => \A m \in Asked(r) : result[r][m] \in {"ok", "replaced"}
                      /\ answer[r] = "not configured" => \A m \in touched[r] : m \in left[r]
    BY DEF AnswerIsTrue
  <2>1. AnsweredIn(r) BY <1>1 DEF LampAnswered
  <2>2. \A m \in Asked(r) : m \in Lamps /\ result[r][m] # "none" BY DEF Asked
  <2>3. \A m \in Asked(r) : result[r][m] # "pending" /\ doing[m].order # r
    BY <1>1, <2>1, <2>2 DEF AnsweredIn, LampAt, PlaceAt
  <2> QED BY <2>1, <2>2, <2>3 DEF AnsweredIn
<1>6. LastWordCounts
  <2> SUFFICES ASSUME NEW m \in Lamps, doing[m] = Nobody, waitingFor[m] = {}, ordersDue[m] # "any"
               PROVE  power[m] = (ordersDue[m] = "on")
    BY DEF LastWordCounts
  <2>1. DueAt(m) /\ AllSame(m) /\ doing[m].order = 0 BY <1>1 DEF LampAt, AllSame, Nobody
  <2> QED BY <2>1 DEF DueAt
<1> QED BY <1>2, <1>3, <1>4, <1>5, <1>6 DEF LampsSafe

(* For any lamps, orders, plans and bounds: what LampsSafe says of a command on *)
(* its way holds always - no brightness finds its lamp off, each answer tells *)
(* what became of every lamp, and the last switching command is what the lamp *)
(* does in the end (fanout.py, switch_on.py, coalesce.py). *)
THEOREM LampsAreSafe == LampSpec => []LampsSafe
<1>1. LampInit => LampInv BY LampStarts
<1>2. LampInv /\ [LampNext]_lampVars => LampInv' BY LampSteps
<1>3. LampInv => LampsSafe BY LampInvSafe
<1> QED BY <1>1, <1>2, <1>3, PTL DEF LampSpec

----------------------------------------
(***************************************************************************)
(* The translation of a light command (LightAdapt).                        *)
(***************************************************************************)

(* A level lies within half a step of the percentage. *)
LEMMA RoundedNear ==
  ASSUME NEW a \in Int
  PROVE  /\ RoundedDiv(a, 100) \in Int
         /\ 100 * RoundedDiv(a, 100) <= a + 50 /\ a <= 100 * RoundedDiv(a, 100) + 50
<1> DEFINE q == a \div 100
           r == a % 100
<1>1. q \in Int /\ r \in 0..99 /\ a = 100 * q + r OBVIOUS
<1>2. RoundedDiv(a, 100) = IF 2 * r > 100 \/ (2 * r = 100 /\ q % 2 = 1) THEN q + 1 ELSE q
  BY DEF RoundedDiv
<1>3. RoundedDiv(a, 100) \in {q, q + 1} /\ (2 * r > 100 => RoundedDiv(a, 100) = q + 1)
      /\ (2 * r < 100 => RoundedDiv(a, 100) = q)
  <2> HIDE DEF q, r
  <2> QED BY <1>1, <1>2
<1> HIDE DEF q, r
<1>4. CASE RoundedDiv(a, 100) = q BY <1>1, <1>3, <1>4
<1>5. CASE RoundedDiv(a, 100) = q + 1 BY <1>1, <1>3, <1>5
<1> QED BY <1>3, <1>4, <1>5

(* More is never darker, and only what rounds to 0 switches off *)
(* (level_from_percent in commands/translate.py), for any percentages. *)
LEMMA LevelsRoundRight == AdaptSpec => []LevelsAreMonotone
<1>1. ASSUME NEW p \in Int, NEW q \in Int, p <= q PROVE LevelFromPercent(p) <= LevelFromPercent(q)
  <2> DEFINE a == RoundedDiv(p * 254, 100)
             b == RoundedDiv(q * 254, 100)
  <2>1. /\ a \in Int /\ 100 * a <= p * 254 + 50 /\ p * 254 <= 100 * a + 50
        /\ b \in Int /\ 100 * b <= q * 254 + 50 /\ q * 254 <= 100 * b + 50
    BY RoundedNear
  <2>2. LevelFromPercent(p) = (IF a < 0 THEN 0 ELSE IF a > 254 THEN 254 ELSE a)
        /\ LevelFromPercent(q) = (IF b < 0 THEN 0 ELSE IF b > 254 THEN 254 ELSE b)
    BY DEF LevelFromPercent, LevelMax
  <2>3. a <= b
    <3>1. CASE p = q BY <2>1, <3>1
    <3>2. CASE p < q
      <4> HIDE DEF a, b
      <4> QED BY <1>1, <2>1, <3>2
    <3> QED BY <1>1, <3>1, <3>2
  <2> HIDE DEF a, b
  <2> QED BY <2>1, <2>2, <2>3
<1>2. ASSUME NEW p \in Int
      PROVE  (p <= 0 => LevelFromPercent(p) = 0) /\ (p >= 1 => LevelFromPercent(p) > 0)
  <2> DEFINE a == RoundedDiv(p * 254, 100)
  <2>1. a \in Int /\ 100 * a <= p * 254 + 50 /\ p * 254 <= 100 * a + 50 BY RoundedNear
  <2>2. LevelFromPercent(p) = (IF a < 0 THEN 0 ELSE IF a > 254 THEN 254 ELSE a)
    BY DEF LevelFromPercent, LevelMax
  <2> HIDE DEF a
  <2>3. p <= 0 => a <= 0 BY <2>1
  <2>4. p >= 1 => a > 0 BY <2>1
  <2> QED BY <2>1, <2>2, <2>3, <2>4
<1>3. LevelsAreMonotone BY <1>1, <1>2, AdaptAssumption DEF LevelsAreMonotone
<1> QED BY <1>3, PTL

(* What a light is sent, and the orders that are right. *)
Calls == [endpoint : Nat, pair : AllPairs, arg : Int \cup {Plain, "white", "red"}]
Few(given) == given \in Seq(Calls)
Carried(given, e, here) == \A i \in DOMAIN given : given[i].endpoint = e /\ given[i].pair \in here
Ordered(given) == \A i, j \in DOMAIN given :
    i < j /\ given[i].pair \in Levels \cup {"on"} => given[j].pair \in Levels
NoColour(given) == \A i \in DOMAIN given : given[i].pair \in Levels \cup {"on", "off"}
NoSwitch(given) == \A i \in DOMAIN given : given[i].pair \notin Levels \cup {"on"}
Right(given, e, here) == Few(given) /\ Carried(given, e, here) /\ Ordered(given)

LEMMA NoCalls == ASSUME NEW e, NEW here PROVE Right(<<>>, e, here) /\ NoColour(<<>>) /\ NoSwitch(<<>>)
  BY DEF Right, Few, Carried, Ordered, NoColour, NoSwitch

LEMMA OneCall ==
  ASSUME NEW e \in Nat, NEW here \in SUBSET AllPairs, NEW pair \in here, NEW arg \in Int \cup {Plain, "white", "red"}
  PROVE  /\ Right(<<Call(e, pair, arg)>>, e, here)
         /\ pair \in Levels \cup {"on", "off"} => NoColour(<<Call(e, pair, arg)>>)
         /\ pair \notin Levels \cup {"on"} => NoSwitch(<<Call(e, pair, arg)>>)
<1>1. Call(e, pair, arg) \in Calls /\ Call(e, pair, arg).pair = pair /\ Call(e, pair, arg).endpoint = e
  BY DEF Call, Calls
<1> HIDE DEF Call
<1> DEFINE c == Call(e, pair, arg)
<1> HIDE DEF c
<1>2. c \in Calls /\ c.pair = pair /\ c.endpoint = e BY <1>1 DEF c
<1>3. Right(<<c>>, e, here)
  <2>1. DOMAIN <<c>> = {1} /\ <<c>>[1] = c /\ <<c>> \in Seq(Calls) BY <1>2
  <2> QED BY <1>2, <2>1 DEF Right, Few, Carried, Ordered
<1>4. /\ pair \in Levels \cup {"on", "off"} => NoColour(<<c>>)
      /\ pair \notin Levels \cup {"on"} => NoSwitch(<<c>>)
  BY <1>2 DEF NoColour, NoSwitch
<1> QED BY <1>3, <1>4 DEF c

(* The colour before the brightness, a switch before its level. *)
LEMMA OneAfterTheOther ==
  ASSUME NEW e, NEW here, NEW a, NEW b, Right(a, e, here), Right(b, e, here),
         NoSwitch(a) \/ (\A i \in DOMAIN b : b[i].pair \in Levels)
  PROVE  Right(a \o b, e, here) /\ (NoColour(a) /\ NoColour(b) => NoColour(a \o b))
<1>1. a \in Seq(Calls) /\ b \in Seq(Calls) /\ Len(a) \in Nat /\ Len(b) \in Nat
      /\ DOMAIN a = 1..Len(a) /\ DOMAIN b = 1..Len(b)
  BY LenProperties DEF Right, Few
<1>2. /\ a \o b \in Seq(Calls) /\ DOMAIN (a \o b) = 1..(Len(a) + Len(b))
      /\ \A i \in 1..(Len(a) + Len(b)) : (a \o b)[i] = IF i <= Len(a) THEN a[i] ELSE b[i - Len(a)]
  BY ONLY <1>1, ConcatProperties, LenProperties
<1> DEFINE g == a \o b
<1>3. \A i \in DOMAIN g : \/ i \in DOMAIN a /\ g[i] = a[i]
                          \/ i > Len(a) /\ i - Len(a) \in DOMAIN b /\ g[i] = b[i - Len(a)]
  <2> SUFFICES ASSUME NEW i \in 1..(Len(a) + Len(b))
               PROVE  \/ i \in 1..Len(a) /\ g[i] = a[i]
                      \/ i > Len(a) /\ i - Len(a) \in 1..Len(b) /\ g[i] = b[i - Len(a)]
    BY <1>1, <1>2
  <2>1. CASE i <= Len(a) BY <1>1, <1>2, <2>1
  <2>2. CASE i > Len(a)
    <3>1. i - Len(a) \in 1..Len(b) /\ ~(i <= Len(a)) BY <1>1, <2>2
    <3> QED BY <1>2, <2>2, <3>1
  <2> QED BY <1>1, <2>1, <2>2
<1> HIDE DEF g
<1>4. Carried(g, e, here) BY <1>3 DEF Carried, Right
<1>5. NoColour(a) /\ NoColour(b) => NoColour(g) BY <1>3 DEF NoColour
<1>6. Ordered(g)
  <2> SUFFICES ASSUME NEW i \in DOMAIN g, NEW j \in DOMAIN g, i < j, g[i].pair \in Levels \cup {"on"}
               PROVE  g[j].pair \in Levels
    BY DEF Ordered
  <2>1. i \in Nat /\ j \in Nat BY <1>1, <1>2 DEF g
  <2>2. CASE i \in DOMAIN a /\ g[i] = a[i]
    <3>1. ~NoSwitch(a) BY <2>2 DEF NoSwitch
    <3>2. CASE j \in DOMAIN a /\ g[j] = a[j] BY <2>2, <3>2 DEF Right, Ordered
    <3> QED BY <1>3, <3>1, <3>2
  <2>3. CASE i > Len(a) /\ i - Len(a) \in DOMAIN b /\ g[i] = b[i - Len(a)]
    <3>1. j > Len(a) /\ j \notin DOMAIN a BY <1>1, <2>1, <2>3
    <3>2. j - Len(a) \in DOMAIN b /\ g[j] = b[j - Len(a)] BY <1>3, <3>1
    <3>3. i - Len(a) < j - Len(a) BY <1>1, <2>1
    <3> QED BY <2>3, <3>2, <3>3 DEF Right, Ordered
  <2> QED BY <1>3, <2>2, <2>3
<1> QED BY <1>2, <1>4, <1>5, <1>6 DEF Right, Few, g

LEMMA LevelIs == ASSUME NEW p \in Int PROVE LevelFromPercent(p) \in 0..254
<1>1. RoundedDiv(p * 254, 100) \in Int BY RoundedNear
<1> HIDE DEF RoundedDiv
<1> QED BY <1>1 DEF LevelFromPercent, LevelMax

LEMMA BrightnessRight ==
  ASSUME NEW e \in Nat, NEW here \in SUBSET AllPairs, NEW p \in Int, NEW dims \in BOOLEAN
  PROVE  Right(Brightness(e, here, p, dims), e, here) /\ NoColour(Brightness(e, here, p, dims))
<1> DEFINE dim == LevelFromPercent(p)
           b == Brightness(e, here, p, dims)
           Good(g) == Right(g, e, here) /\ NoColour(g)
<1>1. dim \in 0..254 BY LevelIs
<1>2. Plain \in Int \cup {Plain, "white", "red"} /\ dim \in Int \cup {Plain, "white", "red"}
      /\ 0 \in Int \cup {Plain, "white", "red"}
  BY <1>1
<1>3. \/ "levelOnOff" \in here /\ b = <<Call(e, "levelOnOff", dim)>>
      \/ "off" \in here /\ b = <<Call(e, "off", Plain)>>
      \/ "level" \in here /\ b = <<Call(e, "level", 0)>>
      \/ "level" \in here /\ "on" \in here /\ b = <<Call(e, "on", Plain)>> \o <<Call(e, "level", dim)>>
      \/ "level" \in here /\ b = <<>> \o <<Call(e, "level", dim)>>
      \/ "on" \in here /\ b = <<Call(e, "on", Plain)>>
      \/ b = <<>>
  <2>1. CASE "levelOnOff" \in here BY <2>1 DEF Brightness, Levels
  <2>2. CASE "levelOnOff" \notin here /\ "level" \in here
    <3>1. dim = 0 \/ dim > 0 BY <1>1
    <3>2. here \cap Levels # {} BY <2>2 DEF Levels
    <3> HIDE DEF dim
    <3>3. CASE dim = 0
      <4>1. b = <<IF "off" \in here THEN Call(e, "off", Plain) ELSE Call(e, "level", 0)>>
        BY <1>1, <2>2, <3>2, <3>3 DEF Brightness, dim
      <4> HIDE DEF b
      <4> QED BY <2>2, <4>1
    <3>4. CASE dim > 0
      <4>1. b = (IF "on" \in here THEN <<Call(e, "on", Plain)>> ELSE <<>>) \o <<Call(e, "level", dim)>>
        BY <1>1, <2>2, <3>2, <3>4 DEF Brightness, dim
      <4> HIDE DEF b
      <4> QED BY <2>2, <4>1
    <3> QED BY <3>1, <3>3, <3>4
  <2>3. CASE here \cap Levels = {}
    <3>1. "levelOnOff" \notin here /\ "level" \notin here BY <2>3 DEF Levels
    <3>2. b = IF {"on", "off"} \subseteq here /\ ~dims
              THEN <<Call(e, IF dim > 0 THEN "on" ELSE "off", Plain)>> ELSE <<>>
      BY <2>3, <3>1 DEF Brightness
    <3> HIDE DEF b, dim
    <3> QED BY <3>2
  <2> QED BY <2>1, <2>2, <2>3 DEF Levels
<1>4. "levelOnOff" \in Levels \cup {"on", "off"} /\ "level" \in Levels \cup {"on", "off"}
  BY DEF Levels
<1>5. \A q \in here \cap (Levels \cup {"on", "off"}), a \in {Plain, dim, 0} : Good(<<Call(e, q, a)>>)
  BY <1>2, OneCall
<1>6. Good(<<>>) BY NoCalls
<1>7. "level" \in here => \A i \in DOMAIN <<Call(e, "level", dim)>> : <<Call(e, "level", dim)>>[i].pair \in Levels
  BY DEF Call, Levels
<1>8. "level" \in here => Good(<<>> \o <<Call(e, "level", dim)>>)
  BY <1>4, <1>5, <1>6, <1>7, OneAfterTheOther
<1>9. "level" \in here /\ "on" \in here => Good(<<Call(e, "on", Plain)>> \o <<Call(e, "level", dim)>>)
  BY <1>4, <1>5, <1>7, OneAfterTheOther
<1>10. Good(b)
  <2> HIDE DEF b, dim, Good
  <2> QED BY <1>3, <1>4, <1>5, <1>6, <1>8, <1>9
<1> QED BY <1>10

LEMMA ColourRight ==
  ASSUME NEW e \in Nat, NEW here \in SUBSET AllPairs, NEW pair, NEW colour \in {"white", "red"}
  PROVE  Right(Colour(e, here, pair, colour), e, here) /\ NoSwitch(Colour(e, here, pair, colour))
<1> DEFINE c == Colour(e, here, pair, colour)
           Good(g) == Right(g, e, here) /\ NoSwitch(g)
<1>1. \/ "white" \in here /\ c = <<Call(e, "white", "white")>>
      \/ "xy" \in here /\ c = <<Call(e, "xy", "white")>>
      \/ "hs" \in here /\ c = <<Call(e, "hs", "white")>>
      \/ "xy" \in here /\ c = <<Call(e, "xy", colour)>>
      \/ "hs" \in here /\ c = <<Call(e, "hs", colour)>>
      \/ c = <<>>
  BY DEF Colour, ColourPoint
<1>2. "white" \notin Levels \cup {"on"} /\ "xy" \notin Levels \cup {"on"} /\ "hs" \notin Levels \cup {"on"}
  BY DEF Levels
<1>3. \A q \in here : q \notin Levels \cup {"on"} => \A a \in {"white", "red"} : Good(<<Call(e, q, a)>>)
  BY OneCall
<1>4. Good(<<>>) BY NoCalls
<1>5. Good(c)
  <2> HIDE DEF c, Good
  <2> QED BY <1>1, <1>2, <1>3, <1>4
<1> QED BY <1>5

LEMMA OwnRight ==
  ASSUME NEW e \in Nat, NEW here \in SUBSET AllPairs, NEW pair \in here, pair \notin Decoded,
         NEW v, v.percent \in Int
  PROVE  Right(ToDeviceCalls(e, pair, v), e, here)
<1> DEFINE dim == LevelFromPercent(v.percent)
           g == ToDeviceCalls(e, pair, v)
<1>1. dim \in Int BY LevelIs
<1>2. \/ g = <<Call(e, pair, Plain)>>
      \/ g = <<Call(e, pair, dim)>>
      \/ g = <<Call(e, pair, "white")>>
      \/ g = <<>>
  BY DEF ToDeviceCalls, AllPairs, Decoded, Levels
<1>3. \A a \in {Plain, dim, "white"} : Right(<<Call(e, pair, a)>>, e, here) BY <1>1, OneCall
<1>4. Right(<<>>, e, here) BY NoCalls
<1> HIDE DEF g, dim
<1>5. Right(g, e, here) BY <1>2, <1>3, <1>4
<1> QED BY <1>5 DEF g

Values == [percent : Int, colour : {"white", "red"}]

LEMMA EndpointRight ==
  ASSUME NEW e \in Nat, NEW here \in SUBSET AllPairs, NEW pair \in AllPairs, NEW v \in Values, NEW dims \in BOOLEAN
  PROVE  Right(EndpointCalls(e, pair, here, v, dims), e, here)
<1> DEFINE g == EndpointCalls(e, pair, here, v, dims)
<1>1. v.percent \in Int /\ v.colour \in {"white", "red"} /\ 0 \in Int BY DEF Values
<1>2. Right(Brightness(e, here, 0, dims), e, here) /\ Right(Brightness(e, here, v.percent, dims), e, here)
  BY <1>1, BrightnessRight
<1>3. Right(Colour(e, here, pair, v.colour), e, here) /\ NoSwitch(Colour(e, here, pair, v.colour))
  BY <1>1, ColourRight
<1>4. Right(Colour(e, here, pair, v.colour) \o Brightness(e, here, v.percent, dims), e, here)
  BY <1>2, <1>3, OneAfterTheOther
<1>5. pair \in here /\ pair \notin Decoded => Right(ToDeviceCalls(e, pair, v), e, here)
  BY <1>1, OwnRight
<1>6. Right(ColourPoint(e, here), e, here)
  <2>1. \/ "xy" \in here /\ ColourPoint(e, here) = <<Call(e, "xy", "white")>>
        \/ "hs" \in here /\ ColourPoint(e, here) = <<Call(e, "hs", "white")>>
        \/ ColourPoint(e, here) = <<>>
    BY DEF ColourPoint
  <2> QED BY <2>1, OneCall, NoCalls
<1>7. Right(<<>>, e, here) BY NoCalls
<1>8. \/ g = Brightness(e, here, 0, dims) \/ g = Brightness(e, here, v.percent, dims)
      \/ g = Colour(e, here, pair, v.colour) \o Brightness(e, here, v.percent, dims)
      \/ pair \in here /\ pair \notin Decoded /\ g = ToDeviceCalls(e, pair, v)
      \/ g = ColourPoint(e, here) \/ g = <<>>
  BY DEF EndpointCalls
<1> HIDE DEF g
<1>9. Right(g, e, here) BY <1>2, <1>4, <1>5, <1>6, <1>7, <1>8
<1> QED BY <1>9 DEF g

LEMMA SameAlone ==
  ASSUME NEW e \in Nat, NEW here \in SUBSET AllPairs, NEW pair \in AllPairs \ {"lumitech"},
         NEW v \in Values, NEW dims \in BOOLEAN, {pair, "white", "levelOnOff"} \subseteq here
  PROVE  EndpointCalls(e, pair, here, v, dims) = ToDeviceCalls(e, pair, v)
<1> DEFINE dim == LevelFromPercent(v.percent)
<1>0. v.percent \in Int /\ v.colour \in {"white", "red"} BY DEF Values
<1>1. CASE pair \notin Decoded BY <1>1 DEF EndpointCalls
<1>2. CASE pair \in Decoded
  <2>1. pair \in {"hs", "xy"} /\ pair \in here /\ "white" \in here /\ "levelOnOff" \in here
    BY <1>2 DEF Decoded
  <2>2. LevelFromPercent(0) = 0 BY DEF LevelFromPercent, RoundedDiv, LevelMax
  <2>3. Brightness(e, here, 0, dims) = <<Call(e, "levelOnOff", 0)>>
        /\ Brightness(e, here, v.percent, dims) = <<Call(e, "levelOnOff", dim)>>
    <3>1. here \cap Levels # {} BY <2>1 DEF Levels
    <3>2. \A p : Brightness(e, here, p, dims) = <<Call(e, "levelOnOff", LevelFromPercent(p))>>
      BY <2>1, <3>1 DEF Brightness
    <3> QED BY <2>2, <3>2
  <2>4. Colour(e, here, pair, v.colour) = <<Call(e, IF v.colour = "white" THEN "white" ELSE pair, v.colour)>>
    BY <1>0, <2>1 DEF Colour
  <2>5. ToDeviceCalls(e, pair, v) = (IF dim = 0 THEN <<>>
            ELSE <<Call(e, IF v.colour = "white" THEN "white" ELSE pair, v.colour)>>)
           \o <<Call(e, "levelOnOff", dim)>>
    BY <2>1 DEF ToDeviceCalls, Levels
  <2>6. EndpointCalls(e, pair, here, v, dims) =
          IF dim = 0 THEN <<Call(e, "levelOnOff", 0)>>
          ELSE <<Call(e, IF v.colour = "white" THEN "white" ELSE pair, v.colour)>> \o <<Call(e, "levelOnOff", dim)>>
    BY <1>2, <2>3, <2>4 DEF EndpointCalls
  <2>7. <<>> \o <<Call(e, "levelOnOff", 0)>> = <<Call(e, "levelOnOff", 0)>> OBVIOUS
  <2> HIDE DEF dim
  <2> QED BY <2>5, <2>6, <2>7
<1> QED BY <1>1, <1>2

(* A recursive function over a list's positions has a value at each of them. *)
Steps(step, S, n) == \A i \in 1..n, s \in S : step[<<i, s>>] \in S
Folded(f, S, n, start, step) ==
    f \in [0..n -> S] /\ f[0] = start /\ \A i \in 1..n : f[i] = step[<<i, f[i - 1]>>]

LEMMA FoldExists ==
  ASSUME NEW S, NEW n \in Nat, NEW start \in S, NEW step, Steps(step, S, n)
  PROVE  \E f : Folded(f, S, n, start, step)
<1> USE DEF Folded, Steps
<1> DEFINE Upto(f, k) == Folded(f, S, k, start, step)
           Bad == {k \in 0..n : ~\E f : Upto(f, k)}
<1>1. Bad = {}
  <2> SUFFICES ASSUME ~(Bad = {}) PROVE FALSE OBVIOUS
  <2>1. Bad \in SUBSET Nat OBVIOUS
  <2>2. PICK k \in Bad : \A j \in Bad : k <= j
    <3> HIDE DEF Bad
    <3> QED BY <2>1, NatLeast
  <2>3. k \in 0..n /\ ~\E f : Upto(f, k) BY <2>2
  <2>4. CASE k = 0
    <3>1. Upto([i \in 0..0 |-> start], 0) OBVIOUS
    <3> QED BY <2>3, <2>4, <3>1
  <2>5. CASE k > 0
    <3>1. k - 1 \in 0..n /\ ~(k <= k - 1) /\ k \in Nat BY <2>3, <2>5
    <3>2. k - 1 \notin Bad
      <4> HIDE DEF Bad
      <4> QED BY <2>2, <3>1
    <3>3. PICK f : Upto(f, k - 1) BY <3>1, <3>2
    <3>4. f[k - 1] \in S /\ k \in 1..n BY <2>3, <2>5, <3>1, <3>3
    <3> DEFINE g == [i \in 0..k |-> IF i = k THEN step[<<k, f[k - 1]>>] ELSE f[i]]
    <3>5. step[<<k, f[k - 1]>>] \in S BY <3>4
    <3>6. \A i \in 0..k : i # k => i \in 0..(k - 1) /\ g[i] = f[i] BY <3>1
    <3>7. k \in 0..k /\ 0 \in 0..k /\ k - 1 \in 0..k /\ k - 1 # k /\ 0 # k BY <2>5, <3>1
    <3>8. g \in [0..k -> S] BY <3>3, <3>5, <3>6
    <3>9. g[k] = step[<<k, f[k - 1]>>] /\ g[0] = f[0] /\ g[k - 1] = f[k - 1] BY <3>7
    <3> HIDE DEF g
    <3>10. ASSUME NEW i \in 1..k PROVE g[i] = step[<<i, g[i - 1]>>]
      <4>1. CASE i = k BY <3>9, <4>1
      <4>2. CASE i # k
        <5>1. i \in 1..(k - 1) /\ i \in 0..k /\ i - 1 \in 0..k /\ i - 1 # k BY <3>1, <4>2
        <5>2. g[i] = f[i] /\ g[i - 1] = f[i - 1] BY <3>6, <4>2, <5>1
        <5> QED BY <3>3, <5>1, <5>2
      <4> QED BY <4>1, <4>2
    <3>11. Upto(g, k) BY <3>3, <3>8, <3>9, <3>10
    <3> QED BY <2>3, <3>11
  <2> QED BY <2>3, <2>4, <2>5
<1>2. n \in 0..n OBVIOUS
<1>3. n \notin Bad BY <1>1
<1> QED BY <1>2, <1>3

(* A sequence of sequences is joined from the front. *)
JoinedUp(f, p, n, S) == /\ f \in [0..n -> Seq(S)] /\ FlattenSeq(p) = f[n] /\ f[0] = <<>>
                      /\ \A i \in 1..n : f[i] = f[i - 1] \o p[i]

LEMMA FlattenIs ==
  ASSUME NEW S, NEW n \in Nat \ {0}, NEW p, p \in [1..n -> Seq(S)]
  PROVE  \E f : JoinedUp(f, p, n, S)
<1> DEFINE step == [c \in (1..n) \X Seq(S) |-> c[2] \o p[c[1]]]
<1>0. n \in Nat /\ n > 0 /\ n \in 1..n /\ 1 \in 1..n /\ n # 0 OBVIOUS
<1>1. \A i \in 1..n, s \in Seq(S) : step[<<i, s>>] = s \o p[i] /\ step[<<i, s>>] \in Seq(S)
  <2> TAKE i \in 1..n, s \in Seq(S)
  <2>1. p[i] \in Seq(S) OBVIOUS
  <2>2. s \o p[i] \in Seq(S) BY ONLY <2>1, ConcatProperties, s \in Seq(S)
  <2>3. <<i, s>> \in (1..n) \X Seq(S) OBVIOUS
  <2> QED BY <2>2, <2>3
<1>2. Steps(step, Seq(S), n) BY <1>1 DEF Steps
<1>3. <<>> \in Seq(S) OBVIOUS
<1>4. PICK f : f \in [0..n -> Seq(S)] /\ f[0] = <<>> /\ \A i \in 1..n : f[i] = step[<<i, f[i - 1]>>]
  <2> HIDE DEF step
  <2>1. \E f : Folded(f, Seq(S), n, <<>>, step) BY <1>0, <1>2, <1>3, FoldExists
  <2> QED BY <2>1 DEF Folded
<1>5. \A i \in 1..n : i - 1 \in 0..n /\ f[i - 1] \in Seq(S) /\ f[i] = f[i - 1] \o p[i]
  <2> TAKE i \in 1..n
  <2>1. i - 1 \in 0..n /\ f[i - 1] \in Seq(S) BY <1>0, <1>4
  <2>2. f[i] = step[<<i, f[i - 1]>>] BY <1>4
  <2> HIDE DEF step
  <2> QED BY <1>1, <2>1, <2>2
<1>6. f[1] = p[1]
  <2>1. f[1] = f[0] \o p[1] /\ p[1] \in Seq(S)
    <3>1. \A i \in 1..n, j \in 0..n : j = i - 1 => f[i] = f[j] \o p[i] BY <1>5
    <3> QED BY <1>0, <3>1
  <2>2. <<>> \o p[1] = p[1] BY ONLY <2>1, EmptySeq, ConcatEmptySeq
  <2> QED BY <1>4, <2>1, <2>2
<1> HIDE DEF step
<1> DEFINE b == [i \in 1..n |-> f[i]]
<1>7. b = [i \in 1..n |-> IF i = 1 THEN p[i] ELSE b[i - 1] \o p[i]]
  <2>1. ASSUME NEW i \in 1..n PROVE b[i] = IF i = 1 THEN p[i] ELSE b[i - 1] \o p[i]
    <3>1. CASE i = 1 BY <1>6, <3>1
    <3>2. CASE i # 1
      <4>1. i - 1 \in 1..n BY <1>0, <3>2
      <4>2. b[i] = f[i] /\ b[i - 1] = f[i - 1] BY <4>1
      <4> QED BY <1>5, <3>2, <4>2
    <3> QED BY <3>1, <3>2
  <2> QED BY <2>1
<1> HIDE DEF b
<1> DEFINE c == CHOOSE h : h = [i \in 1..n |-> IF i = 1 THEN p[i] ELSE h[i - 1] \o p[i]]
<1>8. c = [i \in 1..n |-> IF i = 1 THEN p[i] ELSE c[i - 1] \o p[i]] BY <1>7
<1>9. Len(p) = n
  <2>1. p \in Seq(Seq(S)) BY <1>0
  <2> QED BY <1>0, <2>1, LenProperties
<1>10. FlattenSeq(p) = c[n] BY <1>0, <1>9 DEF FlattenSeq
<1> HIDE DEF c
<1>11. \A i \in 1..n : c[i] = IF i = 1 THEN p[i] ELSE c[i - 1] \o p[i]
  <2> TAKE i \in 1..n
  <2> DEFINE h == [j \in 1..n |-> IF j = 1 THEN p[j] ELSE c[j - 1] \o p[j]]
  <2>1. h[i] = IF i = 1 THEN p[i] ELSE c[i - 1] \o p[i] OBVIOUS
  <2>2. c = h BY <1>8
  <2> HIDE DEF h
  <2> QED BY <2>1, <2>2
<1> DEFINE Bad == {i \in 1..n : c[i] # f[i]}
<1>12. Bad = {}
  <2> SUFFICES ASSUME ~(Bad = {}) PROVE FALSE OBVIOUS
  <2>1. Bad \in SUBSET Nat OBVIOUS
  <2>2. PICK k \in Bad : \A j \in Bad : k <= j
    <3> HIDE DEF Bad
    <3> QED BY <2>1, NatLeast
  <2>3. k \in 1..n /\ c[k] # f[k] BY <2>2
  <2>4. k # 1 BY <1>6, <1>11, <2>3
  <2>5. k - 1 \in 1..n /\ ~(k <= k - 1) BY <1>0, <2>3, <2>4
  <2>6. k - 1 \notin Bad
    <3> HIDE DEF Bad
    <3> QED BY <2>2, <2>5
  <2>7. c[k - 1] = f[k - 1] BY <2>5, <2>6
  <2>8. c[k] = c[k - 1] \o p[k] /\ f[k] = f[k - 1] \o p[k] BY <1>5, <1>11, <2>3, <2>4
  <2> QED BY <2>3, <2>7, <2>8
<1>13. FlattenSeq(p) = f[n] BY <1>0, <1>10, <1>12
<1> QED BY <1>4, <1>5, <1>13 DEF JoinedUp

(* The calls c stand together in g, and are all that g has for endpoint e. *)
Segment(g, e, a, c) ==
    /\ a \in Nat /\ a + Len(c) <= Len(g)
    /\ \A i \in 1..Len(c) : g[a + i] = c[i]
    /\ \A k \in 1..Len(g) : g[k].endpoint = e <=> a < k /\ k <= a + Len(c)
OwnCalls(c, e) == c \in Seq(Calls) /\ \A i \in 1..Len(c) : c[i].endpoint = e

(* Another endpoint's calls after it leave a segment as it is. *)
LEMMA SegmentStays ==
  ASSUME NEW g \in Seq(Calls), NEW e, NEW x, x # e, NEW a, NEW c \in Seq(Calls), NEW b,
         Segment(g, e, a, c), OwnCalls(b, x)
  PROVE  Segment(g \o b, e, a, c)
<1>1. /\ b \in Seq(Calls) /\ Len(g) \in Nat /\ Len(b) \in Nat /\ Len(c) \in Nat
  BY LenProperties DEF OwnCalls
<1>2. /\ g \o b \in Seq(Calls) /\ Len(g \o b) = Len(g) + Len(b)
      /\ \A i \in 1..(Len(g) + Len(b)) : (g \o b)[i] = IF i <= Len(g) THEN g[i] ELSE b[i - Len(g)]
  BY ONLY <1>1, ConcatProperties, LenProperties, g \in Seq(Calls)
<1> DEFINE h == g \o b
<1> HIDE DEF h
<1>3. a \in Nat /\ a + Len(c) <= Len(g) BY DEF Segment
<1>4. \A i \in 1..Len(c) : h[a + i] = c[i]
  <2> TAKE i \in 1..Len(c)
  <2>1. a + i \in 1..(Len(g) + Len(b)) /\ a + i <= Len(g) BY <1>1, <1>3
  <2>2. h[a + i] = g[a + i] BY <1>2, <2>1 DEF h
  <2> QED BY <2>2 DEF Segment
<1>5. \A k \in 1..Len(h) : h[k].endpoint = e <=> a < k /\ k <= a + Len(c)
  <2> TAKE k \in 1..Len(h)
  <2>0. k \in 1..(Len(g) + Len(b)) BY <1>2 DEF h
  <2>1. CASE k <= Len(g)
    <3>1. h[k] = g[k] /\ k \in 1..Len(g) BY <1>1, <1>2, <2>0, <2>1 DEF h
    <3> QED BY <3>1 DEF Segment
  <2>2. CASE k > Len(g)
    <3>1. k - Len(g) \in 1..Len(b) /\ ~(k <= Len(g)) BY <1>1, <2>0, <2>2
    <3>2. h[k] = b[k - Len(g)] BY <1>2, <2>0, <3>1 DEF h
    <3>3. h[k].endpoint = x BY <3>1, <3>2 DEF OwnCalls
    <3>4. ~(k <= a + Len(c)) BY <1>1, <1>3, <2>0, <2>2
    <3> QED BY <3>3, <3>4
  <2> QED BY <1>1, <2>0, <2>1, <2>2
<1>6. a + Len(c) <= Len(h) BY <1>1, <1>2, <1>3 DEF h
<1> QED BY <1>3, <1>4, <1>5, <1>6 DEF Segment, h

(* An endpoint's calls after those of others are a segment. *)
LEMMA SegmentBegins ==
  ASSUME NEW g \in Seq(Calls), NEW e, NEW b, OwnCalls(b, e),
         \A k \in 1..Len(g) : g[k].endpoint # e
  PROVE  Segment(g \o b, e, Len(g), b)
<1>1. /\ b \in Seq(Calls) /\ Len(g) \in Nat /\ Len(b) \in Nat BY LenProperties DEF OwnCalls
<1>2. /\ g \o b \in Seq(Calls) /\ Len(g \o b) = Len(g) + Len(b)
      /\ \A i \in 1..(Len(g) + Len(b)) : (g \o b)[i] = IF i <= Len(g) THEN g[i] ELSE b[i - Len(g)]
  BY ONLY <1>1, ConcatProperties, LenProperties, g \in Seq(Calls)
<1> DEFINE h == g \o b
<1> HIDE DEF h
<1>4. \A i \in 1..Len(b) : h[Len(g) + i] = b[i]
  <2> TAKE i \in 1..Len(b)
  <2>1. Len(g) + i \in 1..(Len(g) + Len(b)) /\ ~(Len(g) + i <= Len(g)) /\ Len(g) + i - Len(g) = i
    BY <1>1
  <2> QED BY <1>2, <2>1 DEF h
<1>5. \A k \in 1..Len(h) : h[k].endpoint = e <=> Len(g) < k /\ k <= Len(g) + Len(b)
  <2> TAKE k \in 1..Len(h)
  <2>0. k \in 1..(Len(g) + Len(b)) BY <1>2 DEF h
  <2>1. CASE k <= Len(g)
    <3>1. h[k] = g[k] /\ k \in 1..Len(g) /\ ~(Len(g) < k) BY <1>1, <1>2, <2>0, <2>1 DEF h
    <3> QED BY <3>1
  <2>2. CASE k > Len(g)
    <3>1. k - Len(g) \in 1..Len(b) /\ ~(k <= Len(g)) /\ Len(g) < k /\ k <= Len(g) + Len(b)
      BY <1>1, <2>0, <2>2
    <3>2. h[k] = b[k - Len(g)] BY <1>2, <2>0, <3>1 DEF h
    <3>3. h[k].endpoint = e BY <3>1, <3>2 DEF OwnCalls
    <3> QED BY <3>1, <3>3
  <2> QED BY <1>1, <2>0, <2>1, <2>2
<1>6. Len(g) + Len(b) <= Len(h) BY <1>1, <1>2 DEF h
<1> QED BY <1>1, <1>4, <1>5, <1>6 DEF Segment, h

(* Endpoint after endpoint, each gets its calls one after the other. *)
LEMMA EndpointAfterEndpoint ==
  ASSUME NEW n \in Nat \ {0}, NEW p, p \in [1..n -> Seq(Calls)], \A e \in 1..n : OwnCalls(p[e], e)
  PROVE  /\ FlattenSeq(p) \in Seq(Calls)
         /\ \A k \in 1..Len(FlattenSeq(p)) : FlattenSeq(p)[k].endpoint \in 1..n
         /\ \A e \in 1..n : \E a : Segment(FlattenSeq(p), e, a, p[e])
<1>0. n \in Nat /\ n > 0 /\ n \in 0..n OBVIOUS
<1>1. PICK f : /\ f \in [0..n -> Seq(Calls)] /\ FlattenSeq(p) = f[n] /\ f[0] = <<>>
               /\ \A i \in 1..n : f[i] = f[i - 1] \o p[i]
  <2>1. \E f : JoinedUp(f, p, n, Calls) BY FlattenIs
  <2> QED BY <2>1 DEF JoinedUp
<1> DEFINE Good(k) == /\ \A j \in 1..Len(f[k]) : f[k][j].endpoint \in 1..k
                      /\ \A e \in 1..k : \E a : Segment(f[k], e, a, p[e])
           Bad == {k \in 0..n : ~Good(k)}
<1>2. Bad = {}
  <2> SUFFICES ASSUME ~(Bad = {}) PROVE FALSE OBVIOUS
  <2>1. Bad \in SUBSET Nat OBVIOUS
  <2>2. PICK k \in Bad : \A j \in Bad : k <= j
    <3> HIDE DEF Bad
    <3> QED BY <2>1, NatLeast
  <2>3. k \in 0..n /\ ~Good(k) BY <2>2
  <2>4. k # 0
    <3>1. Len(f[0]) = 0 BY <1>1
    <3>2. Good(0) BY <3>1
    <3> QED BY <2>3, <3>2
  <2>5. k \in 1..n /\ k - 1 \in 0..n /\ ~(k <= k - 1) BY <1>0, <2>3, <2>4
  <2>13. \A x \in 1..(k - 1) : x # k /\ x \in 1..k BY <2>5
  <2>14. k \in 1..k BY <2>5
  <2>6. k - 1 \notin Bad
    <3> HIDE DEF Bad
    <3> QED BY <2>2, <2>5
  <2>7. Good(k - 1) BY <2>5, <2>6
  <2> DEFINE g == f[k - 1]
  <2>8. g \in Seq(Calls) /\ f[k] = g \o p[k] /\ OwnCalls(p[k], k) /\ p[k] \in Seq(Calls)
    BY <1>1, <2>5
  <2>9. /\ \A j \in 1..Len(g) : g[j].endpoint \in 1..(k - 1)
        /\ \A e \in 1..(k - 1) : \E a : Segment(g, e, a, p[e])
    BY <2>7
  <2> HIDE DEF g, Good
  <2>10. ASSUME NEW e \in 1..k PROVE \E a : Segment(f[k], e, a, p[e])
    <3>1. CASE e = k
      <4>1. \A j \in 1..Len(g) : g[j].endpoint # k BY <2>9, <2>13
      <4>2. Segment(g \o p[k], k, Len(g), p[k]) BY <2>8, <4>1, SegmentBegins
      <4> QED BY <2>8, <3>1, <4>2
    <3>2. CASE e # k
      <4>1. e \in 1..(k - 1) /\ e \in 1..n BY <2>5, <3>2
      <4>2. PICK a : Segment(g, e, a, p[e]) BY <2>9, <4>1
      <4>3. p[e] \in Seq(Calls) BY <4>1
      <4>4. Segment(g \o p[k], e, a, p[e]) BY <2>8, <3>2, <4>2, <4>3, SegmentStays
      <4> QED BY <2>8, <4>4
    <3> QED BY <3>1, <3>2
  <2>11. ASSUME NEW j \in 1..Len(f[k]) PROVE f[k][j].endpoint \in 1..k
    <3>1. Len(g) \in Nat /\ Len(p[k]) \in Nat BY <2>8, LenProperties
    <3>2. Len(f[k]) = Len(g) + Len(p[k])
          /\ \A i \in 1..(Len(g) + Len(p[k])) : (g \o p[k])[i] = IF i <= Len(g) THEN g[i] ELSE p[k][i - Len(g)]
      BY ONLY <2>8, ConcatProperties, LenProperties
    <3>3. CASE j <= Len(g)
      <4>1. f[k][j] = g[j] /\ j \in 1..Len(g) BY <2>8, <3>1, <3>2, <3>3
      <4>2. g[j].endpoint \in 1..(k - 1) BY <2>9, <4>1
      <4> QED BY <2>13, <4>1, <4>2
    <3>4. CASE j > Len(g)
      <4>1. j - Len(g) \in 1..Len(p[k]) /\ ~(j <= Len(g)) /\ j \in 1..(Len(g) + Len(p[k]))
        BY <3>1, <3>2, <3>4
      <4>2. f[k][j] = p[k][j - Len(g)] BY <2>8, <3>2, <4>1
      <4> QED BY <2>8, <2>14, <4>1, <4>2 DEF OwnCalls
    <3> QED BY <3>1, <3>2, <3>3, <3>4
  <2>12. Good(k) BY <2>10, <2>11 DEF Good
  <2> QED BY <2>3, <2>12
<1>3. Good(n) BY <1>0, <1>2
<1> QED BY <1>0, <1>1, <1>3

(* The lamp after the calls c, one after the other. *)
LeftAt(lamp, c, end) ==
    \E d : /\ d[0] = lamp /\ d[Len(c)] = end
           /\ \A i \in 1..Len(c) : d[i] = Shines(d[i - 1], c[i])

LEMMA Unmoved ==
  ASSUME NEW d, NEW b \in Nat, NEW m \in Nat, \A i \in (b + 1)..m : d[i] = d[i - 1]
  PROVE  \A i \in b..m : d[i] = d[b]
<1> DEFINE Bad == {i \in b..m : d[i] # d[b]}
<1> SUFFICES ASSUME ~(Bad = {}) PROVE FALSE OBVIOUS
<1>1. Bad \in SUBSET Nat OBVIOUS
<1>2. PICK k \in Bad : \A j \in Bad : k <= j
  <2> HIDE DEF Bad
  <2> QED BY <1>1, NatLeast
<1>3. k \in b..m /\ d[k] # d[b] BY <1>2
<1>4. k - 1 \in b..m /\ k \in (b + 1)..m /\ ~(k <= k - 1) BY <1>3
<1>5. k - 1 \notin Bad
  <2> HIDE DEF Bad
  <2> QED BY <1>2, <1>4
<1> QED BY <1>3, <1>4, <1>5

(* The states of a lamp; some of these values no lamp shows. *)
LampStates == [on : BOOLEAN, level : Int \cup {Plain, "white", "red", "green"},
          colour : Int \cup {Plain, "white", "red", "green"}]

LEMMA ShinesOn ==
  ASSUME NEW lamp \in LampStates, NEW given \in Calls
  PROVE  /\ Shines(lamp, given) \in LampStates
         /\ given.pair = "on" => Shines(lamp, given) = [lamp EXCEPT !.on = TRUE]
         /\ given.pair = "off" => Shines(lamp, given) = [lamp EXCEPT !.on = FALSE]
         /\ given.pair = "levelOnOff" /\ given.arg = 0 => Shines(lamp, given) = [lamp EXCEPT !.on = FALSE]
         /\ given.pair = "levelOnOff" /\ given.arg # 0 =>
              Shines(lamp, given) = [lamp EXCEPT !.on = TRUE, !.level = given.arg]
         /\ given.pair = "level" => Shines(lamp, given) = IF lamp.on THEN [lamp EXCEPT !.level = given.arg] ELSE lamp
         /\ given.pair \in {"hs", "xy", "white"} => Shines(lamp, given) = [lamp EXCEPT !.colour = given.arg]
<1>1. given.arg \in Int \cup {Plain, "white", "red", "green"} /\ given.pair \in AllPairs
  BY DEF Calls
<1>2. lamp.on \in BOOLEAN /\ lamp = [on |-> lamp.on, level |-> lamp.level, colour |-> lamp.colour]
      /\ lamp.level \in Int \cup {Plain, "white", "red", "green"}
      /\ lamp.colour \in Int \cup {Plain, "white", "red", "green"}
  BY DEF LampStates
<1>3. \A x \in BOOLEAN, y, z \in Int \cup {Plain, "white", "red", "green"} :
        [on |-> x, level |-> y, colour |-> z] \in LampStates
  BY DEF LampStates
<1>4. Shines(lamp, given) \in {[lamp EXCEPT !.on = TRUE], [lamp EXCEPT !.on = FALSE], [lamp EXCEPT !.on = ~lamp.on],
                              [lamp EXCEPT !.on = TRUE, !.level = given.arg], [lamp EXCEPT !.level = given.arg],
                              lamp, [lamp EXCEPT !.colour = given.arg]}
  BY DEF Shines
<1>5. \A l \in {[lamp EXCEPT !.on = TRUE], [lamp EXCEPT !.on = FALSE], [lamp EXCEPT !.on = ~lamp.on],
                [lamp EXCEPT !.on = TRUE, !.level = given.arg], [lamp EXCEPT !.level = given.arg],
                lamp, [lamp EXCEPT !.colour = given.arg]} : l \in LampStates
  BY <1>1 DEF LampStates
<1> QED BY <1>4, <1>5 DEF Shines

(* What a group's calls leave a lamp at is what its endpoint's own leave it at. *)
LEMMA AfterIsLeft ==
  ASSUME NEW g \in Seq(Calls), NEW e, NEW a, NEW c \in Seq(Calls), NEW lamp \in LampStates, Segment(g, e, a, c)
  PROVE  LeftAt(lamp, c, After(lamp, e, g))
<1> DEFINE m == Len(g)
           step == [x \in (1..m) \X LampStates |-> IF g[x[1]].endpoint = e THEN Shines(x[2], g[x[1]]) ELSE x[2]]
           OneOn(f) == [i \in 0..m |-> IF i = 0 THEN lamp
                        ELSE IF g[i].endpoint = e THEN Shines(f[i - 1], g[i]) ELSE f[i - 1]]
           lit == CHOOSE f : f = OneOn(f)
<1>0. m \in Nat /\ Len(c) \in Nat /\ a \in Nat /\ a + Len(c) <= m /\ \A i \in 1..m : g[i] \in Calls
  BY LenProperties, ElementOfSeq DEF Segment
<1>1. \A i \in 1..m, l \in LampStates : step[<<i, l>>] = (IF g[i].endpoint = e THEN Shines(l, g[i]) ELSE l)
                                   /\ step[<<i, l>>] \in LampStates
  <2> TAKE i \in 1..m, l \in LampStates
  <2>1. Shines(l, g[i]) \in LampStates BY <1>0, ShinesOn
  <2>2. <<i, l>> \in (1..m) \X LampStates OBVIOUS
  <2> HIDE DEF Shines, LampStates
  <2> QED BY <2>1, <2>2
<1>2. \E f : f = OneOn(f)
  <2>1. Steps(step, LampStates, m) BY <1>1 DEF Steps
  <2> HIDE DEF step
  <2>2. PICK f : Folded(f, LampStates, m, lamp, step) BY <1>0, <2>1, FoldExists
  <2>3. f \in [0..m -> LampStates] /\ f[0] = lamp BY <2>2 DEF Folded
  <2>4. \A i \in 1..m : f[i] = IF g[i].endpoint = e THEN Shines(f[i - 1], g[i]) ELSE f[i - 1]
    <3> TAKE i \in 1..m
    <3>1. i - 1 \in 0..m BY <1>0
    <3>2. f[i - 1] \in LampStates /\ f[i] = step[<<i, f[i - 1]>>] BY <2>2, <2>3, <3>1 DEF Folded
    <3> QED BY <1>1, <3>2
  <2>5. \A i \in 0..m : f[i] = OneOn(f)[i]
    <3> TAKE i \in 0..m
    <3>1. i = 0 \/ i \in 1..m BY <1>0
    <3> QED BY <2>3, <2>4, <3>1
  <2>6. f = OneOn(f) BY <2>3, <2>5
  <2> QED BY <2>6
<1>3. lit = OneOn(lit) BY <1>2
<1>4. After(lamp, e, g) = lit[m] BY DEF After
<1>5. lit[0] = lamp /\ \A i \in 1..m : lit[i] = IF g[i].endpoint = e THEN Shines(lit[i - 1], g[i]) ELSE lit[i - 1]
  <2> HIDE DEF lit
  <2> DEFINE h == OneOn(lit)
  <2>1. h[0] = lamp /\ \A i \in 1..m : h[i] = IF g[i].endpoint = e THEN Shines(lit[i - 1], g[i]) ELSE lit[i - 1]
    <3>1. 0 \in 0..m BY <1>0
    <3>2. \A i \in 1..m : i \in 0..m /\ i # 0 BY <1>0
    <3> HIDE DEF m
    <3> QED BY <3>1, <3>2
  <2>2. h = lit BY <1>3
  <2> HIDE DEF h
  <2> QED BY <2>1, <2>2
<1> HIDE DEF lit, step, m, OneOn
<1>6. \A i \in 1..m : g[i].endpoint = e <=> a < i /\ i <= a + Len(c) BY DEF Segment, m
<1>7. lit[a] = lamp
  <2>1. \A i \in (0 + 1)..a : lit[i] = lit[i - 1]
    <3> TAKE i \in (0 + 1)..a
    <3>1. i \in 1..m /\ ~(a < i) BY <1>0
    <3> QED BY <1>5, <1>6, <3>1
  <2>2. a \in 0..a /\ 0 \in Nat BY <1>0
  <2>3. \A i \in 0..a : lit[i] = lit[0] BY <1>0, <2>1, <2>2, Unmoved
  <2> QED BY <1>5, <2>2, <2>3
<1>8. lit[m] = lit[a + Len(c)]
  <2> DEFINE b == a + Len(c)
  <2>0. b \in Nat /\ b <= m BY <1>0
  <2>1. \A i \in (b + 1)..m : lit[i] = lit[i - 1]
    <3> TAKE i \in (b + 1)..m
    <3>1. i \in 1..m /\ ~(i <= a + Len(c)) BY <1>0
    <3> QED BY <1>5, <1>6, <3>1
  <2> HIDE DEF b
  <2>2. \A i \in b..m : lit[i] = lit[b] BY <1>0, <2>0, <2>1, Unmoved
  <2>3. m \in b..m BY <1>0, <2>0
  <2> QED BY <2>2, <2>3 DEF b
<1> DEFINE d == [i \in 0..Len(c) |-> lit[a + i]]
<1>9. d[0] = lamp /\ d[Len(c)] = After(lamp, e, g)
  <2>1. 0 \in 0..Len(c) /\ Len(c) \in 0..Len(c) /\ a + 0 = a BY <1>0
  <2>2. d[0] = lit[a + 0] /\ d[Len(c)] = lit[a + Len(c)] BY <2>1
  <2> QED BY <1>4, <1>7, <1>8, <2>1, <2>2
<1>11. \A j \in 0..Len(c) : \A k : k = a + j => d[j] = lit[k] OBVIOUS
<1> HIDE DEF d
<1>10. ASSUME NEW i \in 1..Len(c) PROVE d[i] = Shines(d[i - 1], c[i])
  <2> DEFINE k == a + i
  <2>1. /\ k \in 1..m /\ a < k /\ k <= a + Len(c)
        /\ i \in 0..Len(c) /\ i - 1 \in 0..Len(c) /\ k - 1 = a + (i - 1)
    BY <1>0
  <2>2. g[k] = c[i] BY DEF Segment
  <2>3. k = a + i OBVIOUS
  <2> HIDE DEF k
  <2>4. d[i] = lit[k] /\ d[i - 1] = lit[k - 1] BY <1>11, <2>1, <2>3
  <2>5. lit[k] = Shines(lit[k - 1], g[k]) BY <1>5, <1>6, <2>1
  <2> QED BY <2>2, <2>4, <2>5
<1> QED BY <1>9, <1>10 DEF LeftAt

LEMMA LeftByNone == ASSUME NEW lamp, NEW end, LeftAt(lamp, <<>>, end) PROVE end = lamp
  BY DEF LeftAt

LEMMA LeftByOne == ASSUME NEW lamp, NEW x, NEW end, LeftAt(lamp, <<x>>, end) PROVE end = Shines(lamp, x)
<1>1. Len(<<x>>) = 1 /\ <<x>>[1] = x /\ 1 \in 1..1 /\ 1 - 1 = 0 OBVIOUS
<1>2. PICK d : d[0] = lamp /\ d[1] = end /\ \A i \in 1..1 : d[i] = Shines(d[i - 1], <<x>>[i])
  BY <1>1 DEF LeftAt
<1> QED BY <1>1, <1>2

LEMMA LeftByBoth ==
  ASSUME NEW lamp, NEW a \in Seq(Calls), NEW b \in Seq(Calls), NEW end, LeftAt(lamp, a \o b, end)
  PROVE  \E mid : LeftAt(lamp, a, mid) /\ LeftAt(mid, b, end)
<1>1. Len(a) \in Nat /\ Len(b) \in Nat BY LenProperties
<1>2. Len(a \o b) = Len(a) + Len(b)
      /\ \A i \in 1..(Len(a) + Len(b)) : (a \o b)[i] = IF i <= Len(a) THEN a[i] ELSE b[i - Len(a)]
  BY ONLY a \in Seq(Calls), b \in Seq(Calls), ConcatProperties, LenProperties
<1> DEFINE g == a \o b
<1> HIDE DEF g
<1>3. PICK d : d[0] = lamp /\ d[Len(g)] = end /\ \A i \in 1..Len(g) : d[i] = Shines(d[i - 1], g[i])
  BY DEF LeftAt, g
<1>4. Len(g) = Len(a) + Len(b) BY <1>2 DEF g
<1>5. LeftAt(lamp, a, d[Len(a)])
  <2>1. \A i \in 1..Len(a) : d[i] = Shines(d[i - 1], a[i])
    <3> TAKE i \in 1..Len(a)
    <3>1. i \in 1..(Len(a) + Len(b)) /\ i <= Len(a) BY <1>1
    <3>2. g[i] = a[i] BY <1>2, <3>1 DEF g
    <3> QED BY <1>3, <1>4, <3>1, <3>2
  <2> QED BY <1>3, <2>1 DEF LeftAt
<1>6. LeftAt(d[Len(a)], b, end)
  <2> DEFINE q == [i \in 0..Len(b) |-> d[Len(a) + i]]
  <2>1. 0 \in 0..Len(b) /\ Len(b) \in 0..Len(b) /\ Len(a) + 0 = Len(a) BY <1>1
  <2>2. q[0] = d[Len(a)] /\ q[Len(b)] = end
    <3>1. q[0] = d[Len(a) + 0] /\ q[Len(b)] = d[Len(a) + Len(b)] BY <2>1
    <3> QED BY <1>3, <1>4, <2>1, <3>1
  <2>3. \A i \in 1..Len(b) : q[i] = Shines(q[i - 1], b[i])
    <3> TAKE i \in 1..Len(b)
    <3>1. /\ Len(a) + i \in 1..(Len(a) + Len(b)) /\ ~(Len(a) + i <= Len(a)) /\ Len(a) + i - Len(a) = i
          /\ i \in 0..Len(b) /\ i - 1 \in 0..Len(b) /\ Len(a) + (i - 1) = Len(a) + i - 1
      BY <1>1
    <3>2. g[Len(a) + i] = b[i] BY <1>2, <3>1 DEF g
    <3>3. q[i] = d[Len(a) + i] /\ q[i - 1] = d[Len(a) + i - 1] BY <3>1
    <3> QED BY <1>3, <1>4, <3>1, <3>2, <3>3
  <2> HIDE DEF q
  <2> QED BY <2>2, <2>3 DEF LeftAt
<1> QED BY <1>5, <1>6

CanDim(here) == "levelOnOff" \in here \/ {"level", "on", "off"} \subseteq here
IsRelay(here) == here \cap Levels = {} /\ {"on", "off"} \subseteq here

LEMMA LevelZero == LevelFromPercent(0) = 0
  BY DEF LevelFromPercent, RoundedDiv, LevelMax

LEMMA OwnCallsAre ==
  ASSUME NEW e \in Nat, NEW pair \in AllPairs, NEW arg \in Int \cup {Plain, "white", "red"}
  PROVE  /\ Call(e, pair, arg) \in Calls /\ <<Call(e, pair, arg)>> \in Seq(Calls)
         /\ Call(e, pair, arg).pair = pair /\ Call(e, pair, arg).arg = arg
  BY DEF Call, Calls

(* One call: what the lamp is left at. *)
LEMMA OneCallLeaves ==
  ASSUME NEW e \in Nat, NEW pair \in AllPairs, NEW arg \in Int \cup {Plain, "white", "red"},
         NEW lamp \in LampStates, NEW end, LeftAt(lamp, <<Call(e, pair, arg)>>, end)
  PROVE  /\ end \in LampStates
         /\ pair \in {"on", "off"} =>
              end.on = (pair = "on") /\ end.level = lamp.level /\ end.colour = lamp.colour
         /\ pair = "levelOnOff" =>
              end.on = (arg # 0) /\ (arg # 0 => end.level = arg) /\ end.colour = lamp.colour
         /\ pair = "level" =>
              end.on = lamp.on /\ (lamp.on => end.level = arg) /\ end.colour = lamp.colour
         /\ pair \in {"hs", "xy", "white"} =>
              end.on = lamp.on /\ end.level = lamp.level /\ end.colour = arg
<1> DEFINE c == Call(e, pair, arg)
<1>1. c \in Calls /\ c.pair = pair /\ c.arg = arg BY DEF Call, Calls
<1> HIDE DEF c
<1>2. end = Shines(lamp, c) BY LeftByOne DEF c
<1>3. \A l \in LampStates : l.on \in BOOLEAN /\ l = [on |-> l.on, level |-> l.level, colour |-> l.colour]
  BY DEF LampStates
<1>4. end \in LampStates BY <1>1, <1>2, ShinesOn
<1>5. CASE pair \in {"on", "off"}
  <2>1. end = [lamp EXCEPT !.on = (pair = "on")] BY <1>1, <1>2, <1>5, ShinesOn
  <2> QED BY <1>3, <1>4, <1>5, <2>1
<1>6. CASE pair = "levelOnOff"
  <2>1. CASE arg = 0
    <3>1. end = [lamp EXCEPT !.on = FALSE] BY <1>1, <1>2, <1>6, <2>1, ShinesOn
    <3> QED BY <1>3, <1>4, <1>6, <2>1, <3>1
  <2>2. CASE arg # 0
    <3>1. end = [lamp EXCEPT !.on = TRUE, !.level = arg] BY <1>1, <1>2, <1>6, <2>2, ShinesOn
    <3> QED BY <1>3, <1>4, <1>6, <2>2, <3>1
  <2> QED BY <2>1, <2>2
<1>7. CASE pair = "level"
  <2>1. end = IF lamp.on THEN [lamp EXCEPT !.level = arg] ELSE lamp BY <1>1, <1>2, <1>7, ShinesOn
  <2> QED BY <1>3, <1>4, <1>7, <2>1
<1>8. CASE pair \in {"hs", "xy", "white"}
  <2>1. end = [lamp EXCEPT !.colour = arg] BY <1>1, <1>2, <1>8, ShinesOn
  <2> QED BY <1>3, <1>4, <1>8, <2>1
<1> QED BY <1>4, <1>5, <1>6, <1>7, <1>8

LEMMA SwitchLeaves ==
  ASSUME NEW e \in Nat, NEW q \in {"on", "off"}, NEW lamp \in LampStates, NEW end,
         LeftAt(lamp, <<Call(e, q, Plain)>>, end)
  PROVE  end \in LampStates /\ (end.on <=> q = "on") /\ end.colour = lamp.colour
<1>1. q \in AllPairs /\ Plain \in Int \cup {Plain, "white", "red"} BY DEF AllPairs
<1> DEFINE x == Plain
<1>2. LeftAt(lamp, <<Call(e, q, x)>>, end) /\ x \in Int \cup {Plain, "white", "red"} BY <1>1
<1> HIDE DEF x
<1>3. end \in LampStates /\ end.on = (q = "on") /\ end.level = lamp.level /\ end.colour = lamp.colour
  BY ONLY <1>1, <1>2, OneCallLeaves, e \in Nat, lamp \in LampStates, q \in {"on", "off"}
<1> QED BY <1>3

LEMMA ColourCallLeaves ==
  ASSUME NEW e \in Nat, NEW q \in {"hs", "xy", "white"}, NEW colour \in {"white", "red"},
         NEW lamp \in LampStates, NEW end, LeftAt(lamp, <<Call(e, q, colour)>>, end)
  PROVE  end \in LampStates /\ end.on = lamp.on /\ end.level = lamp.level /\ end.colour = colour
<1>1. q \in AllPairs /\ colour \in Int \cup {Plain, "white", "red"} BY DEF AllPairs
<1> DEFINE Coloured(p, a) ==
             /\ end \in LampStates
             /\ p \in {"hs", "xy", "white"} => end.on = lamp.on /\ end.level = lamp.level /\ end.colour = a
<1>2. \A p \in AllPairs, a \in Int \cup {Plain, "white", "red"} :
        LeftAt(lamp, <<Call(e, p, a)>>, end) => Coloured(p, a)
  BY OneCallLeaves
<1>3. Coloured(q, colour) BY <1>1, <1>2, Zenon
<1> QED BY <1>3

LEMMA LevelCallLeaves ==
  ASSUME NEW e \in Nat, NEW w \in 0..254,
         NEW lamp \in LampStates, NEW end, LeftAt(lamp, <<Call(e, "levelOnOff", w)>>, end)
  PROVE  end \in LampStates /\ end.on = (w # 0) /\ (w # 0 => end.level = w) /\ end.colour = lamp.colour
<1> DEFINE q == "levelOnOff"
<1>1. q \in AllPairs /\ w \in Int \cup {Plain, "white", "red"} /\ q = "levelOnOff"
      /\ LeftAt(lamp, <<Call(e, q, w)>>, end)
  BY DEF AllPairs
<1> HIDE DEF q
<1> QED BY ONLY <1>1, OneCallLeaves, e \in Nat, lamp \in LampStates

LEMMA BrightnessLeaves ==
  ASSUME NEW e \in Nat, NEW here \in SUBSET AllPairs, NEW p \in Int, NEW dims \in BOOLEAN,
         NEW lamp \in LampStates, NEW end, LeftAt(lamp, Brightness(e, here, p, dims), end)
  PROVE  /\ end \in LampStates /\ end.colour = lamp.colour
         /\ CanDim(here) => end.on = (LevelFromPercent(p) > 0)
                            /\ (LevelFromPercent(p) > 0 => end.level = LevelFromPercent(p))
         /\ IsRelay(here) => end.on = IF dims THEN lamp.on ELSE LevelFromPercent(p) > 0
<1> DEFINE dim == LevelFromPercent(p)
           b == Brightness(e, here, p, dims)
           Told == /\ end \in LampStates /\ end.colour = lamp.colour
                   /\ CanDim(here) => end.on = (dim > 0) /\ (dim > 0 => end.level = dim)
                   /\ IsRelay(here) => end.on = IF dims THEN lamp.on ELSE dim > 0
<1>1. dim \in 0..254 /\ dim \in Int \cup {Plain, "white", "red"} /\ Plain \in Int \cup {Plain, "white", "red"}
      /\ 0 \in Int \cup {Plain, "white", "red"}
  BY LevelIs
<1>2. "levelOnOff" \in AllPairs /\ "level" \in AllPairs /\ "on" \in AllPairs /\ "off" \in AllPairs
  BY DEF AllPairs
<1>3. \A l \in LampStates : l.on \in BOOLEAN BY DEF LampStates
<1>4. CASE "levelOnOff" \in here
  <2>1. b = <<Call(e, "levelOnOff", dim)>> /\ here \cap Levels # {} BY <1>4 DEF Brightness, Levels
  <2> HIDE DEF dim, b
  <2>2. LeftAt(lamp, <<Call(e, "levelOnOff", dim)>>, end) BY <2>1, Zenon DEF b
  <2>3. end \in LampStates /\ end.on = (dim # 0) /\ (dim # 0 => end.level = dim) /\ end.colour = lamp.colour
    BY <1>1, <2>2, LevelCallLeaves
  <2>4. Told BY <1>1, <1>3, <2>1, <2>3 DEF IsRelay
  <2> QED BY <2>4 DEF dim
<1>5. CASE "levelOnOff" \notin here /\ "level" \in here /\ dim = 0
  <2>1. b = <<IF "off" \in here THEN Call(e, "off", Plain) ELSE Call(e, "level", 0)>> /\ here \cap Levels # {}
    BY <1>5 DEF Brightness, Levels
  <2> HIDE DEF dim, b
  <2>2. CASE "off" \in here
    <3>1. LeftAt(lamp, <<Call(e, "off", Plain)>>, end)
      <4>1. b = <<Call(e, "off", Plain)>> BY <2>1, <2>2
      <4> QED BY <4>1, Zenon DEF b
    <3>2. end \in LampStates /\ end.on = FALSE /\ end.colour = lamp.colour
      BY <1>3, <3>1, SwitchLeaves
    <3>3. Told BY <1>3, <1>5, <2>1, <3>2 DEF IsRelay
    <3> QED BY <3>3 DEF dim
  <2>3. CASE "off" \notin here
    <3>1. LeftAt(lamp, <<Call(e, "level", 0)>>, end)
      <4>1. b = <<Call(e, "level", 0)>> BY <2>1, <2>3
      <4> QED BY <4>1, Zenon DEF b
    <3>2. end \in LampStates /\ end.on = lamp.on /\ end.colour = lamp.colour
      BY <1>1, <1>2, <3>1, OneCallLeaves
    <3>3. Told BY <1>3, <1>5, <2>1, <2>3, <3>2 DEF IsRelay, CanDim
    <3> QED BY <3>3 DEF dim
  <2> QED BY <2>2, <2>3
<1>6. CASE "levelOnOff" \notin here /\ "level" \in here /\ dim > 0
  <2> DEFINE first == IF "on" \in here THEN <<Call(e, "on", Plain)>> ELSE <<>>
             second == <<Call(e, "level", dim)>>
  <2>1. b = first \o second /\ here \cap Levels # {} BY <1>1, <1>6 DEF Brightness, Levels
  <2>2. first \in Seq(Calls) /\ second \in Seq(Calls)
    <3>1. <<Call(e, "on", Plain)>> \in Seq(Calls) /\ second \in Seq(Calls)
      <4> HIDE DEF dim
      <4>1. \A q \in AllPairs : \A x \in Int \cup {Plain, "white", "red"} : <<Call(e, q, x)>> \in Seq(Calls)
        BY OwnCallsAre
      <4> QED BY <1>1, <1>2, <4>1
    <3>2. <<>> \in Seq(Calls) OBVIOUS
    <3> HIDE DEF second
    <3> QED BY <3>1, <3>2
  <2> HIDE DEF first, second, b
  <2>3. PICK mid : LeftAt(lamp, first, mid) /\ LeftAt(mid, second, end)
    <3>1. LeftAt(lamp, first \o second, end) BY <2>1, Zenon DEF b
    <3> QED BY <2>2, <3>1, LeftByBoth
  <2> HIDE DEF dim
  <2>4. mid \in LampStates /\ mid.on = ("on" \in here \/ lamp.on) /\ mid.colour = lamp.colour
    <3>1. CASE "on" \in here
      <4>1. first = <<Call(e, "on", Plain)>> BY <3>1 DEF first
      <4>2. LeftAt(lamp, <<Call(e, "on", Plain)>>, mid) BY <2>3, <4>1, Zenon
      <4>3. mid \in LampStates /\ mid.on = TRUE /\ mid.colour = lamp.colour BY <4>2, SwitchLeaves
      <4> QED BY <3>1, <4>3
    <3>2. CASE "on" \notin here
      <4>1. first = <<>> BY <3>2 DEF first
      <4>2. mid = lamp BY <2>3, <4>1, LeftByNone, Zenon
      <4> QED BY <1>3, <3>2, <4>2
    <3> QED BY <3>1, <3>2
  <2>5. end \in LampStates /\ end.on = mid.on /\ (mid.on => end.level = dim) /\ end.colour = mid.colour
    <3>1. LeftAt(mid, <<Call(e, "level", dim)>>, end) BY <2>3, Zenon DEF second
    <3> QED BY <1>1, <1>2, <2>4, <3>1, OneCallLeaves
  <2>6. Told BY <1>3, <1>6, <2>1, <2>4, <2>5 DEF IsRelay, CanDim
  <2> QED BY <2>6 DEF dim
<1>7. CASE here \cap Levels = {}
  <2>1. "levelOnOff" \notin here /\ "level" \notin here BY <1>7 DEF Levels
  <2>2. b = IF {"on", "off"} \subseteq here /\ ~dims THEN <<Call(e, IF dim > 0 THEN "on" ELSE "off", Plain)>> ELSE <<>>
    BY <1>7, <2>1 DEF Brightness
  <2> HIDE DEF dim, b
  <2>3. CASE {"on", "off"} \subseteq here /\ ~dims
    <3> DEFINE q == IF dim > 0 THEN "on" ELSE "off"
    <3>1. q \in {"on", "off"} /\ q \in AllPairs /\ (q = "on" <=> dim > 0) BY <1>2
    <3> HIDE DEF q
    <3>2. LeftAt(lamp, <<Call(e, q, Plain)>>, end)
      <4>1. b = <<Call(e, q, Plain)>> BY <2>2, <2>3 DEF q
      <4> QED BY <4>1, Zenon DEF b
    <3>3. end \in LampStates /\ (end.on <=> q = "on") /\ end.colour = lamp.colour
      BY <3>1, <3>2, SwitchLeaves
    <3>4. Told BY <1>3, <2>1, <2>3, <3>1, <3>3 DEF CanDim
    <3> QED BY <3>4 DEF dim
  <2>4. CASE ~({"on", "off"} \subseteq here /\ ~dims)
    <3>1. b = <<>> BY <2>2, <2>4
    <3>2. end = lamp BY <3>1, LeftByNone, Zenon DEF b
    <3>3. Told BY <1>3, <2>1, <2>4, <3>2 DEF CanDim, IsRelay
    <3> QED BY <3>3 DEF dim
  <2> QED BY <2>3, <2>4
<1>8. dim = 0 \/ dim > 0 BY <1>1
<1> HIDE DEF dim, b
<1>9. Told BY <1>4, <1>5, <1>6, <1>7, <1>8 DEF Levels, dim
<1> QED BY <1>9 DEF dim

LEMMA ColourLeaves ==
  ASSUME NEW e \in Nat, NEW here \in SUBSET AllPairs, NEW pair, NEW colour \in {"white", "red"},
         NEW lamp \in LampStates, NEW end, LeftAt(lamp, Colour(e, here, pair, colour), end)
  PROVE  /\ end \in LampStates /\ end.on = lamp.on /\ end.level = lamp.level
         /\ here \cap {"hs", "xy"} # {} => end.colour = colour
<1> DEFINE c == Colour(e, here, pair, colour)
<1>1. \/ \E q \in {"hs", "xy", "white"} : c = <<Call(e, q, colour)>>
      \/ c = <<>> /\ here \cap {"hs", "xy"} = {}
  BY DEF Colour, ColourPoint
<1> HIDE DEF c
<1>2. CASE \E q \in {"hs", "xy", "white"} : c = <<Call(e, q, colour)>>
  <2>1. PICK q \in {"hs", "xy", "white"} : c = <<Call(e, q, colour)>> BY <1>2
  <2>2. LeftAt(lamp, <<Call(e, q, colour)>>, end) BY <2>1, Zenon DEF c
  <2> DEFINE ByIt(p, a, l, z) == z \in LampStates /\ z.on = l.on /\ z.level = l.level /\ z.colour = a
             Three == {"hs", "xy", "white"}
             Two == {"white", "red"}
  <2>3. \A n \in Nat, p \in Three, a \in Two, l \in LampStates : \A z :
          LeftAt(l, <<Call(n, p, a)>>, z) => ByIt(p, a, l, z)
    BY ColourCallLeaves
  <2>4. q \in Three /\ colour \in Two OBVIOUS
  <2> HIDE DEF ByIt, Three, Two
  <2>5. ByIt(q, colour, lamp, end) BY <2>2, <2>3, <2>4, Zenon
  <2> QED BY <2>5 DEF ByIt
<1>3. CASE c = <<>> /\ here \cap {"hs", "xy"} = {}
  <2>1. end = lamp BY <1>3, LeftByNone, Zenon DEF c
  <2> QED BY <1>3, <2>1
<1> QED BY <1>1, <1>2, <1>3

(* A light, a command and its value: the rows of each endpoint are a set of *)
(* commands, and the value is decoded. *)
LightOK == /\ endpointRows \in [Endpoints -> SUBSET AllPairs] /\ named \in AllPairs /\ value \in Values

DimsHere == \E e \in DOMAIN endpointRows : endpointRows[e] \cap Levels # {}
CallsOf(e) == IF e \in DOMAIN endpointRows /\ endpointRows[e] # {}
              THEN EndpointCalls(e, named, endpointRows[e], value, DimsHere) ELSE <<>>

(* Any group of endpoints: each one's calls are a segment of the group's. *)
LEMMA GroupSegments ==
  ASSUME NEW rows, NEW D \in SUBSET (1..LastEndpoint), rows \in [D -> SUBSET AllPairs],
         NEW pair \in AllPairs, NEW v \in Values
  PROVE  LET g == AdaptGroupCommand(pair, rows, v)
             dims == \E e \in DOMAIN rows : rows[e] \cap Levels # {}
             c(e) == IF e \in DOMAIN rows /\ rows[e] # {}
                     THEN EndpointCalls(e, pair, rows[e], v, dims) ELSE <<>>
         IN /\ g \in Seq(Calls)
            /\ \A k \in 1..Len(g) : g[k].endpoint \in 1..LastEndpoint
            /\ \A e \in 1..LastEndpoint : \E a : Segment(g, e, a, c(e))
<1> DEFINE dims == \E e \in DOMAIN rows : rows[e] \cap Levels # {}
           c(e) == IF e \in DOMAIN rows /\ rows[e] # {}
                   THEN EndpointCalls(e, pair, rows[e], v, dims) ELSE <<>>
           p == [e \in 1..LastEndpoint |-> c(e)]
<1>0. LastEndpoint \in Nat \ {0} BY AdaptAssumption
<1>1. \A e \in 1..LastEndpoint : OwnCalls(c(e), e)
  <2> TAKE e \in 1..LastEndpoint
  <2>1. CASE e \in DOMAIN rows /\ rows[e] # {}
    <3>1. e \in Nat /\ rows[e] \in SUBSET AllPairs /\ dims \in BOOLEAN BY <1>0, <2>1
    <3> HIDE DEF dims
    <3>2. Right(EndpointCalls(e, pair, rows[e], v, dims), e, rows[e]) BY <3>1, EndpointRight
    <3> DEFINE q == EndpointCalls(e, pair, rows[e], v, dims)
    <3> HIDE DEF q
    <3>3. q \in Seq(Calls) /\ DOMAIN q = 1..Len(q) /\ \A i \in DOMAIN q : q[i].endpoint = e
      BY <3>2, LenProperties DEF Right, Few, Carried, q
    <3>4. OwnCalls(q, e) BY <3>3 DEF OwnCalls
    <3>5. c(e) = q BY <2>1 DEF q
    <3> QED BY <3>4, <3>5
  <2>2. CASE ~(e \in DOMAIN rows /\ rows[e] # {})
    <3>1. c(e) = <<>> BY <2>2
    <3>2. OwnCalls(<<>>, e) BY DEF OwnCalls
    <3> QED BY <3>1, <3>2, Zenon
  <2> QED BY <2>1, <2>2
<1>2. p \in [1..LastEndpoint -> Seq(Calls)] /\ \A e \in 1..LastEndpoint : OwnCalls(p[e], e) /\ p[e] = c(e)
  <2>1. \A e \in 1..LastEndpoint : c(e) \in Seq(Calls) BY <1>1 DEF OwnCalls
  <2> HIDE DEF c
  <2> QED BY <1>1, <2>1
<1>3. AdaptGroupCommand(pair, rows, v) = FlattenSeq(p) BY DEF AdaptGroupCommand
<1> DEFINE g == AdaptGroupCommand(pair, rows, v)
<1> HIDE DEF c, p, g
<1>4. /\ g \in Seq(Calls)
      /\ \A k \in 1..Len(g) : g[k].endpoint \in 1..LastEndpoint
      /\ \A e \in 1..LastEndpoint : \E a : Segment(g, e, a, p[e])
  <2>1. g = FlattenSeq(p) BY <1>3 DEF g
  <2> QED BY <1>0, <1>2, <2>1, EndpointAfterEndpoint
<1>5. \A e \in 1..LastEndpoint : \E a : Segment(g, e, a, c(e)) BY <1>2, <1>4
<1> QED BY <1>4, <1>5 DEF g, c

LEMMA GroupIs ==
  ASSUME LightOK
  PROVE  /\ Group \in Seq(Calls)
         /\ \A k \in 1..Len(Group) : Group[k].endpoint \in 1..LastEndpoint
         /\ \A e \in 1..LastEndpoint : \E a : Segment(Group, e, a, CallsOf(e))
<1>1. Endpoints \in SUBSET (1..LastEndpoint) BY AdaptAssumption
<1> QED BY <1>1, GroupSegments DEF LightOK, Group, CallsOf, DimsHere

LEMMA CallsOfRight ==
  ASSUME LightOK, NEW e \in 1..LastEndpoint
  PROVE  CallsOf(e) \in Seq(Calls) /\ \A i, j \in 1..Len(CallsOf(e)) :
           /\ e \in Endpoints /\ CallsOf(e)[i].pair \in endpointRows[e]
           /\ i < j /\ CallsOf(e)[i].pair \in Levels \cup {"on"} => CallsOf(e)[j].pair \in Levels
<1>0. e \in Nat BY AdaptAssumption
<1>1. CASE e \in DOMAIN endpointRows /\ endpointRows[e] # {}
  <2>1. endpointRows[e] \in SUBSET AllPairs /\ DimsHere \in BOOLEAN /\ e \in Endpoints
        /\ named \in AllPairs /\ value \in Values
    BY <1>1 DEF LightOK, DimsHere
  <2>2. CallsOf(e) = EndpointCalls(e, named, endpointRows[e], value, DimsHere) BY <1>1 DEF CallsOf
  <2>3. Right(CallsOf(e), e, endpointRows[e])
    <3>1. Right(EndpointCalls(e, named, endpointRows[e], value, DimsHere), e, endpointRows[e])
      BY <1>0, <2>1, EndpointRight
    <3> QED BY <2>2, <3>1, Zenon
  <2>4. CallsOf(e) \in Seq(Calls) /\ DOMAIN CallsOf(e) = 1..Len(CallsOf(e))
    BY <2>3, LenProperties DEF Right, Few
  <2> QED BY <2>1, <2>3, <2>4 DEF Right, Carried, Ordered
<1>2. CASE ~(e \in DOMAIN endpointRows /\ endpointRows[e] # {})
  <2>1. CallsOf(e) = <<>> BY <1>2 DEF CallsOf
  <2> QED BY <2>1
<1> QED BY <1>1, <1>2

(* Where the k-th call of the group comes from. *)
LEMMA CallIs ==
  ASSUME LightOK, NEW k \in 1..Len(Group)
  PROVE  \E e \in 1..LastEndpoint : \E a \in Nat :
           /\ Group[k].endpoint = e /\ Segment(Group, e, a, CallsOf(e))
           /\ k - a \in 1..Len(CallsOf(e)) /\ Group[k] = CallsOf(e)[k - a]
<1>1. PICK e \in 1..LastEndpoint : Group[k].endpoint = e BY GroupIs
<1>2. PICK a : Segment(Group, e, a, CallsOf(e)) BY GroupIs
<1> DEFINE c == CallsOf(e)
<1>3. c \in Seq(Calls) /\ Len(c) \in Nat /\ Len(Group) \in Nat
  BY GroupIs, CallsOfRight, LenProperties
<1> HIDE DEF c, Group
<1>4. a \in Nat /\ a < k /\ k <= a + Len(c) /\ \A i \in 1..Len(c) : Group[a + i] = c[i]
  BY <1>1, <1>2 DEF Segment, c
<1>5. k - a \in 1..Len(c) /\ a + (k - a) = k BY <1>3, <1>4
<1>6. Group[a + (k - a)] = c[k - a] BY <1>4, <1>5
<1> QED BY <1>1, <1>2, <1>4, <1>5, <1>6 DEF c

LEMMA OnlyCarriedHolds == ASSUME LightOK PROVE OnlyCarried
<1>1. DOMAIN Group = 1..Len(Group) BY GroupIs, LenProperties
<1> SUFFICES ASSUME NEW k \in 1..Len(Group) PROVE Group[k].pair \in endpointRows[Group[k].endpoint]
  BY <1>1 DEF OnlyCarried
<1>2. PICK e \in 1..LastEndpoint : \E a \in Nat :
           /\ Group[k].endpoint = e /\ Segment(Group, e, a, CallsOf(e))
           /\ k - a \in 1..Len(CallsOf(e)) /\ Group[k] = CallsOf(e)[k - a]
  BY CallIs
<1> HIDE DEF Group, CallsOf, LightOK
<1> QED BY <1>2, CallsOfRight

LEMMA ColourFirstHolds == ASSUME LightOK PROVE ColourFirst
<1>1. DOMAIN Group = 1..Len(Group) /\ Len(Group) \in Nat BY GroupIs, LenProperties
<1> HIDE DEF Group
<1> SUFFICES ASSUME NEW k \in 1..Len(Group), NEW l \in 1..Len(Group), k < l,
                    Group[k].endpoint = Group[l].endpoint, Group[k].pair \in Levels \cup {"on"}
             PROVE  Group[l].pair \in Levels
  BY <1>1 DEF ColourFirst
<1>2. PICK e \in 1..LastEndpoint : \E a \in Nat :
           /\ Group[k].endpoint = e /\ Segment(Group, e, a, CallsOf(e))
           /\ k - a \in 1..Len(CallsOf(e)) /\ Group[k] = CallsOf(e)[k - a]
  BY CallIs
<1>3. PICK a \in Nat : /\ Group[k].endpoint = e /\ Segment(Group, e, a, CallsOf(e))
                       /\ k - a \in 1..Len(CallsOf(e)) /\ Group[k] = CallsOf(e)[k - a]
  BY <1>2
<1> DEFINE c == CallsOf(e)
<1>4. c \in Seq(Calls) /\ Len(c) \in Nat BY CallsOfRight, LenProperties
<1>5. \A i, j \in 1..Len(c) : i < j /\ c[i].pair \in Levels \cup {"on"} => c[j].pair \in Levels
  BY CallsOfRight
<1> HIDE DEF c
<1>6. /\ k - a \in 1..Len(c) /\ Group[k] = c[k - a]
      /\ Group[l].endpoint = e
  BY <1>3 DEF c
<1>7. a < l /\ l <= a + Len(c) /\ \A i \in 1..Len(c) : Group[a + i] = c[i]
  BY <1>3, <1>6 DEF Segment, c
<1>8. l - a \in 1..Len(c) /\ a + (l - a) = l /\ k - a < l - a BY <1>1, <1>4, <1>7
<1>9. Group[l] = c[l - a]
  <2>1. Group[a + (l - a)] = c[l - a] BY <1>7, <1>8
  <2> QED BY <1>8, <2>1
<1> QED BY <1>5, <1>6, <1>8, <1>9

(* The calls of a segment, read out of the sequence. *)
LEMMA SegmentIs ==
  ASSUME NEW g \in Seq(Calls), NEW e, NEW a, NEW c \in Seq(Calls), Segment(g, e, a, c)
  PROVE  a \in Nat /\ a + Len(c) \in 0..Len(g) /\ a \in 0..Len(g) /\ SubSeq(g, a + 1, a + Len(c)) = c
<1>1. a \in Nat /\ Len(c) \in Nat /\ Len(g) \in Nat /\ a + Len(c) <= Len(g)
      /\ \A i \in 1..Len(c) : g[a + i] = c[i] /\ c[i] \in Calls
  BY LenProperties, ElementOfSeq DEF Segment
<1> DEFINE m == a + 1
           n == a + Len(c)
           s == SubSeq(g, m, n)
<1>2. m \in Int /\ n \in Int /\ n - m + 1 = Len(c) /\ (m <= n <=> Len(c) # 0) BY <1>1
<1>3. \A i \in m..n : g[i] \in Calls
  <2> TAKE i \in m..n
  <2>1. i \in 1..Len(g) BY <1>1
  <2> QED BY <2>1, ElementOfSeq
<1>4. \A i \in 1..Len(c) : m + i - 1 = a + i BY <1>1
<1> HIDE DEF m, n
<1>5. s \in Seq(Calls) /\ Len(s) = (IF m <= n THEN n - m + 1 ELSE 0)
      /\ \A i \in 1..(n - m + 1) : s[i] = g[m + i - 1]
  BY ONLY <1>2, <1>3, SubSeqProperties
<1> HIDE DEF s
<1>6. Len(s) = Len(c) BY <1>1, <1>2, <1>5
<1>7. \A i \in 1..Len(s) : s[i] = c[i]
  <2> TAKE i \in 1..Len(s)
  <2>1. s[i] = g[m + i - 1] /\ m + i - 1 = a + i BY <1>2, <1>4, <1>5, <1>6
  <2>2. g[a + i] = c[i] BY <1>1, <1>6
  <2> QED BY <2>1, <2>2
<1>8. s = c BY <1>5, <1>6, <1>7, SeqEqual
<1> QED BY <1>1, <1>8 DEF s, m, n

(* A group of one endpoint is sent that endpoint's calls, and nothing else. *)
LEMMA GroupOfOne ==
  ASSUME NEW e \in 1..LastEndpoint, NEW here \in SUBSET AllPairs, here # {}, NEW pair \in AllPairs, NEW v \in Values
  PROVE  AdaptGroupCommand(pair, [x \in {e} |-> here], v) = EndpointCalls(e, pair, here, v, here \cap Levels # {})
<1> DEFINE rows == [x \in {e} |-> here]
           g == AdaptGroupCommand(pair, rows, v)
           dims == \E x \in DOMAIN rows : rows[x] \cap Levels # {}
           c(x) == IF x \in DOMAIN rows /\ rows[x] # {} THEN EndpointCalls(x, pair, rows[x], v, dims) ELSE <<>>
<1>0. {e} \in SUBSET (1..LastEndpoint) /\ e \in Nat BY AdaptAssumption
<1>1. rows \in [{e} -> SUBSET AllPairs] /\ DOMAIN rows = {e} /\ rows[e] = here OBVIOUS
<1>2. dims = (here \cap Levels # {}) /\ dims \in BOOLEAN BY <1>1
<1> HIDE DEF rows
<1>3. /\ g \in Seq(Calls)
      /\ \A k \in 1..Len(g) : g[k].endpoint \in 1..LastEndpoint
      /\ \A x \in 1..LastEndpoint : \E a : Segment(g, x, a, c(x))
  BY <1>0, <1>1, GroupSegments
<1> HIDE DEF dims, g
<1>4. c(e) = EndpointCalls(e, pair, here, v, here \cap Levels # {}) BY <1>1, <1>2
<1>5. \A x \in 1..LastEndpoint : x # e => c(x) = <<>> BY <1>1
<1> HIDE DEF c
<1>6. c(e) \in Seq(Calls)
  <2>1. Right(EndpointCalls(e, pair, here, v, dims), e, here) BY <1>0, <1>2, EndpointRight
  <2> QED BY <1>2, <1>4, <2>1 DEF Right, Few
<1>7. PICK a : Segment(g, e, a, c(e)) BY <1>3
<1>8. Len(g) \in Nat /\ Len(c(e)) \in Nat /\ a \in Nat /\ a + Len(c(e)) <= Len(g)
      /\ (\A i \in 1..Len(c(e)) : g[a + i] = c(e)[i])
      /\ \A k \in 1..Len(g) : g[k].endpoint = e <=> a < k /\ k <= a + Len(c(e))
  BY <1>3, <1>6, <1>7, LenProperties DEF Segment
<1>9. \A k \in 1..Len(g) : g[k].endpoint = e
  <2> SUFFICES ASSUME NEW k \in 1..Len(g), g[k].endpoint # e PROVE FALSE OBVIOUS
  <2> DEFINE x == g[k].endpoint
  <2>1. x \in 1..LastEndpoint /\ x # e BY <1>3
  <2>2. c(x) = <<>> /\ \E b : Segment(g, x, b, c(x)) BY <1>3, <1>5, <2>1
  <2>3. PICK b : Segment(g, x, b, <<>>) BY <2>2, Zenon
  <2>4. b \in Nat /\ Len(<<>>) = 0 /\ b < k /\ k <= b + 0 BY <2>3 DEF Segment
  <2> QED BY <1>8, <2>4
<1>10. a = 0 /\ Len(g) = Len(c(e))
  <2>1. Len(g) # 0 => 1 \in 1..Len(g) /\ Len(g) \in 1..Len(g) BY <1>8
  <2>2. Len(g) # 0 => a < 1 /\ Len(g) <= a + Len(c(e)) BY <1>8, <1>9, <2>1
  <2> QED BY <1>8, <2>2
<1>11. \A i \in 1..Len(g) : g[i] = c(e)[i]
  <2> TAKE i \in 1..Len(g)
  <2>1. i \in 1..Len(c(e)) /\ a + i = i BY <1>8, <1>10
  <2>2. g[a + i] = c(e)[i] BY <1>8, <2>1
  <2> QED BY <2>1, <2>2
<1>12. g = c(e) BY <1>3, <1>6, <1>10, <1>11, SeqEqual
<1> QED BY <1>4, <1>12 DEF g, rows

LEMMA SameCallsAloneHolds == ASSUME LightOK PROVE SameCallsAlone
<1> SUFFICES ASSUME NEW e \in Endpoints, {named, "white", "levelOnOff"} \subseteq endpointRows[e]
             PROVE  \E i, j \in 0..Len(Group) :
                       /\ SubSeq(Group, i + 1, j) = AdaptDeviceCommand(e, named, endpointRows, value)
                       /\ \A k \in DOMAIN Group : Group[k].endpoint = e <=> i < k /\ k <= j
  BY DEF SameCallsAlone
<1> DEFINE here == endpointRows[e]
<1>1. e \in 1..LastEndpoint /\ e \in Nat /\ here \in SUBSET AllPairs /\ here # {} /\ e \in DOMAIN endpointRows
      /\ named \in AllPairs /\ value \in Values /\ "levelOnOff" \in here
  BY AdaptAssumption DEF LightOK
<1>2. CallsOf(e) = EndpointCalls(e, named, here, value, DimsHere) /\ DimsHere \in BOOLEAN
  BY <1>1 DEF CallsOf, DimsHere
<1>3. AdaptDeviceCommand(e, named, endpointRows, value) = CallsOf(e)
  <2>1. CASE named = "lumitech"
    <3>1. AdaptDeviceCommand(e, named, endpointRows, value) = AdaptGroupCommand("lumitech", [x \in {e} |-> here], value)
      BY <2>1 DEF AdaptDeviceCommand
    <3>2. AdaptGroupCommand("lumitech", [x \in {e} |-> here], value)
            = EndpointCalls(e, "lumitech", here, value, here \cap Levels # {})
      <4> HIDE DEF here
      <4> QED BY <1>1, <2>1, GroupOfOne
    <3>3. \A p : Brightness(e, here, p, here \cap Levels # {}) = Brightness(e, here, p, DimsHere)
      <4> HIDE DEF here
      <4>1. \A p, d : Brightness(e, here, p, d) = <<Call(e, "levelOnOff", LevelFromPercent(p))>>
        BY <1>1 DEF Brightness, Levels
      <4> QED BY <4>1
    <3>4. EndpointCalls(e, "lumitech", here, value, here \cap Levels # {})
            = EndpointCalls(e, "lumitech", here, value, DimsHere)
      <4> HIDE DEF here
      <4> QED BY <3>3, Zenon DEF EndpointCalls
    <3> QED BY <1>2, <2>1, <3>1, <3>2, <3>4, Zenon
  <2>2. CASE named # "lumitech"
    <3>1. AdaptDeviceCommand(e, named, endpointRows, value) = ToDeviceCalls(e, named, value)
      BY <2>2 DEF AdaptDeviceCommand
    <3>2. EndpointCalls(e, named, here, value, DimsHere) = ToDeviceCalls(e, named, value)
      <4>1. named \in AllPairs \ {"lumitech"} /\ {named, "white", "levelOnOff"} \subseteq here
        BY <1>1, <2>2
      <4> HIDE DEF here
      <4> QED BY <1>1, <1>2, <4>1, SameAlone
    <3> QED BY <1>2, <3>1, <3>2, Zenon
  <2> QED BY <2>1, <2>2
<1> DEFINE c == CallsOf(e)
           g == Group
<1>4. c \in Seq(Calls) /\ g \in Seq(Calls) /\ DOMAIN g = 1..Len(g)
  BY <1>1, GroupIs, CallsOfRight, LenProperties
<1>5. PICK a : Segment(g, e, a, c) BY <1>1, GroupIs
<1> HIDE DEF c, g
<1>6. a \in 0..Len(g) /\ a + Len(c) \in 0..Len(g) /\ SubSeq(g, a + 1, a + Len(c)) = c
  BY <1>4, <1>5, SegmentIs
<1>7. \A k \in DOMAIN g : g[k].endpoint = e <=> a < k /\ k <= a + Len(c) BY <1>4, <1>5 DEF Segment
<1>8. SubSeq(g, a + 1, a + Len(c)) = AdaptDeviceCommand(e, named, endpointRows, value)
  BY <1>3, <1>6, Zenon DEF c
<1>9. \E i, j \in 0..Len(g) :
         /\ SubSeq(g, i + 1, j) = AdaptDeviceCommand(e, named, endpointRows, value)
         /\ \A k \in DOMAIN g : g[k].endpoint = e <=> i < k /\ k <= j
  BY <1>6, <1>7, <1>8
<1> QED BY <1>9 DEF g

LEMMA LampIsLeft ==
  ASSUME LightOK, NEW e \in Endpoints, NEW on \in BOOLEAN
  PROVE  LampOn(on) \in LampStates /\ LampOn(on).on = on /\ LampOn(on).colour = "green"
         /\ LeftAt(LampOn(on), CallsOf(e), After(LampOn(on), e, Group))
<1>1. e \in 1..LastEndpoint BY AdaptAssumption
<1>2. LampOn(on) \in LampStates /\ LampOn(on).on = on /\ LampOn(on).colour = "green"
  BY DEF LampOn, LampStates
<1>3. PICK a : Segment(Group, e, a, CallsOf(e)) BY <1>1, GroupIs
<1>4. CallsOf(e) \in Seq(Calls) /\ Group \in Seq(Calls) BY <1>1, GroupIs, CallsOfRight
<1> HIDE DEF LightOK, CallsOf, LampOn, After, Group
<1> QED BY <1>2, <1>3, <1>4, AfterIsLeft

(* A colour command brings the brightness, after the colour. *)
LEMMA DecodedLeaves ==
  ASSUME LightOK, NEW e \in Endpoints, named \in Decoded, NEW lamp \in LampStates, NEW end, LeftAt(lamp, CallsOf(e), end)
  PROVE  /\ Wanted = 0 => end.colour = lamp.colour
         /\ Wanted > 0 /\ endpointRows[e] \cap {"hs", "xy"} # {} => end.colour = value.colour
         /\ CanDim(endpointRows[e]) => end.on = (Wanted > 0) /\ (Wanted > 0 => end.level = Wanted)
         /\ IsRelay(endpointRows[e]) => end.on = IF DimsHere THEN lamp.on ELSE Wanted > 0
<1> DEFINE here == endpointRows[e]
           Told == /\ Wanted = 0 => end.colour = lamp.colour
                   /\ Wanted > 0 /\ here \cap {"hs", "xy"} # {} => end.colour = value.colour
                   /\ CanDim(here) => end.on = (Wanted > 0) /\ (Wanted > 0 => end.level = Wanted)
                   /\ IsRelay(here) => end.on = IF DimsHere THEN lamp.on ELSE Wanted > 0
<1>1. e \in Nat /\ here \in SUBSET AllPairs /\ e \in DOMAIN endpointRows /\ DimsHere \in BOOLEAN
      /\ value.percent \in Int /\ value.colour \in {"white", "red"} /\ 0 \in Int
  BY AdaptAssumption DEF LightOK, Values, DimsHere
<1>2. Wanted = LevelFromPercent(value.percent) /\ Wanted \in 0..254 BY <1>1, LevelIs DEF Wanted
<1>3. CASE here = {}
  <2>1. CallsOf(e) = <<>> BY <1>3 DEF CallsOf
  <2>2. end = lamp BY <2>1, LeftByNone, Zenon
  <2>3. ~CanDim(here) /\ ~IsRelay(here) /\ here \cap {"hs", "xy"} = {} BY <1>3 DEF CanDim, IsRelay
  <2> HIDE DEF here
  <2> QED BY <2>2, <2>3 DEF here
<1>4. CASE here # {} /\ Wanted = 0
  <2>1. CallsOf(e) = Brightness(e, here, 0, DimsHere) BY <1>1, <1>2, <1>4 DEF CallsOf, EndpointCalls
  <2>2. LeftAt(lamp, Brightness(e, here, 0, DimsHere), end) BY <2>1, Zenon
  <2> DEFINE d == DimsHere
  <2> HIDE DEF here, d
  <2>3. /\ end \in LampStates /\ end.colour = lamp.colour
        /\ CanDim(here) => end.on = (LevelFromPercent(0) > 0)
        /\ IsRelay(here) => end.on = IF d THEN lamp.on ELSE LevelFromPercent(0) > 0
    BY <1>1, <2>2, BrightnessLeaves DEF d
  <2>4. Told BY <1>4, <2>3, LevelZero DEF d
  <2> QED BY <2>4 DEF here
<1>5. CASE here # {} /\ Wanted # 0
  <2> DEFINE c == Colour(e, here, named, value.colour)
             b == Brightness(e, here, value.percent, DimsHere)
  <2>1. CallsOf(e) = c \o b BY <1>1, <1>2, <1>5 DEF CallsOf, EndpointCalls
  <2>2. c \in Seq(Calls) /\ b \in Seq(Calls)
    <3> HIDE DEF here
    <3>1. Right(c, e, here) BY <1>1, ColourRight
    <3>2. Right(b, e, here) BY <1>1, BrightnessRight
    <3> QED BY <3>1, <3>2 DEF Right, Few
  <2>3. \E mid : LeftAt(lamp, c, mid) /\ LeftAt(mid, b, end)
    <3> HIDE DEF c, b
    <3>1. LeftAt(lamp, c \o b, end) BY <2>1, Zenon
    <3> QED BY <2>2, <3>1, LeftByBoth
  <2>4. PICK mid : LeftAt(lamp, c, mid) /\ LeftAt(mid, b, end)
    <3> HIDE DEF c, b
    <3> QED BY <2>3
  <2> DEFINE d == DimsHere
             p == value.percent
             v == value.colour
  <2>5. LeftAt(lamp, Colour(e, here, named, v), mid) /\ LeftAt(mid, Brightness(e, here, p, d), end)
    BY <2>4
  <2>6. p \in Int /\ v \in {"white", "red"} /\ d \in BOOLEAN /\ Wanted = LevelFromPercent(p)
    BY <1>1, <1>2
  <2> HIDE DEF here, d, p, v, c, b
  <2>7. mid \in LampStates /\ mid.on = lamp.on /\ (here \cap {"hs", "xy"} # {} => mid.colour = v)
    BY <1>1, <2>5, <2>6, ColourLeaves
  <2>8. /\ end \in LampStates /\ end.colour = mid.colour
        /\ CanDim(here) => end.on = (LevelFromPercent(p) > 0)
                            /\ (LevelFromPercent(p) > 0 => end.level = LevelFromPercent(p))
        /\ IsRelay(here) => end.on = IF d THEN mid.on ELSE LevelFromPercent(p) > 0
    BY <1>1, <2>5, <2>6, <2>7, BrightnessLeaves
  <2>9. Told BY <1>5, <2>6, <2>7, <2>8 DEF v, d
  <2> QED BY <2>9 DEF here
<1> QED BY <1>3, <1>4, <1>5

(* So does a level with switching in it, and one the endpoint is not named for. *)
LEMMA LevelLeaves ==
  ASSUME LightOK, NEW e \in Endpoints, named \notin Decoded, Switches(e),
         NEW lamp \in LampStates, NEW end, LeftAt(lamp, CallsOf(e), end)
  PROVE  /\ CanDim(endpointRows[e]) => end.on = (Wanted > 0) /\ (Wanted > 0 => end.level = Wanted)
         /\ IsRelay(endpointRows[e]) => end.on = IF DimsHere THEN lamp.on ELSE Wanted > 0
<1> DEFINE here == endpointRows[e]
           Told == /\ CanDim(here) => end.on = (Wanted > 0) /\ (Wanted > 0 => end.level = Wanted)
                   /\ IsRelay(here) => end.on = IF DimsHere THEN lamp.on ELSE Wanted > 0
<1>1. e \in Nat /\ here \in SUBSET AllPairs /\ e \in DOMAIN endpointRows /\ DimsHere \in BOOLEAN
      /\ value.percent \in Int
  BY AdaptAssumption DEF LightOK, Values, DimsHere
<1>2. Wanted = LevelFromPercent(value.percent) /\ Wanted \in 0..254 BY <1>1, LevelIs DEF Wanted
<1>3. CASE here = {}
  <2>1. ~CanDim(here) /\ ~IsRelay(here) BY <1>3 DEF CanDim, IsRelay
  <2> QED BY <2>1
<1>4. CASE here # {} /\ named \in here
  <2>1. named = "levelOnOff" /\ "levelOnOff" \in here BY <1>4 DEF Switches
  <2>2. CallsOf(e) = <<Call(e, "levelOnOff", Wanted)>>
    <3>1. CallsOf(e) = ToDeviceCalls(e, named, value) BY <1>1, <1>4 DEF CallsOf, EndpointCalls
    <3>2. ToDeviceCalls(e, named, value) = <<Call(e, named, LevelFromPercent(value.percent))>>
      BY <2>1 DEF ToDeviceCalls, Levels
    <3> QED BY <1>2, <2>1, <3>1, <3>2
  <2>3. LeftAt(lamp, <<Call(e, "levelOnOff", Wanted)>>, end) BY <2>2, Zenon
  <2> DEFINE w == Wanted
  <2>4. w \in 0..254 /\ LeftAt(lamp, <<Call(e, "levelOnOff", w)>>, end) BY <1>2, <2>3
  <2> HIDE DEF here, w
  <2>5. end \in LampStates /\ end.on = (w # 0) /\ (w # 0 => end.level = w)
    BY <1>1, <2>4, LevelCallLeaves
  <2>6. ~IsRelay(here) BY <2>1 DEF IsRelay, Levels
  <2>7. Told BY <2>4, <2>5, <2>6 DEF w
  <2> QED BY <2>7 DEF here
<1>5. CASE here # {} /\ named \notin here
  <2>1. CallsOf(e) = Brightness(e, here, value.percent, DimsHere)
    <3>1. named \in Levels /\ named # "white" BY DEF Switches, Levels
    <3> QED BY <1>1, <1>5, <3>1 DEF CallsOf, EndpointCalls
  <2> DEFINE d == DimsHere
             p == value.percent
  <2>2. LeftAt(lamp, Brightness(e, here, p, d), end) BY <2>1, Zenon
  <2>3. p \in Int /\ d \in BOOLEAN /\ Wanted = LevelFromPercent(p) BY <1>1, <1>2
  <2> HIDE DEF here, d, p
  <2>4. /\ CanDim(here) => end.on = (LevelFromPercent(p) > 0)
                            /\ (LevelFromPercent(p) > 0 => end.level = LevelFromPercent(p))
        /\ IsRelay(here) => end.on = IF d THEN lamp.on ELSE LevelFromPercent(p) > 0
    BY <1>1, <2>2, <2>3, BrightnessLeaves
  <2>5. Told BY <2>3, <2>4 DEF d
  <2> QED BY <2>5 DEF here
<1> QED BY <1>3, <1>4, <1>5

LEMMA BrightnessArrivesHolds == ASSUME LightOK PROVE BrightnessArrives
<1> SUFFICES ASSUME NEW e \in Endpoints, NEW on \in BOOLEAN
             PROVE  LET end == After(LampOn(on), e, Group) IN
                /\ Switches(e) /\ Dims(e) => end.on = (Wanted > 0) /\ (Wanted > 0 => end.level = Wanted)
                /\ Switches(e) /\ Relay(e) =>
                     end.on = (IF \E x \in Endpoints : endpointRows[x] \cap Levels # {} THEN on ELSE Wanted > 0)
  BY DEF BrightnessArrives
<1> DEFINE end == After(LampOn(on), e, Group)
           lamp == LampOn(on)
<1>1. lamp \in LampStates /\ lamp.on = on /\ LeftAt(lamp, CallsOf(e), end) BY LampIsLeft
<1>2. (\E x \in Endpoints : endpointRows[x] \cap Levels # {}) = DimsHere BY DEF LightOK, DimsHere
<1>3. (Dims(e) <=> CanDim(endpointRows[e])) /\ (Relay(e) <=> IsRelay(endpointRows[e]))
  BY DEF Dims, CanDim, Relay, IsRelay
<1> HIDE DEF end, lamp
<1>4. Switches(e) => /\ CanDim(endpointRows[e]) => end.on = (Wanted > 0) /\ (Wanted > 0 => end.level = Wanted)
                     /\ IsRelay(endpointRows[e]) => end.on = IF DimsHere THEN lamp.on ELSE Wanted > 0
  <2>1. CASE named \in Decoded BY <1>1, <2>1, DecodedLeaves
  <2>2. CASE named \notin Decoded BY <1>1, <2>2, LevelLeaves
  <2> QED BY <2>1, <2>2
<1> QED BY <1>1, <1>2, <1>3, <1>4 DEF end

LEMMA ColourArrivesHolds == ASSUME LightOK PROVE ColourArrives
<1> SUFFICES ASSUME NEW e \in Endpoints, NEW on \in BOOLEAN, named \in Decoded
             PROVE  LET end == After(LampOn(on), e, Group) IN
                /\ Wanted = 0 => end.colour = "green"
                /\ Wanted > 0 /\ endpointRows[e] \cap {"hs", "xy"} # {} => end.colour = value.colour
  BY DEF ColourArrives
<1> DEFINE end == After(LampOn(on), e, Group)
           lamp == LampOn(on)
<1>1. lamp \in LampStates /\ lamp.colour = "green" /\ LeftAt(lamp, CallsOf(e), end) BY LampIsLeft
<1> HIDE DEF end, lamp
<1>2. /\ Wanted = 0 => end.colour = lamp.colour
      /\ Wanted > 0 /\ endpointRows[e] \cap {"hs", "xy"} # {} => end.colour = value.colour
  BY <1>1, DecodedLeaves
<1> QED BY <1>1, <1>2 DEF end

LightInv == LightOK /\ asked \in BOOLEAN

(* For every light - any endpoints, any rows - every command and every value: *)
(* only commands it carries are sent, the brightness and the colour arrive *)
(* whatever the lamp was before, no colour follows the level it would be seen *)
(* by, and a command by itself and in a group is the same *)
(* (commands/adapt.py, commands/translate.py). *)
THEOREM AdaptIsSafe == AdaptSpec => []AdaptSafe
<1>1. AdaptInit => LightInv
  <2> SUFFICES ASSUME AdaptInit PROVE LightInv OBVIOUS
  <2>1. endpointRows \in [Endpoints -> SUBSET AllPairs]
    <3>1. endpointRows = [e \in Endpoints |-> {}] BY DEF AdaptInit
    <3> HIDE DEF AllPairs
    <3> QED BY <3>1
  <2>2. named \in AllPairs BY DEF AdaptInit, AllPairs
  <2>3. value \in Values BY DEF AdaptInit, Values
  <2> QED BY <2>1, <2>2, <2>3 DEF AdaptInit, LightInv, LightOK
<1>2. LightInv /\ [AdaptNext]_adaptVars => LightInv'
  <2> SUFFICES ASSUME LightOK, asked \in BOOLEAN, [AdaptNext]_adaptVars PROVE LightOK' /\ asked' \in BOOLEAN
    BY DEF LightInv
  <2>1. CASE Asks
    <3>1. /\ endpointRows' \in [Endpoints -> UNION {RowsOf[e] : e \in Endpoints}]
          /\ \A e \in Endpoints : endpointRows'[e] \in RowsOf[e]
          /\ named' \in AllPairs /\ asked' = TRUE
      BY <2>1 DEF Asks
    <3>2. \A e \in Endpoints : RowsOf[e] \in SUBSET SUBSET AllPairs BY AdaptAssumption DEF AllPairs
    <3>3. endpointRows' \in [Endpoints -> SUBSET AllPairs] BY <3>1, <3>2
    <3>4. value' \in Values BY <2>1, AdaptAssumption DEF Asks, Values
    <3> QED BY <3>1, <3>3, <3>4 DEF LightOK
  <2>2. CASE UNCHANGED adaptVars BY <2>2 DEF adaptVars, LightOK
  <2> QED BY <2>1, <2>2 DEF AdaptNext
<1>3. LightInv =>
        AdaptTypeOK /\ OnlyCarried /\ BrightnessArrives /\ ColourArrives /\ ColourFirst /\ SameCallsAlone
  <2> SUFFICES ASSUME LightOK, asked \in BOOLEAN
      PROVE AdaptTypeOK /\ OnlyCarried /\ BrightnessArrives /\ ColourArrives /\ ColourFirst /\ SameCallsAlone
    BY DEF LightInv
  <2>1. AdaptTypeOK BY DEF AdaptTypeOK, LightOK
  <2> QED BY <2>1, OnlyCarriedHolds, BrightnessArrivesHolds, ColourArrivesHolds, ColourFirstHolds, SameCallsAloneHolds
<1>4. AdaptTypeOK /\ OnlyCarried /\ BrightnessArrives /\ ColourArrives /\ ColourFirst /\ SameCallsAlone
      /\ LevelsAreMonotone => AdaptSafe
  BY DEF AdaptSafe
<1> QED BY <1>1, <1>2, <1>3, <1>4, LevelsRoundRight, PTL DEF AdaptSpec

========================================
