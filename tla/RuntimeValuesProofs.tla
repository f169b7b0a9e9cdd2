------------------------- MODULE RuntimeValuesProofs -------------------------
(***************************************************************************)
(* Proofs about the value path, for any keys, sources, resenders and       *)
(* bounds: type correctness, the order of the calls in the sender's line,  *)
(* that what the Miniserver is shown only moves forward (the abstract      *)
(* ValueFeed), and that a resend restores what it set out to restore.      *)
(***************************************************************************)
EXTENDS RuntimeValues, SenderProofs

LEMMA SnapshotTyped ==
    ASSUME NEW s \in Sources, NEW snap \in Snapshots(s)
    PROVE  DOMAIN snap \subseteq Keys /\ \A k \in DOMAIN snap : snap[k] \in Values
  BY DEF Snapshots

LEMMA CacheAllType ==
    ASSUME TypeOK, NEW snap, DOMAIN snap \subseteq Keys,
           \A k \in DOMAIN snap : snap[k] \in Values, CacheAll(snap)
    PROVE  cache' \in [Keys -> Values \cup {None}] /\ reports' \in [Keys -> Nat]
  BY DEF TypeOK, CacheAll

----------------------------------------
(* Every variable keeps its type, whatever the keys, tasks and bounds. *)
THEOREM TypeCorrect == Spec => []TypeOK
<1>1. Init => TypeOK
  <2> SUFFICES ASSUME Init PROVE TypeOK OBVIOUS
  <2>1. SenderTypeOK
    <3>1. line \in Seq(Request \cup {CloseRequest}) BY DEF Init, SenderInit
    <3> QED BY <3>1 DEF Init, SenderInit, SenderTypeOK
  <2> QED BY <2>1 DEF Init, TypeOK, NoGoal
<1>2. TypeOK /\ [Next]_vars => TypeOK'
  <2> SUFFICES ASSUME TypeOK, [Next]_vars PROVE TypeOK' OBVIOUS
  <2> USE ValuesAssumption
  <2>1. ASSUME NEW s \in Sources, NEW k \in Keys, NEW v \in Values, OnAttribute(s, k, v)
        PROVE  TypeOK'
    <3> DEFINE snap == [x \in {k} |-> v]
    <3>1. DOMAIN snap \subseteq Keys /\ \A x \in DOMAIN snap : snap[x] \in Values OBVIOUS
    <3>2. cache' \in [Keys -> Values \cup {None}] /\ reports' \in [Keys -> Nat]
      BY <2>1, <3>1, CacheAllType DEF OnAttribute
    <3>3. SenderTypeOK'
      <4>1. CASE closed BY <2>1, <4>1 DEF OnAttribute, TypeOK, SenderTypeOK, senderVars
      <4>2. CASE ~closed
        <5>1. SendCall(s, k, v, reports[k] + 1, FALSE) BY <2>1, <4>2 DEF OnAttribute
        <5>2. SenderTypeOK /\ reports[k] + 1 \in Nat /\ s \in Tasks BY DEF TypeOK
        <5> QED BY <5>1, <5>2, SendCallType
      <4> QED BY <4>1, <4>2
    <3> QED BY <2>1, <3>2, <3>3 DEF OnAttribute, TypeOK
  <2>2. ASSUME NEW s \in Sources, NEW snap \in Snapshots(s), OnNodeSnapshot(s, snap) PROVE TypeOK'
    <3>1. DOMAIN snap \subseteq Keys /\ \A x \in DOMAIN snap : snap[x] \in Values BY SnapshotTyped
    <3>2. cache' \in [Keys -> Values \cup {None}] /\ reports' \in [Keys -> Nat]
      BY <2>2, <3>1, CacheAllType DEF OnNodeSnapshot
    <3> QED BY <2>2, <3>1, <3>2 DEF OnNodeSnapshot, TypeOK, SenderTypeOK, senderVars
  <2>3. ASSUME NEW s \in Sources, NEW r \in Resenders, NEW snap \in Snapshots(s),
               Attach(r, s, snap)
        PROVE  TypeOK'
    <3>1. DOMAIN snap \subseteq Keys /\ \A x \in DOMAIN snap : snap[x] \in Values BY SnapshotTyped
    <3>2. cache' \in [Keys -> Values \cup {None}] /\ reports' \in [Keys -> Nat]
      BY <2>3, <3>1, CacheAllType DEF Attach
    <3>3. NoGoal \in [Keys -> Nat] /\ Cached \cup DOMAIN snap \in SUBSET Keys
      BY <3>1 DEF NoGoal, Cached
    <3> QED BY <2>3, <3>2, <3>3 DEF Attach, TypeOK, SenderTypeOK, senderVars
  <2>4. ASSUME NEW r \in Resenders, ResendAll(r) PROVE TypeOK'
    <3>1. NoGoal \in [Keys -> Nat] /\ Cached \in SUBSET Keys BY DEF NoGoal, Cached
    <3> QED BY <2>4, <3>1 DEF ResendAll, TypeOK, SenderTypeOK, senderVars
  <2>5. ASSUME NEW r \in Resenders, ResendMarked(r) PROVE TypeOK'
    BY <2>5 DEF ResendMarked, TypeOK, SenderTypeOK, senderVars
  <2>6. ASSUME NEW r \in Resenders, Cancel(r) PROVE TypeOK'
    <3>1. SenderTypeOK' BY <2>6, LeaveLineType DEF Cancel, TypeOK, SenderTypeOK, senderVars
    <3>2. NoGoal \in [Keys -> Nat] BY DEF NoGoal
    <3> QED BY <2>6, <3>1, <3>2 DEF Cancel, TypeOK
  <2>7. ASSUME NEW t \in Tasks, NextKey(t) PROVE TypeOK'
    <3>1. PICK k \in rest[t] :
            /\ rest' = [rest EXCEPT ![t] = @ \ {k}]
            /\ IF cache[k] = None THEN UNCHANGED senderVars
               ELSE SendCall(t, k, cache[k], reports[k], t \in Resenders)
      BY <2>7 DEF NextKey
    <3>2. k \in Keys /\ cache[k] \in Values \cup {None} /\ reports[k] \in Nat BY DEF TypeOK
    <3>3. SenderTypeOK'
      <4>1. CASE cache[k] = None BY <3>1, <4>1 DEF TypeOK, SenderTypeOK, senderVars
      <4>2. CASE cache[k] # None
        <5>1. SendCall(t, k, cache[k], reports[k], t \in Resenders) /\ cache[k] \in Values
          BY <3>1, <3>2, <4>2
        <5>2. SenderTypeOK BY DEF TypeOK
        <5> DEFINE f == t \in Resenders
        <5>3. f \in BOOLEAN /\ SendCall(t, k, cache[k], reports[k], f) BY <5>1
        <5> HIDE DEF f
        <5> QED BY <3>2, <5>1, <5>2, <5>3, SendCallType
      <4> QED BY <4>1, <4>2
    <3> QED BY <2>7, <3>1, <3>3 DEF NextKey, TypeOK
  <2>8. ASSUME NEW t \in Tasks, NextKeyRaises(t) PROVE TypeOK'
    BY <2>8 DEF NextKeyRaises, TypeOK, SenderTypeOK, senderVars, NoGoal
  <2>9. ASSUME NEW t \in Tasks, Sent(t) PROVE TypeOK'
    BY <2>9, SendToType DEF Sent, TypeOK, runtimeVars
  <2>10. ASSUME NEW t \in Tasks, SendFails(t) PROVE TypeOK'
    <3>1. SenderTypeOK' /\ failures' \in Nat BY <2>10, SendRaisesType DEF SendFails, TypeOK
    <3> QED BY <2>10, <3>1 DEF SendFails, TypeOK, NoGoal
  <2>11. ASSUME NEW isSet \in BOOLEAN, NEW r \in Resenders, SaveSettings(isSet, r) PROVE TypeOK'
    BY <2>11 DEF SaveSettings, SetTarget, TypeOK, SenderTypeOK, NoGoal
  <2>12. ASSUME MiniserverRestarts PROVE TypeOK'
    BY <2>12 DEF MiniserverRestarts, TypeOK, SenderTypeOK, NoGoal
  <2>13. ASSUME BeginStop PROVE TypeOK' BY <2>13 DEF BeginStop, TypeOK, SenderTypeOK, senderVars
  <2>14. ASSUME BeginClose PROVE TypeOK'
    BY <2>14, CloseCallType DEF BeginClose, TypeOK, runtimeVars
  <2>15. ASSUME FinishClose PROVE TypeOK'
    BY <2>15, CloseSocketType DEF FinishClose, TypeOK, runtimeVars
  <2>16. CASE UNCHANGED vars BY <2>16 DEF vars, senderVars, runtimeVars, TypeOK, SenderTypeOK
  <2> QED BY <2>1, <2>2, <2>3, <2>4, <2>5, <2>6, <2>7, <2>8, <2>9, <2>10, <2>11, <2>12,
       <2>13, <2>14, <2>15, <2>16 DEF Next
<1> QED BY <1>1, <1>2, PTL DEF Spec
----------------------------------------
(* The line stays in order: the three conjuncts of LineInOrder, for a line *)
(* to which a call with the newest value is added and for a line from *)
(* which a call is taken. *)
LEMMA EntryFacts ==
    ASSUME SenderTypeOK
    PROVE  /\ line \in Seq(Entry) /\ Len(line) \in Nat
           /\ \A i \in 1..Len(line) : line[i] \in Entry /\ line[i].ver \in Nat
<1>1. line \in Seq(Entry) BY DEF SenderTypeOK, Entry
<1>2. \A e \in Entry : e.ver \in Nat BY DEF Entry, Request, CloseRequest
<1> QED BY <1>1, <1>2

LEMMA OrderGrows ==
    ASSUME SenderTypeOK, reports \in [Keys -> Nat], reports' \in [Keys -> Nat],
           LineInOrder, \A k \in Keys : reports[k] <= reports'[k],
           line' = line, shown' = shown
    PROVE  LineInOrder'
<1>1. \A k \in Keys : shown'[k] <= reports'[k] BY DEF LineInOrder, SenderTypeOK
<1>2. \A i \in 1..Len(line') : line'[i].key \in Keys =>
        shown'[line'[i].key] <= line'[i].ver /\ line'[i].ver <= reports'[line'[i].key]
  BY EntryFacts DEF LineInOrder
<1>3. \A i, j \in 1..Len(line') :
        i < j /\ line'[i].key = line'[j].key => line'[i].ver <= line'[j].ver
  BY DEF LineInOrder
<1> QED BY <1>1, <1>2, <1>3 DEF LineInOrder

LEMMA OrderAppended ==
    ASSUME SenderTypeOK, reports \in [Keys -> Nat], reports' \in [Keys -> Nat],
           LineInOrder, \A k \in Keys : reports[k] <= reports'[k],
           NEW t \in Tasks, NEW k \in Keys, NEW v \in Values, NEW f, f \in BOOLEAN,
           SendCall(t, k, v, reports'[k], f)
    PROVE  LineInOrder'
<1>1. shown' = shown /\ reports'[k] \in Nat BY DEF SendCall
<1>2. PICK e \in Request :
        /\ e.key = k /\ e.ver = reports'[k]
        /\ line' = IF Skipped(k, v, f) THEN line ELSE Append(line, e)
  BY <1>1, SendCallEntry
<1>3. CASE Skipped(k, v, f) BY <1>1, <1>2, <1>3, OrderGrows
<1>4. CASE ~Skipped(k, v, f)
  <2>1. /\ line' = Append(line, e) /\ line \in Seq(Entry) /\ e \in Entry
    BY <1>2, <1>4, EntryFacts DEF Entry
  <2>2. /\ Len(line') = Len(line) + 1 /\ Len(line) \in Nat
        /\ line'[Len(line) + 1] = e
        /\ \A i \in 1..Len(line) : line'[i] = line[i]
    BY <2>1, AppendFacts
  <2>3. \A x \in Keys : shown'[x] <= reports'[x] BY <1>1 DEF LineInOrder, SenderTypeOK
  <2>4. \A i \in 1..Len(line') : line'[i].key \in Keys =>
          shown'[line'[i].key] <= line'[i].ver /\ line'[i].ver <= reports'[line'[i].key]
    <3> SUFFICES ASSUME NEW i \in 1..Len(line'), line'[i].key \in Keys
                 PROVE  /\ shown'[line'[i].key] <= line'[i].ver
                        /\ line'[i].ver <= reports'[line'[i].key]
      OBVIOUS
    <3>1. CASE i \in 1..Len(line) BY <1>1, <2>2, <3>1, EntryFacts DEF LineInOrder
    <3>2. CASE i = Len(line) + 1 BY <1>2, <2>2, <2>3, <3>2, <1>1
    <3> QED BY <2>2, <3>1, <3>2
  <2>5. \A i, j \in 1..Len(line') :
          i < j /\ line'[i].key = line'[j].key => line'[i].ver <= line'[j].ver
    <3> SUFFICES ASSUME NEW i \in 1..Len(line'), NEW j \in 1..Len(line'),
                        i < j, line'[i].key = line'[j].key
                 PROVE  line'[i].ver <= line'[j].ver
      OBVIOUS
    <3>0. i \in Nat /\ j \in Nat /\ 1 <= i /\ i < j /\ j <= Len(line) + 1 /\ Len(line) \in Nat
      BY <2>2
    <3>1. i \in 1..Len(line) /\ line'[i] = line[i]
      <4>1. i \in 1..Len(line) BY <3>0
      <4> QED BY <2>2, <4>1
    <3>2. CASE j \in 1..Len(line) BY <2>2, <3>1, <3>2 DEF LineInOrder
    <3>3. CASE j = Len(line) + 1
      <4>1. line[i].key = k /\ line[i].ver <= reports[k] /\ line[i].ver \in Nat
        BY <1>2, <2>2, <3>1, <3>3, EntryFacts DEF LineInOrder
      <4> QED BY <1>1, <1>2, <2>2, <3>1, <3>3, <4>1
    <3> QED BY <2>2, <3>2, <3>3
  <2> QED BY <2>3, <2>4, <2>5 DEF LineInOrder
<1> QED BY <1>3, <1>4

LEMMA OrderHeadGone ==
    ASSUME SenderTypeOK, reports \in [Keys -> Nat], LineInOrder, line # <<>>,
           line' = Tail(line), reports' = reports,
           shown' = shown \/ (line[1].key \in Keys
                               /\ shown' = [shown EXCEPT ![line[1].key] = line[1].ver])
    PROVE  LineInOrder'
<1>1. /\ Len(line') = Len(line) - 1 /\ Len(line) \in Nat \ {0}
      /\ \A i \in 1..Len(line') : i + 1 \in 1..Len(line) /\ line'[i] = line[i + 1]
  BY EntryFacts, TailFacts
<1>2. 1 \in 1..Len(line) /\ line[1].ver \in Nat BY <1>1, EntryFacts
<1>3. \A k \in Keys : shown'[k] <= reports'[k] BY <1>2 DEF LineInOrder, SenderTypeOK
<1>4. \A i \in 1..Len(line') : line'[i].key \in Keys =>
        shown'[line'[i].key] <= line'[i].ver /\ line'[i].ver <= reports'[line'[i].key]
  <2> SUFFICES ASSUME NEW i \in 1..Len(line'), line'[i].key \in Keys
               PROVE  /\ shown'[line'[i].key] <= line'[i].ver
                      /\ line'[i].ver <= reports'[line'[i].key]
    OBVIOUS
  <2>1. /\ i + 1 \in 1..Len(line) /\ line'[i] = line[i + 1] BY <1>1
  <2>2. /\ shown[line'[i].key] <= line'[i].ver /\ line'[i].ver <= reports[line'[i].key]
    BY <2>1 DEF LineInOrder
  <2>3. line[1].key = line'[i].key => line[1].ver <= line'[i].ver BY <1>2, <2>1 DEF LineInOrder
  <2> QED BY <1>2, <2>2, <2>3 DEF SenderTypeOK
<1>5. \A i, j \in 1..Len(line') :
        i < j /\ line'[i].key = line'[j].key => line'[i].ver <= line'[j].ver
  BY <1>1 DEF LineInOrder
<1> QED BY <1>3, <1>4, <1>5 DEF LineInOrder

LEMMA OrderOneGone ==
    ASSUME SenderTypeOK, LineInOrder, NEW t, LeaveLine(t), reports' = reports
    PROVE  LineInOrder'
<1>1. PICK n \in 1..Len(line) : line' = RemoveAt(line, n) BY DEF LeaveLine
<1>2. /\ Len(line') = Len(line) - 1 /\ Len(line) \in Nat
      /\ \A j \in 1..(Len(line) - 1) : line'[j] = IF j < n THEN line[j] ELSE line[j + 1]
  BY <1>1, EntryFacts, RemoveAtFacts
<1>3. shown' = shown BY DEF LeaveLine
<1>4. \A i \in 1..Len(line') : line'[i].key \in Keys =>
        shown'[line'[i].key] <= line'[i].ver /\ line'[i].ver <= reports'[line'[i].key]
  BY <1>2, <1>3 DEF LineInOrder
<1>5. \A i, j \in 1..Len(line') :
        i < j /\ line'[i].key = line'[j].key => line'[i].ver <= line'[j].ver
  BY <1>1, <1>2 DEF LineInOrder
<1> QED BY <1>3, <1>4, <1>5 DEF LineInOrder

LEMMA OrderNothingShown ==
    ASSUME SenderTypeOK, reports \in [Keys -> Nat], LineInOrder, line' = line,
           shown' = [k \in Keys |-> 0], reports' = reports
    PROVE  LineInOrder'
  BY EntryFacts DEF LineInOrder

LEMMA OrderCloseAppended ==
    ASSUME SenderTypeOK, LineInOrder, CloseCall, reports' = reports
    PROVE  LineInOrder'
<1>1. line \in Seq(Entry) /\ CloseRequest \in Entry /\ line' = Append(line, CloseRequest)
  BY EntryFacts DEF Entry, CloseCall
<1>2. /\ Len(line') = Len(line) + 1 /\ Len(line) \in Nat
      /\ line'[Len(line) + 1] = CloseRequest
      /\ \A i \in 1..Len(line) : line'[i] = line[i]
  BY <1>1, AppendFacts
<1>3. CloseRequest.key \notin Keys /\ shown' = shown
  BY SenderAssumption DEF CloseRequest, CloseCall
<1>4. \A i \in 1..Len(line) : line[i].key \notin Keys => line[i].ver = 0
  BY EntryFacts DEF Entry, Request, CloseRequest
<1>5. \A i \in 1..Len(line') : line'[i].key \in Keys =>
        shown'[line'[i].key] <= line'[i].ver /\ line'[i].ver <= reports'[line'[i].key]
  BY <1>2, <1>3 DEF LineInOrder
<1>6. \A i, j \in 1..Len(line') :
        i < j /\ line'[i].key = line'[j].key => line'[i].ver <= line'[j].ver
  <2> SUFFICES ASSUME NEW i \in 1..Len(line'), NEW j \in 1..Len(line'),
                      i < j, line'[i].key = line'[j].key
               PROVE  line'[i].ver <= line'[j].ver
    OBVIOUS
  <2>1. i \in 1..Len(line) /\ line'[i] = line[i] BY <1>2
  <2>2. CASE j \in 1..Len(line) BY <1>2, <2>1, <2>2 DEF LineInOrder
  <2>3. CASE j = Len(line) + 1
    <3>1. line'[i].ver = 0 /\ line'[j].ver = 0 BY <1>2, <1>3, <1>4, <2>1, <2>3 DEF CloseRequest
    <3> QED BY <3>1
  <2> QED BY <1>2, <2>2, <2>3
<1> QED BY <1>3, <1>5, <1>6 DEF LineInOrder
----------------------------------------
(* One step of the specification, as the proofs below need it: the types *)
(* hold before and after it, and the reports only grow. *)
Typed == TypeOK /\ TypeOK'

LEMMA ReportsGrow ==
    ASSUME Typed, [Next]_vars
    PROVE  \A k \in Keys : reports[k] <= reports'[k]
<1>1. \A snap : CacheAll(snap) => \A k \in Keys : reports[k] <= reports'[k]
  BY DEF Typed, TypeOK, CacheAll
<1>2. CASE \E s \in Sources, k \in Keys, v \in Values : OnAttribute(s, k, v)
  BY <1>1, <1>2 DEF OnAttribute
<1>3. CASE \E s \in Sources : \E snap \in Snapshots(s) : OnNodeSnapshot(s, snap)
  BY <1>1, <1>3 DEF OnNodeSnapshot
<1>4. CASE \E s \in Sources, r \in Resenders : \E snap \in Snapshots(s) : Attach(r, s, snap)
  BY <1>1, <1>4 DEF Attach
<1>5. CASE UNCHANGED reports BY <1>5 DEF Typed, TypeOK
<1> QED BY <1>2, <1>3, <1>4, <1>5
     DEF Next, vars, runtimeVars, ResendAll, ResendMarked, Cancel, NextKey, NextKeyRaises,
         Sent, SendFails, SaveSettings, MiniserverRestarts, BeginStop, BeginClose, FinishClose

(* The calls in the sender's line stay in the order of the values they carry. *)
LEMMA OrderStep ==
    ASSUME Typed, LineInOrder, [Next]_vars
    PROVE  LineInOrder'
<1> USE DEF Typed
<1>0. /\ SenderTypeOK /\ reports \in [Keys -> Nat] /\ reports' \in [Keys -> Nat]
      /\ cache \in [Keys -> Values \cup {None}]
      /\ \A k \in Keys : reports[k] <= reports'[k]
  BY ReportsGrow DEF TypeOK
<1>1. CASE line' = line /\ shown' = shown BY <1>0, <1>1, OrderGrows
<1>2. ASSUME NEW s \in Sources, NEW k \in Keys, NEW v \in Values, OnAttribute(s, k, v)
      PROVE  LineInOrder'
  <2>1. CASE closed BY <1>1, <1>2, <2>1 DEF OnAttribute, senderVars
  <2>2. CASE ~closed
    <3>1. reports'[k] = reports[k] + 1 /\ s \in Tasks
      BY <1>0, <1>2, ValuesAssumption DEF OnAttribute, CacheAll
    <3>2. SendCall(s, k, v, reports'[k], FALSE) BY <1>2, <2>2, <3>1 DEF OnAttribute
    <3> QED BY <1>0, <3>1, <3>2, OrderAppended
  <2> QED BY <2>1, <2>2
<1>3. ASSUME NEW t \in Tasks, NextKey(t) PROVE LineInOrder'
  <2>1. PICK k \in rest[t] :
          IF cache[k] = None THEN UNCHANGED senderVars
          ELSE SendCall(t, k, cache[k], reports[k], t \in Resenders)
    BY <1>3 DEF NextKey
  <2>2. k \in Keys /\ reports'[k] = reports[k] BY <1>3 DEF TypeOK, NextKey
  <2>3. CASE cache[k] = None BY <1>1, <2>1, <2>3 DEF senderVars
  <2>4. CASE cache[k] # None
    <3> DEFINE f == t \in Resenders
    <3>1. cache[k] \in Values /\ f \in BOOLEAN /\ SendCall(t, k, cache[k], reports'[k], f)
      BY <1>0, <2>1, <2>2, <2>4
    <3> HIDE DEF f
    <3> QED BY <1>0, <2>2, <3>1, OrderAppended
  <2> QED BY <2>3, <2>4
<1>4. ASSUME NEW t \in Tasks, Sent(t) PROVE LineInOrder'
  <2>1. /\ line # <<>> /\ line' = Tail(line) /\ reports' = reports /\ Head(line) = line[1]
        /\ line[1] \in Request
    BY <1>0, <1>4, SendToType DEF Sent, SendTo, runtimeVars
  <2>2. /\ line[1].key \in Keys
        /\ shown' = shown \/ shown' = [shown EXCEPT ![line[1].key] = line[1].ver]
    BY <1>4, <2>1 DEF Sent, SendTo, Request
  <2> QED BY <1>0, <2>1, <2>2, OrderHeadGone
<1>5. ASSUME NEW t \in Tasks, SendFails(t) PROVE LineInOrder'
  BY <1>0, <1>5, OrderHeadGone DEF SendFails, SendRaises
<1>6. ASSUME FinishClose PROVE LineInOrder'
  BY <1>0, <1>6, OrderHeadGone DEF FinishClose, CloseSocket, runtimeVars
<1>7. ASSUME BeginClose PROVE LineInOrder'
  BY <1>0, <1>7, OrderCloseAppended DEF BeginClose, runtimeVars
<1>8. ASSUME NEW r \in Resenders, Cancel(r) PROVE LineInOrder'
  <2>1. CASE Waiting(r) BY <1>0, <1>8, <2>1, OrderOneGone DEF Cancel
  <2>2. CASE ~Waiting(r) BY <1>1, <1>8, <2>2 DEF Cancel, senderVars
  <2> QED BY <2>1, <2>2
<1>9. ASSUME NEW isSet \in BOOLEAN, NEW r \in Resenders, SaveSettings(isSet, r) PROVE LineInOrder'
  BY <1>0, <1>9, OrderNothingShown DEF SaveSettings, SetTarget
<1>10. ASSUME MiniserverRestarts PROVE LineInOrder'
  BY <1>0, <1>10, OrderNothingShown DEF MiniserverRestarts
<1> QED BY <1>1, <1>2, <1>3, <1>4, <1>5, <1>6, <1>7, <1>8, <1>9, <1>10
     DEF Next, vars, senderVars, OnNodeSnapshot, Attach, ResendAll, ResendMarked,
         NextKeyRaises, BeginStop

(* For every instance: the calls that wait for the sender's lock carry ever *)
(* newer values of their key, none older than what the Miniserver was shown *)
(* and none newer than what the bridge knows. *)
THEOREM LineAlwaysInOrder == Spec => []LineInOrder
<1>1. Init => LineInOrder BY DEF Init, SenderInit, LineInOrder
<1>2. TypeOK /\ TypeOK' /\ LineInOrder /\ [Next]_vars => LineInOrder' BY OrderStep DEF Typed
<1> QED BY <1>1, <1>2, TypeCorrect, PTL DEF Spec
----------------------------------------
(* What a step does to the value shown of a key: nothing, a move forward, or *)
(* everything back to the start because the Miniserver is a fresh one. *)
LEMMA ShownStep ==
    ASSUME Typed, LineInOrder, [Next]_vars
    PROVE  \/ shown' = shown
           \/ /\ reports' = reports
              /\ \/ shown' = [k \in Keys |-> 0]
                 \/ \E k \in Keys, n \in Nat :
                      /\ shown[k] <= n /\ n <= reports[k]
                      /\ shown' = [shown EXCEPT ![k] = n]
<1> USE DEF Typed
<1>1. CASE \E t \in Tasks : Sent(t)
  <2>1. PICK t \in Tasks : Sent(t) BY <1>1
  <2>2. CASE ~target BY <2>1, <2>2 DEF Sent, SendTo
  <2>3. CASE target
    <3>1. /\ line # <<>> /\ Head(line) = line[1] /\ line[1] \in Request /\ reports' = reports
          /\ shown' = [shown EXCEPT ![line[1].key] = line[1].ver]
      BY <2>1, <2>3, SendToType DEF Sent, SendTo, runtimeVars, TypeOK
    <3>2. /\ line[1].key \in Keys /\ line[1].ver \in Nat /\ 1 \in 1..Len(line)
      BY <3>1, EntryFacts, TailFacts DEF Request, TypeOK
    <3>3. shown[line[1].key] <= line[1].ver /\ line[1].ver <= reports[line[1].key]
      BY <3>2 DEF LineInOrder
    <3> QED BY <3>1, <3>2, <3>3
  <2> QED BY <2>2, <2>3
<1>2. CASE \E isSet \in BOOLEAN, r \in Resenders : SaveSettings(isSet, r)
  BY <1>2 DEF SaveSettings, SetTarget
<1>3. CASE MiniserverRestarts BY <1>3 DEF MiniserverRestarts
<1>4. CASE UNCHANGED shown BY <1>4
<1>5. \A t, k, v, n, f : SendCall(t, k, v, n, f) => shown' = shown BY DEF SendCall
<1>6. \A t : (SendRaises(t) \/ LeaveLine(t)) => shown' = shown BY DEF SendRaises, LeaveLine
<1>7. CASE \E t \in Tasks : NextKey(t) BY <1>5, <1>7 DEF NextKey, senderVars
<1> QED BY <1>1, <1>2, <1>3, <1>4, <1>5, <1>6, <1>7
     DEF Next, vars, senderVars, OnAttribute, OnNodeSnapshot, Attach, ResendAll, ResendMarked,
         Cancel, NextKeyRaises, SendFails, BeginStop, BeginClose, CloseCall,
         FinishClose, CloseSocket

(* What a step does to the reports: each key has one more or as many. *)
LEMMA ReportsStep ==
    ASSUME Typed, [Next]_vars
    PROVE  reports' = reports \/ \E S \in SUBSET Keys :
             reports' = [k \in Keys |-> IF k \in S THEN reports[k] + 1 ELSE reports[k]]
<1> USE DEF Typed
<1>1. ASSUME NEW snap, CacheAll(snap)
      PROVE  \E S \in SUBSET Keys :
           reports' = [k \in Keys |-> IF k \in S THEN reports[k] + 1 ELSE reports[k]]
  <2>1. reports' = [k \in Keys |-> IF k \in Keys \cap DOMAIN snap
                                   THEN reports[k] + 1 ELSE reports[k]]
    BY <1>1 DEF CacheAll
  <2> QED BY <2>1
<1>2. CASE \E s \in Sources, k \in Keys, v \in Values : OnAttribute(s, k, v)
  BY <1>1, <1>2 DEF OnAttribute
<1>3. CASE \E s \in Sources : \E snap \in Snapshots(s) : OnNodeSnapshot(s, snap)
  BY <1>1, <1>3 DEF OnNodeSnapshot
<1>4. CASE \E s \in Sources, r \in Resenders : \E snap \in Snapshots(s) : Attach(r, s, snap)
  BY <1>1, <1>4 DEF Attach
<1>5. CASE UNCHANGED reports BY <1>5
<1> QED BY <1>2, <1>3, <1>4, <1>5
     DEF Next, vars, runtimeVars, ResendAll, ResendMarked, Cancel, NextKey, NextKeyRaises,
         Sent, SendFails, SaveSettings, MiniserverRestarts, BeginStop, BeginClose, FinishClose

(* For every instance the value path implements the abstract feed: however *)
(* reports, snapshots, reconnects and resends interleave, what the *)
(* Miniserver is shown of a key only moves forward in its history. *)
THEOREM ValuesImplementFeed == Spec => FeedSpec
<1>1. Init => Feed!Init BY DEF Init, SenderInit, Feed!Init
<1>2. TypeOK /\ TypeOK' /\ LineInOrder /\ [Next]_vars => [Feed!Next]_(Feed!vars)
  <2> SUFFICES ASSUME Typed, LineInOrder, [Next]_vars PROVE [Feed!Next]_(Feed!vars) BY DEF Typed
  <2>1. shown \in [Keys -> Nat] /\ reports \in [Keys -> Nat] BY DEF Typed, TypeOK, SenderTypeOK
  <2>2. CASE shown' = shown BY <2>2, ReportsStep DEF Feed!Next, Feed!Report, Feed!vars
  <2>3. CASE reports' = reports /\ shown' = [k \in Keys |-> 0]
    BY <2>3 DEF Feed!Next, Feed!Restart, Feed!vars
  <2>4. ASSUME reports' = reports, NEW k \in Keys, NEW n \in Nat,
               shown[k] <= n, n <= reports[k], shown' = [shown EXCEPT ![k] = n]
        PROVE  [Feed!Next]_(Feed!vars)
    <3>1. n \in shown[k]..reports[k] BY <2>1, <2>4
    <3>2. Feed!Show(k) BY <2>4, <3>1 DEF Feed!Show
    <3> QED BY <3>2 DEF Feed!Next
  <2> QED BY <2>2, <2>3, <2>4, ShownStep
<1> QED BY <1>1, <1>2, TypeCorrect, LineAlwaysInOrder, PTL DEF Spec, FeedSpec, Feed!Spec
----------------------------------------
(* What a resend owes.  ResendRestores is inductive only together with *)
(* GoalsWithinReach: a key may leave `rest` without a call because it has *)
(* no value, or because there is no address, and then nothing may be owed; *)
(* and a call that leaves the line pays because of the value it carries. *)
Owing == LineInOrder /\ GoalsWithinReach /\ ResendRestores

\* A resend's call for a key is in the line.
Called(r, k) == \E i \in 1..Len(line) : line[i].task = r /\ line[i].key = k

LEMMA NoGoalFacts == NoGoal \in [Keys -> Nat] /\ \A k \in Keys : NoGoal[k] = 0
  BY DEF NoGoal

(* Nothing moves in the line and nothing is shown; goals are given up or *)
(* keep what they ask for, and no key leaves its loop unless its goal does. *)
LEMMA OwingRests ==
    ASSUME Typed, Owing, line' = line, shown' = shown, target' = target,
           \A k \in Keys : reports[k] <= reports'[k],
           \A k \in Keys : cache'[k] = None => cache[k] = None /\ reports'[k] = reports[k],
           \A r \in Resenders : \/ goal'[r] = NoGoal
                                \/ goal'[r] = goal[r] /\ rest[r] \subseteq rest'[r]
    PROVE  GoalsWithinReach' /\ ResendRestores'
<1> USE NoGoalFacts
<1>1. /\ goal \in [Resenders -> [Keys -> Nat]] /\ goal' \in [Resenders -> [Keys -> Nat]]
      /\ reports \in [Keys -> Nat] /\ reports' \in [Keys -> Nat] /\ shown \in [Keys -> Nat]
      /\ SenderTypeOK
  BY DEF Typed, TypeOK, SenderTypeOK
<1>2. \A i \in 1..Len(line) : line[i].task \in Resenders => line[i].key \in Keys /\ line[i].ver \in Nat
  BY <1>1, TaskEntry, ValuesAssumption
<1>3. ASSUME NEW i \in 1..Len(line), line[i].task \in Resenders
      PROVE  goal'[line[i].task][line[i].key] <= line[i].ver
  <2> DEFINE r == line[i].task
  <2>1. goal[r][line[i].key] <= line[i].ver BY <1>3 DEF Owing, GoalsWithinReach
  <2>2. CASE goal'[r] = NoGoal BY <1>2, <1>3, <2>2
  <2>3. CASE goal'[r] = goal[r] BY <2>1, <2>3
  <2> QED BY <1>3, <2>2, <2>3
<1>4. ASSUME NEW r \in Resenders, NEW k \in Keys PROVE goal'[r][k] <= reports'[k]
  <2>1. goal[r][k] <= reports[k] /\ reports[k] <= reports'[k] /\ goal[r][k] \in Nat
    BY <1>1 DEF Owing, GoalsWithinReach
  <2>2. reports'[k] \in Nat /\ reports[k] \in Nat BY <1>1
  <2>3. CASE goal'[r] = NoGoal BY <2>2, <2>3
  <2>4. CASE goal'[r] = goal[r] BY <2>1, <2>2, <2>4
  <2> QED BY <2>3, <2>4
<1>5. GoalsWithinReach' BY <1>3, <1>4 DEF Owing, GoalsWithinReach
<1>6. ASSUME NEW r \in Resenders, NEW k \in Keys
      PROVE  k \in rest'[r] \/ Called(r, k)' \/ shown'[k] >= goal'[r][k]
  <2>1. k \in rest[r] \/ Called(r, k) \/ shown[k] >= goal[r][k]
    BY DEF Owing, ResendRestores, Called
  <2>2. CASE goal'[r] = NoGoal BY <1>1, <2>2
  <2>3. CASE goal'[r] = goal[r] /\ rest[r] \subseteq rest'[r] BY <1>1, <2>1, <2>3 DEF Called
  <2> QED BY <2>2, <2>3
<1> QED BY <1>5, <1>6 DEF ResendRestores, Called

(* A call joins the line.  If it is a resend's, it carries what the resend *)
(* owes, and its key may leave the loop. *)
LEMMA OwingAppended ==
    ASSUME Typed, Owing, NEW e \in Entry, line' = Append(line, e),
           shown' = shown, target' = target, goal' = goal,
           \A k \in Keys : reports[k] <= reports'[k],
           \A k \in Keys : cache'[k] = None => cache[k] = None /\ reports'[k] = reports[k],
           e.task \in Resenders => goal[e.task][e.key] <= e.ver,
           \A r \in Resenders : \A k \in rest[r] : k \in rest'[r] \/ (r = e.task /\ k = e.key)
    PROVE  GoalsWithinReach' /\ ResendRestores'
<1>1. /\ goal \in [Resenders -> [Keys -> Nat]] /\ SenderTypeOK
      /\ reports \in [Keys -> Nat] /\ reports' \in [Keys -> Nat]
  BY DEF Typed, TypeOK, SenderTypeOK
<1>2. /\ Len(line') = Len(line) + 1 /\ Len(line) \in Nat /\ line'[Len(line) + 1] = e
      /\ \A i \in 1..Len(line) : line'[i] = line[i]
  BY <1>1, AppendFacts DEF SenderTypeOK, Entry
<1>3. \A i \in 1..Len(line') : line'[i].task \in Resenders =>
        goal'[line'[i].task][line'[i].key] <= line'[i].ver
  BY <1>2 DEF Owing, GoalsWithinReach
<1>4. ASSUME NEW r \in Resenders, NEW k \in Keys PROVE goal'[r][k] <= reports'[k]
  <2>1. goal[r][k] <= reports[k] /\ reports[k] <= reports'[k] /\ goal[r][k] \in Nat
          /\ reports[k] \in Nat /\ reports'[k] \in Nat
    BY <1>1 DEF Owing, GoalsWithinReach
  <2> QED BY <2>1
<1>5. GoalsWithinReach' BY <1>3, <1>4 DEF Owing, GoalsWithinReach
<1>6. \A r, k : Called(r, k) => Called(r, k)' BY <1>2 DEF Called
<1>7. Called(e.task, e.key)' BY <1>2 DEF Called
<1>8. ResendRestores' BY <1>6, <1>7 DEF Owing, ResendRestores, Called
<1> QED BY <1>5, <1>8

(* A call leaves the line, from its head or from the middle.  If it is a *)
(* resend's, either what it carries is shown or the goal is given up. *)
LEMMA OwingGone ==
    ASSUME Typed, Owing, NEW n \in 1..Len(line),
           \A j \in 1..Len(line') : \E i \in 1..Len(line) : line'[j] = line[i],
           \A i \in 1..Len(line) \ {n} : \E j \in 1..Len(line') : line'[j] = line[i],
           \/ shown' = shown
           \/ line[n] \in Request /\ shown' = [shown EXCEPT ![line[n].key] = line[n].ver],
           target' = target, reports' = reports, cache' = cache,
           \A r \in Resenders :
             \/ goal'[r] = NoGoal
             \/ /\ goal'[r] = goal[r] /\ rest[r] \subseteq rest'[r]
                /\ \/ line[n].task # r
                   \/ line[n] \in Request /\ shown' = [shown EXCEPT ![line[n].key] = line[n].ver]
    PROVE  GoalsWithinReach' /\ ResendRestores'
<1> USE NoGoalFacts
<1>1. /\ goal \in [Resenders -> [Keys -> Nat]] /\ goal' \in [Resenders -> [Keys -> Nat]]
      /\ reports \in [Keys -> Nat] /\ shown \in [Keys -> Nat] /\ shown' \in [Keys -> Nat]
      /\ SenderTypeOK /\ SenderTypeOK'
  BY DEF Typed, TypeOK, SenderTypeOK
<1>2. \A i \in 1..Len(line) : line[i].task \in Resenders => line[i].key \in Keys /\ line[i].ver \in Nat
  BY <1>1, TaskEntry, ValuesAssumption
<1>3. ASSUME NEW j \in 1..Len(line'), line'[j].task \in Resenders
      PROVE  goal'[line'[j].task][line'[j].key] <= line'[j].ver
  <2>1. PICK i \in 1..Len(line) : line'[j] = line[i] OBVIOUS
  <2> DEFINE r == line[i].task
  <2>2. goal[r][line[i].key] <= line[i].ver /\ r \in Resenders
    BY <1>3, <2>1 DEF Owing, GoalsWithinReach
  <2>3. CASE goal'[r] = NoGoal BY <1>2, <2>1, <2>2, <2>3
  <2>4. CASE goal'[r] = goal[r] BY <2>1, <2>2, <2>4
  <2> QED BY <2>2, <2>3, <2>4
<1>4. ASSUME NEW r \in Resenders, NEW k \in Keys PROVE goal'[r][k] <= reports'[k]
  <2>1. goal[r][k] <= reports[k] /\ reports[k] \in Nat BY <1>1 DEF Owing, GoalsWithinReach
  <2>2. CASE goal'[r] = NoGoal BY <2>1, <2>2
  <2>3. CASE goal'[r] = goal[r] BY <2>1, <2>3
  <2> QED BY <2>2, <2>3
<1>5. GoalsWithinReach' BY <1>3, <1>4 DEF Owing, GoalsWithinReach
<1>6. ASSUME NEW k \in Keys PROVE shown[k] <= shown'[k]
  <2>1. CASE shown' = shown BY <1>1, <2>1
  <2>2. CASE line[n] \in Request /\ shown' = [shown EXCEPT ![line[n].key] = line[n].ver]
    BY <1>1, <2>2 DEF Owing, LineInOrder, Request
  <2> QED BY <2>1, <2>2
<1>7. ASSUME NEW r \in Resenders, NEW k \in Keys
      PROVE  k \in rest'[r] \/ Called(r, k)' \/ shown'[k] >= goal'[r][k]
  <2>1. k \in rest[r] \/ Called(r, k) \/ shown[k] >= goal[r][k]
    BY DEF Owing, ResendRestores, Called
  <2>2. CASE goal'[r] = NoGoal BY <1>1, <2>2
  <2>3. CASE goal'[r] # NoGoal
    <3>1. CASE k \in rest[r] BY <2>3, <3>1
    <3>2. CASE shown[k] >= goal[r][k] BY <1>1, <1>6, <2>3, <3>2
    <3>3. CASE Called(r, k)
      <4>1. PICK i \in 1..Len(line) : line[i].task = r /\ line[i].key = k BY <3>3 DEF Called
      <4>2. CASE i # n BY <4>1, <4>2 DEF Called
      <4>3. CASE i = n
        <5>1. shown' = [shown EXCEPT ![k] = line[n].ver] /\ goal'[r][k] = goal[r][k]
          BY <2>3, <4>1, <4>3
        <5>2. goal[r][k] <= line[n].ver BY <4>1, <4>3 DEF Owing, GoalsWithinReach
        <5> QED BY <1>1, <1>2, <4>1, <4>3, <5>1, <5>2
      <4> QED BY <4>2, <4>3
    <3> QED BY <2>1, <3>1, <3>2, <3>3
  <2> QED BY <2>2, <2>3
<1> QED BY <1>5, <1>7 DEF ResendRestores, Called

(* A resend begins: it owes no more than is known, and only for the keys of *)
(* its loop; without an address it owes nothing. *)
LEMMA OwingStarts ==
    ASSUME Typed, Owing, line' = line, shown' = shown, target' = target,
           \A k \in Keys : reports[k] <= reports'[k],
           \A k \in Keys : cache'[k] = None => cache[k] = None /\ reports'[k] = reports[k],
           NEW r \in Resenders, ~Waiting(r),
           \A x \in Resenders \ {r} : rest'[x] = rest[x] /\ goal'[x] = goal[x],
           \A k \in Keys : goal'[r][k] <= reports'[k] /\ (k \in rest'[r] \/ goal'[r][k] = 0),
           ~target => goal'[r] = NoGoal
    PROVE  GoalsWithinReach' /\ ResendRestores'
<1>1. /\ goal \in [Resenders -> [Keys -> Nat]] /\ rest \in [Tasks -> SUBSET Keys]
      /\ reports \in [Keys -> Nat] /\ reports' \in [Keys -> Nat] /\ shown \in [Keys -> Nat]
      /\ goal' \in [Resenders -> [Keys -> Nat]] /\ r \in Tasks
  BY ValuesAssumption DEF Typed, TypeOK, SenderTypeOK
<1>2. \A i \in 1..Len(line) : line[i].task # r BY DEF Waiting
<1>3. \A i \in 1..Len(line) : line[i].task \in Resenders =>
        goal'[line[i].task][line[i].key] <= line[i].ver
  BY <1>1, <1>2 DEF Owing, GoalsWithinReach
<1>4. ASSUME NEW x \in Resenders, NEW k \in Keys PROVE goal'[x][k] <= reports'[k]
  <2>1. goal[x][k] <= reports[k] /\ reports[k] <= reports'[k] /\ goal[x][k] \in Nat
          /\ reports[k] \in Nat /\ reports'[k] \in Nat
    BY <1>1 DEF Owing, GoalsWithinReach
  <2> QED BY <1>1, <2>1
<1>5. ~target => \A x \in Resenders : goal'[x] = NoGoal BY <1>1 DEF Owing, GoalsWithinReach
<1>6. GoalsWithinReach' BY <1>3, <1>4, <1>5 DEF Owing, GoalsWithinReach
<1>7. ASSUME NEW x \in Resenders, NEW k \in Keys
      PROVE  k \in rest'[x] \/ Called(x, k)' \/ shown'[k] >= goal'[x][k]
  <2>1. CASE x = r BY <1>1, <2>1
  <2>2. CASE x # r BY <1>1, <2>2 DEF Owing, ResendRestores, Called
  <2> QED BY <2>1, <2>2
<1> QED BY <1>6, <1>7 DEF ResendRestores, Called

(* A Miniserver that has seen nothing is owed nothing. *)
LEMMA OwingVoid ==
    ASSUME Typed, Owing, line' = line, reports' = reports, cache' = cache,
           goal' = [r \in Resenders |-> NoGoal]
    PROVE  GoalsWithinReach' /\ ResendRestores'
<1>1. /\ reports \in [Keys -> Nat] /\ shown' \in [Keys -> Nat] /\ SenderTypeOK
  BY DEF Typed, TypeOK, SenderTypeOK
<1>2. \A i \in 1..Len(line) : line[i].task \in Resenders => line[i].key \in Keys /\ line[i].ver \in Nat
  BY <1>1, TaskEntry, ValuesAssumption
<1>3. GoalsWithinReach' BY <1>1, <1>2, NoGoalFacts DEF Owing, GoalsWithinReach
<1>4. ResendRestores' BY <1>1, NoGoalFacts DEF ResendRestores
<1> QED BY <1>3, <1>4

LEMMA OwingSendCall ==
    ASSUME Typed, Owing, NEW t \in Tasks, NEW k \in Keys, NEW v \in Values, NEW n \in Nat,
           NEW f, f \in BOOLEAN, SendCall(t, k, v, n, f), goal' = goal,
           \A x \in Keys : reports[x] <= reports'[x],
           \A x \in Keys : cache'[x] = None => cache[x] = None /\ reports'[x] = reports[x],
           t \in Resenders => f /\ goal[t][k] <= n,
           \A r \in Resenders : \A x \in rest[r] : x \in rest'[r] \/ (r = t /\ x = k)
    PROVE  GoalsWithinReach' /\ ResendRestores'
<1>1. PICK e \in Request : /\ e.task = t /\ e.key = k /\ e.ver = n
                           /\ line' = IF Skipped(k, v, f) THEN line ELSE Append(line, e)
  BY SendCallEntry
<1>2. shown' = shown /\ target' = target BY DEF SendCall
<1>3. CASE ~Skipped(k, v, f) BY <1>1, <1>2, <1>3, OwingAppended DEF Entry
<1>4. CASE Skipped(k, v, f)
  <2>1. \A r \in Resenders : goal'[r] = NoGoal \/ (goal'[r] = goal[r] /\ rest[r] \subseteq rest'[r])
    <3>1. CASE t \in Resenders BY <1>4, <3>1 DEF Skipped, Owing, GoalsWithinReach
    <3>2. CASE t \notin Resenders BY <3>2
    <3> QED BY <3>1, <3>2
  <2> QED BY <1>1, <1>2, <1>4, <2>1, OwingRests
<1> QED BY <1>3, <1>4

LEMMA OwingHeadGone ==
    ASSUME Typed, Owing, line # <<>>, line' = Tail(line),
           \/ shown' = shown
           \/ line[1] \in Request /\ shown' = [shown EXCEPT ![line[1].key] = line[1].ver],
           target' = target, reports' = reports, cache' = cache,
           \A r \in Resenders :
             \/ goal'[r] = NoGoal
             \/ /\ goal'[r] = goal[r] /\ rest[r] \subseteq rest'[r]
                /\ \/ line[1].task # r
                   \/ line[1] \in Request /\ shown' = [shown EXCEPT ![line[1].key] = line[1].ver]
    PROVE  GoalsWithinReach' /\ ResendRestores'
<1>1. line \in Seq(Entry) BY DEF Typed, TypeOK, SenderTypeOK, Entry
<1>2. /\ Len(line') = Len(line) - 1 /\ Len(line) \in Nat \ {0}
      /\ \A i \in 1..Len(line') : i + 1 \in 1..Len(line) /\ line'[i] = line[i + 1]
  BY <1>1, TailFacts
<1>3. ASSUME NEW i \in 1..Len(line) \ {1} PROVE \E j \in 1..Len(line') : line'[j] = line[i]
  <2>1. i - 1 \in 1..Len(line') /\ (i - 1) + 1 = i BY <1>2
  <2> QED BY <1>2, <2>1
<1>4. \A j \in 1..Len(line') : \E i \in 1..Len(line) : line'[j] = line[i] BY <1>2
<1>5. 1 \in 1..Len(line) BY <1>2
<1> QED BY <1>3, <1>4, <1>5, OwingGone

LEMMA OwingOneGone ==
    ASSUME Typed, Owing, NEW r \in Resenders, LeaveLine(r), reports' = reports, cache' = cache,
           goal' = [goal EXCEPT ![r] = NoGoal], \A x \in Resenders \ {r} : rest'[x] = rest[x]
    PROVE  GoalsWithinReach' /\ ResendRestores'
<1>1. PICK n \in 1..Len(line) : line[n].task = r /\ line' = RemoveAt(line, n) BY DEF LeaveLine
<1>2. /\ Len(line') = Len(line) - 1 /\ Len(line) \in Nat
      /\ \A j \in 1..(Len(line) - 1) : line'[j] = IF j < n THEN line[j] ELSE line[j + 1]
  <2>1. line \in Seq(Entry) BY DEF Typed, TypeOK, SenderTypeOK, Entry
  <2> QED BY <1>1, <2>1, RemoveAtFacts
<1>3. ASSUME NEW i \in 1..Len(line) \ {n} PROVE \E j \in 1..Len(line') : line'[j] = line[i]
  <2>1. CASE i < n BY <1>2, <2>1
  <2>2. CASE i > n
    <3>1. i - 1 \in 1..Len(line') /\ (i - 1) + 1 = i /\ ~(i - 1 < n) BY <1>2, <2>2
    <3> QED BY <1>2, <3>1
  <2> QED BY <2>1, <2>2
<1>4. \A j \in 1..Len(line') : \E i \in 1..Len(line) : line'[j] = line[i] BY <1>2
<1>5. shown' = shown /\ target' = target BY DEF LeaveLine
<1>6. goal \in [Resenders -> [Keys -> Nat]] BY DEF Typed, TypeOK
<1>7. \A x \in Resenders : goal'[x] = NoGoal \/ (goal'[x] = goal[x] /\ rest[x] \subseteq rest'[x] /\ line[n].task # x)
  BY <1>1, <1>6
<1> QED BY <1>3, <1>4, <1>5, <1>7, OwingGone

LEMMA ReportsStay ==
    ASSUME Typed, reports' = reports, cache' = cache
    PROVE  /\ \A k \in Keys : reports[k] <= reports'[k]
           /\ \A k \in Keys : cache'[k] = None => cache[k] = None /\ reports'[k] = reports[k]
  BY DEF Typed, TypeOK

(* A snapshot or a report gives every key it caches a value. *)
LEMMA ReportsCached ==
    ASSUME Typed, NEW snap, DOMAIN snap \subseteq Keys,
           \A k \in DOMAIN snap : snap[k] \in Values, CacheAll(snap)
    PROVE  /\ \A k \in Keys : reports[k] <= reports'[k]
           /\ \A k \in Keys : cache'[k] = None => cache[k] = None /\ reports'[k] = reports[k]
           /\ \A k \in Keys : cache[k] = None /\ k \notin DOMAIN snap => reports'[k] = reports[k]
  BY SenderAssumption DEF Typed, TypeOK, CacheAll

LEMMA OwingStep ==
    ASSUME Typed, Owing, [Next]_vars
    PROVE  GoalsWithinReach' /\ ResendRestores'
<1> USE ValuesAssumption
<1>0. /\ TypeOK /\ TypeOK' /\ SenderTypeOK /\ goal \in [Resenders -> [Keys -> Nat]]
      /\ reports \in [Keys -> Nat] /\ rest \in [Tasks -> SUBSET Keys]
  BY DEF Typed, TypeOK
<1>1. ASSUME NEW s \in Sources, NEW k \in Keys, NEW v \in Values, OnAttribute(s, k, v)
      PROVE  GoalsWithinReach' /\ ResendRestores'
  <2> DEFINE snap == [x \in {k} |-> v]
  <2>1. DOMAIN snap \subseteq Keys /\ (\A x \in DOMAIN snap : snap[x] \in Values) /\ CacheAll(snap)
    BY <1>1 DEF OnAttribute
  <2> HIDE DEF snap
  <2>2. /\ \A x \in Keys : reports[x] <= reports'[x]
        /\ \A x \in Keys : cache'[x] = None => cache[x] = None /\ reports'[x] = reports[x]
    BY <2>1, ReportsCached
  <2>3. goal' = goal /\ rest' = rest /\ s \in Tasks /\ s \notin Resenders BY <1>1 DEF OnAttribute
  <2>4. CASE closed BY <1>1, <2>2, <2>3, <2>4, OwingRests DEF OnAttribute, senderVars
  <2>5. CASE ~closed
    <3>1. SendCall(s, k, v, reports[k] + 1, FALSE) BY <1>1, <2>5 DEF OnAttribute
    <3>2. reports[k] + 1 \in Nat BY <1>0
    <3> QED BY <2>2, <2>3, <3>1, <3>2, OwingSendCall
  <2> QED BY <2>4, <2>5
<1>2. ASSUME NEW s \in Sources, NEW snap \in Snapshots(s), OnNodeSnapshot(s, snap)
      PROVE  GoalsWithinReach' /\ ResendRestores'
  <2>1. /\ \A x \in Keys : reports[x] <= reports'[x]
        /\ \A x \in Keys : cache'[x] = None => cache[x] = None /\ reports'[x] = reports[x]
    BY <1>2, SnapshotTyped, ReportsCached DEF OnNodeSnapshot
  <2>2. goal' = goal /\ \A r \in Resenders : rest'[r] = rest[r] BY <1>0, <1>2 DEF OnNodeSnapshot
  <2> QED BY <1>2, <2>1, <2>2, OwingRests DEF OnNodeSnapshot, senderVars
<1>3. ASSUME NEW s \in Sources, NEW r \in Resenders, NEW snap \in Snapshots(s),
             Attach(r, s, snap)
      PROVE  GoalsWithinReach' /\ ResendRestores'
  <2>1. /\ \A x \in Keys : reports[x] <= reports'[x]
        /\ \A x \in Keys : cache'[x] = None => cache[x] = None /\ reports'[x] = reports[x]
        /\ \A x \in Keys : cache[x] = None /\ x \notin DOMAIN snap => reports'[x] = reports[x]
    BY <1>3, SnapshotTyped, ReportsCached DEF Attach
  <2> DEFINE g == IF target THEN reports' ELSE NoGoal
             K == Cached \cup DOMAIN snap
  <2>2. /\ rest' = [rest EXCEPT ![r] = K] /\ goal' = [goal EXCEPT ![r] = g]
        /\ line' = line /\ shown' = shown /\ target' = target /\ ~Waiting(r)
    BY <1>3 DEF Attach, senderVars, Idle
  <2>3. reports' \in [Keys -> Nat] BY <1>0 DEF TypeOK
  <2>4. g \in [Keys -> Nat] /\ (~target => g = NoGoal) BY <2>3, NoGoalFacts
  <2>5. \A k \in Keys : g[k] <= reports'[k] /\ (k \in K \/ g[k] = 0)
    BY <2>1, <2>3, NoGoalFacts DEF Cached, Owing, GoalsWithinReach
  <2> HIDE DEF g, K
  <2>6. /\ rest'[r] = K /\ goal'[r] = g
        /\ \A x \in Resenders \ {r} : rest'[x] = rest[x] /\ goal'[x] = goal[x]
    BY <1>0, <2>2
  <2> QED BY <2>1, <2>2, <2>4, <2>5, <2>6, OwingStarts
<1>4. ASSUME NEW r \in Resenders, ResendAll(r) PROVE GoalsWithinReach' /\ ResendRestores'
  <2> DEFINE g == IF target THEN reports ELSE NoGoal
             K == Cached
  <2>1. /\ rest' = [rest EXCEPT ![r] = K] /\ goal' = [goal EXCEPT ![r] = g]
        /\ line' = line /\ shown' = shown /\ target' = target /\ ~Waiting(r)
        /\ reports' = reports /\ cache' = cache
    BY <1>4 DEF ResendAll, senderVars
  <2>2. g \in [Keys -> Nat] /\ (~target => g = NoGoal) BY <1>0, NoGoalFacts
  <2>3. \A k \in Keys : g[k] <= reports'[k] /\ (k \in K \/ g[k] = 0)
    BY <1>0, <2>1, NoGoalFacts DEF Cached, Owing, GoalsWithinReach
  <2> HIDE DEF g, K
  <2>4. /\ rest'[r] = K /\ goal'[r] = g
        /\ \A x \in Resenders \ {r} : rest'[x] = rest[x] /\ goal'[x] = goal[x]
    BY <1>0, <2>1
  <2> QED BY <2>1, <2>2, <2>3, <2>4, ReportsStay, OwingStarts
<1>5. ASSUME NEW r \in Resenders, ResendMarked(r) PROVE GoalsWithinReach' /\ ResendRestores'
  <2> DEFINE g == [k \in Keys |-> IF target /\ k \in Marked THEN reports[k] ELSE 0]
             K == Marked
  <2>1. /\ rest' = [rest EXCEPT ![r] = K] /\ goal' = [goal EXCEPT ![r] = g]
        /\ line' = line /\ shown' = shown /\ target' = target /\ ~Waiting(r)
        /\ reports' = reports /\ cache' = cache
    BY <1>5 DEF ResendMarked, senderVars, Idle
  <2>2. g \in [Keys -> Nat] /\ (~target => g = NoGoal) BY <1>0 DEF NoGoal
  <2>3. \A k \in Keys : g[k] <= reports'[k] /\ (k \in K \/ g[k] = 0) BY <1>0, <2>1
  <2> HIDE DEF g, K
  <2>4. /\ rest'[r] = K /\ goal'[r] = g
        /\ \A x \in Resenders \ {r} : rest'[x] = rest[x] /\ goal'[x] = goal[x]
    BY <1>0, <2>1
  <2> QED BY <2>1, <2>2, <2>3, <2>4, ReportsStay, OwingStarts
<1>6. ASSUME NEW r \in Resenders, Cancel(r) PROVE GoalsWithinReach' /\ ResendRestores'
  <2>1. /\ reports' = reports /\ cache' = cache /\ goal' = [goal EXCEPT ![r] = NoGoal]
        /\ \A x \in Resenders \ {r} : rest'[x] = rest[x]
    BY <1>0, <1>6 DEF Cancel
  <2>2. CASE Waiting(r) BY <1>6, <2>1, <2>2, OwingOneGone DEF Cancel
  <2>3. CASE ~Waiting(r)
    <3>1. line' = line /\ shown' = shown /\ target' = target BY <1>6, <2>3 DEF Cancel, senderVars
    <3>2. \A x \in Resenders : goal'[x] = NoGoal \/ (goal'[x] = goal[x] /\ rest[x] \subseteq rest'[x])
      BY <1>0, <2>1
    <3> QED BY <2>1, <3>1, <3>2, ReportsStay, OwingRests
  <2> QED BY <2>2, <2>3
<1>7. ASSUME NEW t \in Tasks, NextKey(t) PROVE GoalsWithinReach' /\ ResendRestores'
  <2>1. PICK k \in rest[t] :
          /\ rest' = [rest EXCEPT ![t] = @ \ {k}]
          /\ IF cache[k] = None THEN UNCHANGED senderVars
             ELSE SendCall(t, k, cache[k], reports[k], t \in Resenders)
    BY <1>7 DEF NextKey
  <2>2. /\ k \in Keys /\ cache[k] \in Values \cup {None} /\ reports[k] \in Nat
        /\ reports' = reports /\ cache' = cache /\ goal' = goal
    BY <1>0, <1>7 DEF TypeOK, NextKey
  <2>3. \A r \in Resenders : \A x \in rest[r] : x \in rest'[r] \/ (r = t /\ x = k) BY <1>0, <2>1
  <2>4. CASE cache[k] = None
    <3>1. line' = line /\ shown' = shown /\ target' = target BY <2>1, <2>4 DEF senderVars
    <3>2. GoalsWithinReach' BY <2>2, <3>1 DEF Owing, GoalsWithinReach
    <3>3. \A r \in Resenders : goal[r][k] = 0 /\ shown[k] >= 0
      BY <1>0, <2>2, <2>4 DEF Owing, GoalsWithinReach, SenderTypeOK
    <3>4. ResendRestores' BY <2>2, <2>3, <3>1, <3>3 DEF Owing, ResendRestores
    <3> QED BY <3>2, <3>4
  <2>5. CASE cache[k] # None
    <3> DEFINE f == t \in Resenders
    <3>1. cache[k] \in Values /\ f \in BOOLEAN /\ SendCall(t, k, cache[k], reports[k], f)
      BY <2>1, <2>2, <2>5
    <3>2. t \in Resenders => f /\ goal[t][k] <= reports[k] BY <2>2 DEF Owing, GoalsWithinReach
    <3> HIDE DEF f
    <3> QED BY <2>2, <2>3, <3>1, <3>2, ReportsStay, OwingSendCall
  <2> QED BY <2>4, <2>5
<1>8. ASSUME NEW t \in Tasks, NextKeyRaises(t) PROVE GoalsWithinReach' /\ ResendRestores'
  <2>1. \A x \in Resenders : goal'[x] = NoGoal \/ (goal'[x] = goal[x] /\ rest[x] \subseteq rest'[x])
    BY <1>0, <1>8 DEF NextKeyRaises
  <2> QED BY <1>8, <2>1, ReportsStay, OwingRests DEF NextKeyRaises, senderVars
<1>9. ASSUME NEW t \in Tasks, Sent(t) PROVE GoalsWithinReach' /\ ResendRestores'
  <2>1. /\ line # <<>> /\ line' = Tail(line) /\ line[1] \in Request /\ line[1] = Head(line)
        /\ reports' = reports /\ cache' = cache /\ goal' = goal /\ rest' = rest /\ target' = target
    BY <1>0, <1>9, SendToType DEF Sent, SendTo, runtimeVars
  <2>2. CASE target
    <3>1. shown' = [shown EXCEPT ![line[1].key] = line[1].ver]
      BY <1>9, <2>1, <2>2 DEF Sent, SendTo
    <3> QED BY <2>1, <3>1, OwingHeadGone
  <2>3. CASE ~target
    <3>1. shown' = shown /\ \A r \in Resenders : goal'[r] = NoGoal
      BY <1>9, <2>1, <2>3 DEF Sent, SendTo, Owing, GoalsWithinReach
    <3> QED BY <2>1, <3>1, OwingHeadGone
  <2> QED BY <2>2, <2>3
<1>10. ASSUME NEW t \in Tasks, SendFails(t) PROVE GoalsWithinReach' /\ ResendRestores'
  <2>1. /\ line # <<>> /\ line' = Tail(line) /\ Head(line).task = t /\ shown' = shown
        /\ target' = target /\ reports' = reports /\ cache' = cache
    BY <1>10 DEF SendFails, SendRaises
  <2>2. line[1] = Head(line) BY <1>0, <2>1, HeadLeavesType
  <2>3. \A x \in Resenders : \/ goal'[x] = NoGoal
                             \/ goal'[x] = goal[x] /\ rest[x] \subseteq rest'[x] /\ line[1].task # x
    BY <1>0, <1>10, <2>1, <2>2 DEF SendFails
  <2> QED BY <2>1, <2>3, OwingHeadGone
<1>11. ASSUME FinishClose PROVE GoalsWithinReach' /\ ResendRestores'
  <2>1. /\ line # <<>> /\ line' = Tail(line) /\ Head(line).task = Closer /\ shown' = shown
        /\ target' = target /\ reports' = reports /\ cache' = cache /\ goal' = goal /\ rest' = rest
    BY <1>11 DEF FinishClose, CloseSocket, runtimeVars
  <2>2. line[1] = Head(line) BY <1>0, <2>1, HeadLeavesType
  <2>3. \A x \in Resenders : line[1].task # x BY <2>1, <2>2, SenderAssumption
  <2> QED BY <2>1, <2>3, OwingHeadGone
<1>12. ASSUME BeginClose PROVE GoalsWithinReach' /\ ResendRestores'
  <2>1. CloseRequest \in Entry /\ CloseRequest.task \notin Resenders
    BY SenderAssumption DEF Entry, CloseRequest
  <2> QED BY <1>12, <2>1, ReportsStay, OwingAppended DEF BeginClose, CloseCall, runtimeVars
<1>13. ASSUME NEW isSet \in BOOLEAN, NEW r \in Resenders, SaveSettings(isSet, r)
       PROVE  GoalsWithinReach' /\ ResendRestores'
  BY <1>13, OwingVoid DEF SaveSettings, SetTarget
<1>14. ASSUME MiniserverRestarts PROVE GoalsWithinReach' /\ ResendRestores'
  BY <1>14, OwingVoid DEF MiniserverRestarts
<1>15. CASE UNCHANGED <<senderVars, cache, reports, rest, goal>>
  BY <1>15, ReportsStay, OwingRests DEF senderVars
<1> QED
  BY <1>1, <1>2, <1>3, <1>4, <1>5, <1>6, <1>7, <1>8, <1>9, <1>10, <1>11, <1>12, <1>13, <1>14, <1>15
     DEF Next, vars, runtimeVars, BeginStop

(* For every instance: whatever a resend has dealt with, the Miniserver is *)
(* shown at least as recently as the bridge knew it when the resend began - *)
(* by its own datagram or by a newer one that overtook it - or the resend *)
(* was cut off by an error, a cancellation, a new address or a restart. *)
THEOREM ResendsRestore == Spec => []ResendRestores
<1>1. Init => GoalsWithinReach /\ ResendRestores
  <2> SUFFICES ASSUME Init PROVE GoalsWithinReach /\ ResendRestores OBVIOUS
  <2>1. line = <<>> /\ goal = [r \in Resenders |-> NoGoal] /\ reports = [k \in Keys |-> 0]
          /\ shown = [k \in Keys |-> 0]
    BY DEF Init, SenderInit
  <2> QED BY <2>1, NoGoalFacts DEF GoalsWithinReach, ResendRestores
<1>2. /\ TypeOK /\ TypeOK' /\ LineInOrder /\ GoalsWithinReach /\ ResendRestores /\ [Next]_vars
      => GoalsWithinReach' /\ ResendRestores'
  BY OwingStep DEF Typed, Owing
<1> QED BY <1>1, <1>2, TypeCorrect, LineAlwaysInOrder, PTL DEF Spec

(* For every instance: once the socket is closed it stays closed, and no *)
(* call that still waits in the line sends anything. *)
THEOREM ClosedIsSilent == Spec => SilentOnceClosed
<1>1. [Next]_vars => (closed => lastSent' = lastSent /\ closed')
  BY DEF Next, vars, senderVars, runtimeVars, OnAttribute, OnNodeSnapshot, Attach, ResendAll,
     ResendMarked, Cancel, LeaveLine, NextKey, NextKeyRaises, Sent, SendTo, SendFails, SendRaises,
     SendCall, SaveSettings, SetTarget, MiniserverRestarts, BeginStop, BeginClose, CloseCall,
     FinishClose, CloseSocket
<1> QED BY <1>1, PTL DEF Spec, SilentOnceClosed
========================================
