---------------------------- MODULE SenderProofs ----------------------------
(***************************************************************************)
(* Facts about the sender's line that the proofs of both paths through it  *)
(* need: what joining its end, taking its head and leaving it from the     *)
(* middle do to a sequence, and that the sender's operations keep its      *)
(* types.                                                                  *)
(***************************************************************************)
EXTENDS UdpSender, SequenceTheorems, TLAPS

(* What the three ways to change the sender's line do to a sequence. *)
LEMMA TailFacts ==
    ASSUME NEW S, NEW s \in Seq(S), s # <<>>
    PROVE  /\ Tail(s) \in Seq(S) /\ Len(Tail(s)) = Len(s) - 1 /\ Len(s) \in Nat \ {0}
           /\ Head(s) = s[1] /\ s[1] \in S
           /\ \A i \in 1..Len(Tail(s)) : i + 1 \in 1..Len(s) /\ Tail(s)[i] = s[i + 1]
  OBVIOUS

LEMMA AppendFacts ==
    ASSUME NEW S, NEW s \in Seq(S), NEW e \in S
    PROVE  /\ Append(s, e) \in Seq(S) /\ Len(Append(s, e)) = Len(s) + 1 /\ Len(s) \in Nat
           /\ Append(s, e)[Len(s) + 1] = e
           /\ \A i \in 1..Len(s) : Append(s, e)[i] = s[i]
  OBVIOUS

LEMMA RemoveAtFacts ==
    ASSUME NEW S, NEW s \in Seq(S), NEW i \in 1..Len(s)
    PROVE  /\ RemoveAt(s, i) \in Seq(S) /\ Len(RemoveAt(s, i)) = Len(s) - 1 /\ Len(s) \in Nat
           /\ \A j \in 1..(Len(s) - 1) :
                RemoveAt(s, i)[j] = IF j < i THEN s[j] ELSE s[j + 1]
<1> DEFINE a == SubSeq(s, 1, i - 1)
           b == SubSeq(s, i + 1, Len(s))
<1>0. Len(s) \in Nat /\ i \in Nat /\ 1 <= i /\ i <= Len(s) OBVIOUS
<1>1. a \in Seq(S) /\ Len(a) = i - 1 /\ \A j \in 1..(i - 1) : a[j] = s[j] BY <1>0
<1>2. b \in Seq(S) /\ Len(b) = Len(s) - i
        /\ \A j \in 1..(Len(s) - i) : b[j] = s[i + j]
  BY <1>0
<1>3. RemoveAt(s, i) = a \o b BY DEF RemoveAt
<1> HIDE DEF a, b
<1>4. a \o b \in Seq(S) /\ Len(a \o b) = Len(s) - 1
  <2>1. a \o b \in Seq(S) /\ Len(a \o b) = Len(a) + Len(b) BY <1>1, <1>2, ConcatProperties
  <2>2. Len(a) + Len(b) = Len(s) - 1 BY <1>0, <1>1, <1>2
  <2> QED BY <2>1, <2>2
<1>5. ASSUME NEW j \in 1..(Len(s) - 1) PROVE (a \o b)[j] = IF j < i THEN s[j] ELSE s[j + 1]
  <2>1. CASE j < i BY <1>0, <1>1, <1>2, <2>1, ConcatProperties
  <2>2. CASE ~(j < i)
    <3>1. (a \o b)[j] = b[j - Len(a)] /\ j - Len(a) \in 1..(Len(s) - i)
      BY <1>0, <1>1, <1>2, <2>2, ConcatProperties
    <3>2. i + (j - (i - 1)) = j + 1 BY <1>0
    <3> QED BY <1>0, <1>1, <1>2, <2>2, <3>1, <3>2
  <2> QED BY <2>1, <2>2
<1> QED BY <1>0, <1>3, <1>4, <1>5

----------------------------------------
Entry == Request \cup {CloseRequest}

(* A call of the line that belongs to one of the runtime's tasks is a send. *)
LEMMA TaskEntry ==
    ASSUME SenderTypeOK, NEW i \in 1..Len(line), line[i].task \in Tasks
    PROVE  /\ line[i] \in Request /\ line[i].key \in Keys
           /\ line[i].val \in Values /\ line[i].ver \in Nat
<1>1. line[i] \in Entry BY DEF SenderTypeOK, Entry
<1>2. line[i] # CloseRequest BY SenderAssumption DEF CloseRequest
<1> QED BY <1>1, <1>2 DEF Entry, Request

(* What send() does to the line when it is called. *)
LEMMA SendCallEntry ==
    ASSUME NEW t \in Tasks, NEW k \in Keys, NEW v \in Values, NEW n \in Nat,
           NEW f, f \in BOOLEAN, SendCall(t, k, v, n, f)
    PROVE  \E e \in Request :
             /\ e.task = t /\ e.key = k /\ e.val = v /\ e.ver = n /\ e.force = f
             /\ line' = IF Skipped(k, v, f) THEN line ELSE Append(line, e)
<1> DEFINE e == [task |-> t, key |-> k, val |-> v, ver |-> n, force |-> f]
<1>1. e \in Request BY DEF Request
<1>2. line' = IF Skipped(k, v, f) THEN line ELSE Append(line, e) BY DEF SendCall
<1> QED BY <1>1, <1>2

LEMMA SendCallType ==
    ASSUME SenderTypeOK, NEW t \in Tasks, NEW k \in Keys, NEW v \in Values,
           NEW n \in Nat, NEW f, f \in BOOLEAN, SendCall(t, k, v, n, f)
    PROVE  SenderTypeOK'
<1>1. PICK e \in Request : line' = IF Skipped(k, v, f) THEN line ELSE Append(line, e)
  BY SendCallEntry
<1>2. line \in Seq(Entry) BY DEF SenderTypeOK, Entry
<1>3. Append(line, e) \in Seq(Entry) BY <1>1, <1>2, AppendFacts DEF Entry
<1>4. line' \in Seq(Entry) BY <1>1, <1>2, <1>3
<1> QED BY <1>4 DEF SenderTypeOK, SendCall, Entry

LEMMA HeadLeavesType ==
    ASSUME SenderTypeOK, line # <<>>, line' = Tail(line)
    PROVE  line' \in Seq(Entry) /\ Head(line) = line[1] /\ 1 \in 1..Len(line)
<1>1. line \in Seq(Entry) BY DEF SenderTypeOK, Entry
<1> QED BY <1>1, TailFacts

LEMMA SendToType ==
    ASSUME SenderTypeOK, NEW t \in Tasks, SendTo(t)
    PROVE  SenderTypeOK' /\ line[1] \in Request /\ line[1] = Head(line)
<1>1. line' \in Seq(Entry) /\ Head(line) = line[1] /\ 1 \in 1..Len(line)
  BY HeadLeavesType DEF SendTo
<1>2. line[1] \in Request /\ line[1].key \in Keys /\ line[1].val \in Values /\ line[1].ver \in Nat
  BY <1>1, TaskEntry DEF SendTo
<1>3. lastSent' \in [Keys -> Values \cup {None}] /\ wire' \in [Keys -> Values \cup {None}]
        /\ shown' \in [Keys -> Nat]
  <2>1. CASE ~target BY <2>1 DEF SenderTypeOK, SendTo
  <2>2. CASE target
    <3>1. /\ lastSent' = [lastSent EXCEPT ![line[1].key] = line[1].val]
          /\ wire' = [wire EXCEPT ![line[1].key] = line[1].val]
          /\ shown' = [shown EXCEPT ![line[1].key] = line[1].ver]
      BY <1>1, <2>2 DEF SendTo
    <3> QED BY <1>2, <3>1 DEF SenderTypeOK
  <2> QED BY <2>1, <2>2
<1> QED BY <1>1, <1>2, <1>3 DEF SenderTypeOK, SendTo, Entry

LEMMA SendRaisesType ==
    ASSUME SenderTypeOK, NEW t, SendRaises(t)
    PROVE  SenderTypeOK'
  BY HeadLeavesType DEF SenderTypeOK, SendRaises, Entry

LEMMA CloseSocketType ==
    ASSUME SenderTypeOK, CloseSocket
    PROVE  SenderTypeOK'
  BY HeadLeavesType DEF SenderTypeOK, CloseSocket, Entry

LEMMA CloseCallType ==
    ASSUME SenderTypeOK, CloseCall
    PROVE  SenderTypeOK'
<1>1. line \in Seq(Entry) /\ CloseRequest \in Entry BY DEF SenderTypeOK, Entry
<1>2. Append(line, CloseRequest) \in Seq(Entry) BY <1>1, AppendFacts
<1> QED BY <1>2 DEF SenderTypeOK, CloseCall, Entry

LEMMA LeaveLineType ==
    ASSUME SenderTypeOK, NEW t, LeaveLine(t)
    PROVE  SenderTypeOK'
<1>1. PICK i \in 1..Len(line) : line' = RemoveAt(line, i) BY DEF LeaveLine
<1>2. line \in Seq(Entry) BY DEF SenderTypeOK, Entry
<1>3. line' \in Seq(Entry) BY <1>1, <1>2, RemoveAtFacts
<1> QED BY <1>3 DEF SenderTypeOK, LeaveLine, Entry
========================================
