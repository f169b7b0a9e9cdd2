------------------------- MODULE RuntimeEventsProofs -------------------------
(***************************************************************************)
(* Proofs about events and the heartbeat, for any event keys, sources,     *)
(* requests and bounds: the types, that what stop() lowers is what is      *)
(* high, and that two heartbeat datagrams in a row differ.                 *)
(***************************************************************************)
EXTENDS RuntimeEvents, FiniteSetTheorems, SenderProofs

----------------------------------------
(* The parts of the inductive invariant. *)

(* A datagram carries the phase of the heartbeat. *)
BeatValue(on) == IF on THEN 1 ELSE 0

(* The sender of this module has its address for good, and what it remembers *)
(* having sent is what the Miniserver was shown. *)
Remembered == target /\ wire = lastSent

Bounded ==
    /\ counters \in [Events -> 0..MaxEvents] /\ cached \in [Events -> 0..MaxEvents]

(* Whose call a call of the line is. *)
CallsAreKnown ==
    \A i \in 1..Len(line) :
        /\ line[i].key \in Events /\ line[i].val = 1 =>
              line[i].task \in Sources /\ handler[line[i].task] = [pc |-> "rising", event |-> line[i].key]
        /\ line[i].task \in Pulses => line[i].key = line[i].task[1] /\ line[i].val = 0
        /\ line[i].key = HeartbeatKey => line[i].task = Heartbeater
        /\ line[i].task = Heartbeater =>
              beating = "sending" /\ line[i].key = HeartbeatKey /\ line[i].val = BeatValue(beatOn)
        /\ line[i].task \in Sources => handler[line[i].task].pc \in {"rising", "counting"}

(* A dispatcher and the heartbeat wait for their call to return. *)
OneCallEach ==
    \A i, j \in 1..Len(line) :
        line[i].task = line[j].task /\ line[i].task \in Sources \cup {Heartbeater} => i = j

(* The next beat differs from what the Miniserver was shown. *)
BeatIsNew ==
    ~closed /\ failures = 0 =>
        /\ beating = "asleep" => wire[HeartbeatKey] # BeatValue(~beatOn)
        /\ beating = "sending" => wire[HeartbeatKey] # BeatValue(beatOn)

EventsInv ==
    /\ TypeOK /\ HighIsTracked /\ Remembered /\ Bounded /\ CallsAreKnown
    /\ OneCallEach /\ BeatIsNew

LEMMA TasksAreDistinct ==
    /\ Sources \subseteq Tasks /\ Resenders \subseteq Tasks /\ Pulses \subseteq Tasks
    /\ Heartbeater \in Tasks /\ Stopper \in Tasks /\ Closer \notin Tasks
    /\ \A t \in Resenders \cup Pulses \cup {Heartbeater, Stopper, Closer} : t \notin Sources
    /\ \A t \in Resenders \cup Sources \cup {Heartbeater, Stopper, Closer} : t \notin Pulses
    /\ \A t \in Resenders \cup Sources \cup Pulses \cup {Stopper, Closer} : t # Heartbeater
  BY EventsAssumption, SenderAssumption

LEMMA KeysAreDistinct ==
    /\ Events \subseteq Keys /\ HeartbeatKey \in Keys /\ HeartbeatKey \notin Events
    /\ \A e \in Events : CounterOf[e] \in Keys /\ CounterOf[e] \notin Events
                         /\ CounterOf[e] # HeartbeatKey
    /\ None \notin Keys
  BY EventsAssumption, SenderAssumption

LEMMA ValuesAreCounts ==
    /\ Values = 0..MaxEvents /\ 0 \in Values /\ 1 \in Values /\ None \notin Values
    /\ MaxEvents \in Nat \ {0} /\ Values \subseteq Nat
  BY EventsAssumption, SenderAssumption

LEMMA InitEvents == Init => EventsInv
<1> SUFFICES ASSUME Init PROVE EventsInv OBVIOUS
<1> USE DEF Init, SenderInit
<1>1. SenderTypeOK
  <2>1. line \in Seq(Request \cup {CloseRequest}) OBVIOUS
  <2> QED BY <2>1 DEF SenderTypeOK
<1>2. TypeOK BY <1>1 DEF TypeOK, NoHandler
<1>3. CallsAreKnown /\ OneCallEach BY DEF CallsAreKnown, OneCallEach
<1>4. HighIsTracked /\ BeatIsNew
  BY KeysAreDistinct, ValuesAreCounts DEF HighIsTracked, BeatIsNew, BeatValue
<1>5. Remembered /\ Bounded BY ValuesAreCounts DEF Remembered, Bounded
<1> QED BY <1>2, <1>3, <1>4, <1>5 DEF EventsInv

----------------------------------------
(* The calls in the line. *)

(* A call joins the end of the line; its task, if it is a dispatcher or the *)
(* heartbeat, had none there. *)
LEMMA CallAppended ==
    ASSUME EventsInv, NEW e \in Entry, line' = Append(line, e),
           e.task \in Sources \cup {Heartbeater} => \A i \in 1..Len(line) : line[i].task # e.task,
           \A s \in Sources : s # e.task => handler'[s] = handler[s],
           e.task # Heartbeater => UNCHANGED <<beating, beatOn>>,
           e.key \in Events /\ e.val = 1 =>
              e.task \in Sources /\ handler'[e.task] = [pc |-> "rising", event |-> e.key],
           e.task \in Pulses => e.key = e.task[1] /\ e.val = 0,
           e.key = HeartbeatKey => e.task = Heartbeater,
           e.task = Heartbeater =>
              beating' = "sending" /\ e.key = HeartbeatKey /\ e.val = BeatValue(beatOn'),
           e.task \in Sources => handler'[e.task].pc \in {"rising", "counting"}
    PROVE  CallsAreKnown' /\ OneCallEach'
<1>1. /\ Len(line') = Len(line) + 1 /\ Len(line) \in Nat /\ line'[Len(line) + 1] = e
      /\ \A i \in 1..Len(line) : line'[i] = line[i]
  BY AppendFacts DEF EventsInv, TypeOK, SenderTypeOK, Entry
<1>2. \A i \in 1..Len(line') :
        \/ i \in 1..Len(line) /\ line'[i] = line[i]
        \/ i = Len(line) + 1 /\ line'[i] = e
  BY <1>1
<1>3. \A i \in 1..Len(line) :
        /\ line[i].task \in Sources => handler'[line[i].task] = handler[line[i].task]
        /\ line[i].task = Heartbeater => UNCHANGED <<beating, beatOn>>
  OBVIOUS
<1>4. CallsAreKnown'
  <2> SUFFICES ASSUME NEW i \in 1..Len(line')
               PROVE
      /\ line'[i].key \in Events /\ line'[i].val = 1 =>
            line'[i].task \in Sources /\ handler'[line'[i].task] = [pc |-> "rising", event |-> line'[i].key]
      /\ line'[i].task \in Pulses => line'[i].key = line'[i].task[1] /\ line'[i].val = 0
      /\ line'[i].key = HeartbeatKey => line'[i].task = Heartbeater
      /\ line'[i].task = Heartbeater =>
            beating' = "sending" /\ line'[i].key = HeartbeatKey /\ line'[i].val = BeatValue(beatOn')
      /\ line'[i].task \in Sources => handler'[line'[i].task].pc \in {"rising", "counting"}
    BY DEF CallsAreKnown, BeatValue
  <2>1. CASE i \in 1..Len(line) /\ line'[i] = line[i] BY <1>3, <2>1 DEF EventsInv, CallsAreKnown
  <2>2. CASE line'[i] = e BY <2>2
  <2> QED BY <1>2, <2>1, <2>2
<1>5. OneCallEach' BY <1>2 DEF EventsInv, OneCallEach
<1> QED BY <1>4, <1>5

(* The same for a call of send(), which may come back at once. *)
LEMMA CallMade ==
    ASSUME EventsInv, NEW t \in Tasks, NEW k \in Keys, NEW v \in Values, NEW n \in Nat,
           NEW f \in BOOLEAN, SendCall(t, k, v, n, f),
           t \in Sources \cup {Heartbeater} => \A i \in 1..Len(line) : line[i].task # t,
           \A s \in Sources : s # t => handler'[s] = handler[s],
           t # Heartbeater => UNCHANGED <<beating, beatOn>>,
           ~Skipped(k, v, f) =>
              /\ k \in Events /\ v = 1 => t \in Sources /\ handler'[t] = [pc |-> "rising", event |-> k]
              /\ t \in Pulses => k = t[1] /\ v = 0
              /\ k = HeartbeatKey => t = Heartbeater
              /\ t = Heartbeater => beating' = "sending" /\ k = HeartbeatKey /\ v = BeatValue(beatOn')
              /\ t \in Sources => handler'[t].pc \in {"rising", "counting"}
    PROVE  SenderTypeOK' /\ CallsAreKnown' /\ OneCallEach'
<1>1. SenderTypeOK' BY SendCallType DEF EventsInv, TypeOK
<1>2. PICK e \in Request :
        /\ e.task = t /\ e.key = k /\ e.val = v
        /\ line' = IF Skipped(k, v, f) THEN line ELSE Append(line, e)
  BY SendCallEntry
<1>3. CASE Skipped(k, v, f)
  <2>1. line' = line BY <1>2, <1>3
  <2>2. \A i \in 1..Len(line) : line[i].task # t \/ t \notin Sources \cup {Heartbeater} OBVIOUS
  <2>3. \A i \in 1..Len(line) :
          /\ line[i].task \in Sources => handler'[line[i].task] = handler[line[i].task]
          /\ line[i].task = Heartbeater => UNCHANGED <<beating, beatOn>>
    BY <2>2
  <2>4. CallsAreKnown' /\ OneCallEach'
    BY <2>1, <2>3 DEF EventsInv, CallsAreKnown, OneCallEach, BeatValue
  <2> QED BY <1>1, <2>4
<1>4. CASE ~Skipped(k, v, f)
  <2>1. e \in Entry /\ line' = Append(line, e) BY <1>2, <1>4 DEF Entry
  <2> HIDE DEF BeatValue
  <2> QED BY <1>1, <1>2, <1>4, <2>1, CallAppended
<1> QED BY <1>3, <1>4

(* The line stays as it is, and only a task without a call in it goes on. *)
LEMMA LineStays ==
    ASSUME EventsInv, line' = line, NEW t,
           \A i \in 1..Len(line) : line[i].task # t,
           \A s \in Sources : s # t => handler'[s] = handler[s],
           t # Heartbeater => UNCHANGED <<beating, beatOn>>
    PROVE  CallsAreKnown' /\ OneCallEach'
<1>1. \A i \in 1..Len(line) :
        /\ line[i].task \in Sources => handler'[line[i].task] = handler[line[i].task]
        /\ line[i].task = Heartbeater => UNCHANGED <<beating, beatOn>>
  OBVIOUS
<1>2. CallsAreKnown'
  <2> SUFFICES ASSUME NEW i \in 1..Len(line)
               PROVE
      /\ line[i].key \in Events /\ line[i].val = 1 =>
            line[i].task \in Sources /\ handler'[line[i].task] = [pc |-> "rising", event |-> line[i].key]
      /\ line[i].task \in Pulses => line[i].key = line[i].task[1] /\ line[i].val = 0
      /\ line[i].key = HeartbeatKey => line[i].task = Heartbeater
      /\ line[i].task = Heartbeater =>
            beating' = "sending" /\ line[i].key = HeartbeatKey /\ line[i].val = BeatValue(beatOn')
      /\ line[i].task \in Sources => handler'[line[i].task].pc \in {"rising", "counting"}
    BY DEF CallsAreKnown, BeatValue
  <2> QED BY <1>1 DEF EventsInv, CallsAreKnown
<1>3. OneCallEach' BY DEF EventsInv, OneCallEach
<1> QED BY <1>2, <1>3

(* The head leaves, and its task may go on. *)
LEMMA HeadGone ==
    ASSUME EventsInv, line # <<>>, line' = Tail(line),
           \A s \in Sources : s # line[1].task => handler'[s] = handler[s],
           line[1].task # Heartbeater => UNCHANGED <<beating, beatOn>>
    PROVE  CallsAreKnown' /\ OneCallEach' /\ 1 \in 1..Len(line)
<1>1. /\ Len(line') = Len(line) - 1 /\ Len(line) \in Nat \ {0}
      /\ \A i \in 1..Len(line') : i + 1 \in 1..Len(line) /\ line'[i] = line[i + 1]
  BY TailFacts DEF EventsInv, TypeOK, SenderTypeOK
<1>2. 1 \in 1..Len(line) BY <1>1
<1>3. \A i \in 1..Len(line') : i + 1 # 1 /\ i \in Nat BY <1>1
<1>4. \A i \in 1..Len(line') :
        line'[i].task \in Sources \cup {Heartbeater} => line'[i].task # line[1].task
  BY <1>1, <1>2, <1>3 DEF EventsInv, OneCallEach
<1>5. CallsAreKnown'
  <2> SUFFICES ASSUME NEW i \in 1..Len(line')
               PROVE
      /\ line'[i].key \in Events /\ line'[i].val = 1 =>
            line'[i].task \in Sources /\ handler'[line'[i].task] = [pc |-> "rising", event |-> line'[i].key]
      /\ line'[i].task \in Pulses => line'[i].key = line'[i].task[1] /\ line'[i].val = 0
      /\ line'[i].key = HeartbeatKey => line'[i].task = Heartbeater
      /\ line'[i].task = Heartbeater =>
            beating' = "sending" /\ line'[i].key = HeartbeatKey /\ line'[i].val = BeatValue(beatOn')
      /\ line'[i].task \in Sources => handler'[line'[i].task].pc \in {"rising", "counting"}
    BY DEF CallsAreKnown, BeatValue
  <2>1. i + 1 \in 1..Len(line) /\ line'[i] = line[i + 1] BY <1>1
  <2>2. /\ line[i + 1].task \in Sources => handler'[line[i + 1].task] = handler[line[i + 1].task]
        /\ line[i + 1].task = Heartbeater => UNCHANGED <<beating, beatOn>>
    BY <1>4, <2>1
  <2> QED BY <2>1, <2>2 DEF EventsInv, CallsAreKnown
<1>6. OneCallEach'
  <2> SUFFICES ASSUME NEW i \in 1..Len(line'), NEW j \in 1..Len(line'),
                      line'[i].task = line'[j].task, line'[i].task \in Sources \cup {Heartbeater}
               PROVE  i = j
    BY DEF OneCallEach
  <2>1. i + 1 = j + 1 BY <1>1 DEF EventsInv, OneCallEach
  <2> QED BY <1>3, <2>1
<1> QED BY <1>2, <1>5, <1>6

(* The head is sent. *)
LEMMA SentFacts ==
    ASSUME EventsInv, NEW t \in Tasks, SendTo(t)
    PROVE  /\ SenderTypeOK' /\ Remembered' /\ ~closed /\ UNCHANGED <<target, closed>>
           /\ line # <<>> /\ line' = Tail(line) /\ 1 \in 1..Len(line)
           /\ line[1] \in Request /\ line[1].task = t
           /\ \A k \in Keys : wire'[k] = IF k = line[1].key THEN line[1].val ELSE wire[k]
<1>1. SenderTypeOK' /\ line[1] \in Request /\ line[1] = Head(line)
  BY SendToType DEF EventsInv, TypeOK
<1>2. 1 \in 1..Len(line) BY HeadLeavesType DEF EventsInv, TypeOK, SendTo
<1>3. /\ lastSent' = [lastSent EXCEPT ![line[1].key] = line[1].val]
      /\ wire' = [wire EXCEPT ![line[1].key] = line[1].val]
  BY <1>1 DEF SendTo, EventsInv, Remembered
<1>4. wire \in [Keys -> Values \cup {None}] BY DEF EventsInv, TypeOK, SenderTypeOK
<1> QED BY <1>1, <1>2, <1>3, <1>4 DEF SendTo, EventsInv, Remembered

(* Nobody but a dispatcher that raises a pulse makes a key high, and nobody *)
(* but the heartbeat changes its own key. *)
LEMMA SentKeeps ==
    ASSUME EventsInv, NEW t \in Tasks, SendTo(t),
           t \in Sources => handler[t].pc # "rising"
    PROVE  /\ \A e \in Events : wire'[e] = 1 => wire[e] = 1
           /\ t # Heartbeater => wire'[HeartbeatKey] = wire[HeartbeatKey]
<1>1. /\ 1 \in 1..Len(line) /\ line[1].task = t
      /\ \A k \in Keys : wire'[k] = IF k = line[1].key THEN line[1].val ELSE wire[k]
  BY SentFacts
<1>2. ~(line[1].key \in Events /\ line[1].val = 1)
  <2> SUFFICES ASSUME line[1].key \in Events, line[1].val = 1 PROVE FALSE OBVIOUS
  <2>1. t \in Sources /\ handler[t] = [pc |-> "rising", event |-> line[1].key]
    BY <1>1 DEF EventsInv, CallsAreKnown
  <2>2. handler[t].pc = "rising" BY <2>1
  <2> QED BY <2>1, <2>2
<1>3. line[1].key = HeartbeatKey => t = Heartbeater BY <1>1 DEF EventsInv, CallsAreKnown
<1> QED BY <1>1, <1>2, <1>3, KeysAreDistinct

(* A task that waits for nothing has no call in the line. *)
LEMMA IdleHasNoCall ==
    ASSUME EventsInv
    PROVE  /\ \A s \in Sources : handler[s].pc \notin {"rising", "counting"} =>
                 \A i \in 1..Len(line) : line[i].task # s
           /\ beating # "sending" => \A i \in 1..Len(line) : line[i].task # Heartbeater
  BY DEF EventsInv, CallsAreKnown

LEMMA HandlerFacts ==
    ASSUME EventsInv
    PROVE  /\ \A s \in Sources : handler[s].pc # "idle" =>
                 /\ handler[s].event \in Events
                 /\ handler[s] = [pc |-> handler[s].pc, event |-> handler[s].event]
                 /\ handler[s].pc \in {"rising", "count", "counting"}
           /\ \A s \in Sources : handler[s] = NoHandler => handler[s].pc = "idle"
  BY DEF EventsInv, TypeOK, NoHandler

----------------------------------------
(* One lemma per operation. *)

LEMMA OnEventKeeps ==
    ASSUME EventsInv, NEW s \in Sources, NEW e \in Events, OnEvent(s, e)
    PROVE  EventsInv'
<1>0. \A i \in 1..Len(line) : line[i].task # s BY HandlerFacts, IdleHasNoCall DEF OnEvent
<1>1. /\ counters' \in [Events -> 0..MaxEvents] /\ counters'[e] \in Nat
  BY ValuesAreCounts DEF OnEvent, EventsInv, Bounded, TypeOK
<1>2. CASE closed
  <2>1. UNCHANGED <<senderVars, handler, high>> BY <1>2 DEF OnEvent
  <2>2. CallsAreKnown' /\ OneCallEach' BY <2>1, <1>0, LineStays DEF OnEvent, senderVars, beatVars
  <2> QED BY <1>1, <1>2, <2>1, <2>2
      DEF EventsInv, TypeOK, SenderTypeOK, HighIsTracked, Remembered, Bounded, BeatIsNew,
          BeatValue, OnEvent, senderVars, beatVars, stopVars
<1>3. CASE ~closed
  <2> DEFINE now == Skipped(e, 1, FALSE)
  <2>1. /\ SendCall(s, e, 1, counters'[e], FALSE)
        /\ handler' = [handler EXCEPT ![s] =
                          [pc |-> IF now THEN "count" ELSE "rising", event |-> e]]
        /\ high' = IF now THEN high \cup {e} ELSE high
    BY <1>3 DEF OnEvent
  <2>2. handler \in [Sources -> [pc : {"rising", "count", "counting"}, event : Events] \cup {NoHandler}]
    BY DEF EventsInv, TypeOK
  <2>3. handler' \in [Sources -> [pc : {"rising", "count", "counting"}, event : Events] \cup {NoHandler}]
    BY <2>1, <2>2
  <2>4. SenderTypeOK' /\ CallsAreKnown' /\ OneCallEach'
    <3>1. s \in Tasks /\ e \in Keys /\ e # HeartbeatKey /\ s # Heartbeater /\ s \notin Pulses
          /\ 1 \in Values /\ FALSE \in BOOLEAN
      BY TasksAreDistinct, KeysAreDistinct, ValuesAreCounts
    <3>2. /\ \A r \in Sources : r # s => handler'[r] = handler[r]
          /\ ~now => handler'[s] = [pc |-> "rising", event |-> e]
          /\ ~now => handler'[s].pc = "rising"
          /\ UNCHANGED <<beating, beatOn>>
      BY <2>1, <2>2 DEF OnEvent, beatVars
    <3>3. /\ s \in Sources \cup {Heartbeater} => \A i \in 1..Len(line) : line[i].task # s
          /\ s # Heartbeater => UNCHANGED <<beating, beatOn>>
          /\ ~Skipped(e, 1, FALSE) =>
               /\ e \in Events /\ 1 = 1 => s \in Sources /\ handler'[s] = [pc |-> "rising", event |-> e]
               /\ s \in Pulses => e = s[1] /\ 1 = 0
               /\ e = HeartbeatKey => s = Heartbeater
               /\ s = Heartbeater =>
                    beating' = "sending" /\ e = HeartbeatKey /\ 1 = BeatValue(beatOn')
               /\ s \in Sources => handler'[s].pc \in {"rising", "counting"}
      BY <1>0, <3>1, <3>2
    <3> HIDE DEF now, BeatValue
    <3> QED BY <1>1, <2>1, <3>1, <3>2, <3>3, CallMade
  <2>5. UNCHANGED <<target, closed, lastSent, wire, phase, failures, cached, pulses, rest, rises,
                    linkOk, beatOn, beating, toLower>>
    BY <2>1 DEF OnEvent, SendCall, beatVars, stopVars
  <2>6. TypeOK'
    <3>1. high' \in SUBSET Events BY <2>1 DEF EventsInv, TypeOK
    <3>2. counters' \in [Events -> Nat] BY <1>1
    <3> QED BY <2>3, <2>4, <2>5, <3>1, <3>2 DEF EventsInv, TypeOK
  <2>7. HighIsTracked' BY <2>1, <2>5 DEF EventsInv, HighIsTracked
  <2>8. BeatIsNew' /\ Remembered' /\ Bounded'
    BY <1>1, <2>5 DEF EventsInv, BeatIsNew, BeatValue, Remembered, Bounded
  <2> QED BY <2>4, <2>6, <2>7, <2>8 DEF EventsInv
<1> QED BY <1>2, <1>3

LEMMA RoseKeeps ==
    ASSUME EventsInv, NEW s \in Sources, Rose(s)
    PROVE  EventsInv'
<1> DEFINE e == handler[s].event
<1>1. /\ s \in Tasks /\ s # Heartbeater /\ e \in Events /\ SendTo(s)
  BY TasksAreDistinct, HandlerFacts DEF Rose
<1>2. /\ SenderTypeOK' /\ Remembered' /\ ~closed /\ UNCHANGED <<target, closed>>
      /\ line # <<>> /\ line' = Tail(line) /\ 1 \in 1..Len(line)
      /\ line[1] \in Request /\ line[1].task = s
      /\ \A k \in Keys : wire'[k] = IF k = line[1].key THEN line[1].val ELSE wire[k]
  BY <1>1, SentFacts
<1>3. handler' = [handler EXCEPT ![s].pc = "count"] BY DEF Rose
<1>4. handler \in [Sources -> [pc : {"rising", "count", "counting"}, event : Events] \cup {NoHandler}]
  BY DEF EventsInv, TypeOK
<1>5. handler' \in [Sources -> [pc : {"rising", "count", "counting"}, event : Events] \cup {NoHandler}]
  <2>1. handler[s] \in [pc : {"rising", "count", "counting"}, event : Events]
    BY <1>4 DEF Rose, NoHandler
  <2>2. [handler[s] EXCEPT !.pc = "count"] = [pc |-> "count", event |-> e] BY <2>1
  <2>3. handler' = [handler EXCEPT ![s] = [handler[s] EXCEPT !.pc = "count"]] BY <1>3, <1>4
  <2>4. handler' = [handler EXCEPT ![s] = [pc |-> "count", event |-> e]] BY <2>2, <2>3
  <2> QED BY <1>1, <1>4, <2>4
<1>6. UNCHANGED <<counters, cached, pulses, rest, linkOk, beatOn, beating, phase, toLower, failures>>
  BY DEF Rose, beatVars, stopVars
<1>7. CallsAreKnown' /\ OneCallEach' BY <1>2, <1>3, <1>4, <1>6, HeadGone
<1>8. TypeOK'
  <2>1. high' \in SUBSET Events /\ rises' \in [Events -> Nat] BY <1>1 DEF Rose, EventsInv, TypeOK
  <2> QED BY <1>2, <1>5, <1>6, <2>1 DEF EventsInv, TypeOK
<1>9. HighIsTracked'
  <2> SUFFICES ASSUME phase = "running", NEW k \in Events, wire'[k] = 1 PROVE k \in high \cup {e}
    BY <1>6 DEF HighIsTracked, Rose
  <2>1. CASE k = line[1].key
    <3>1. line[1].val = 1 /\ line[1].key \in Events BY <1>2, <2>1, KeysAreDistinct
    <3>2. handler[s] = [pc |-> "rising", event |-> line[1].key]
      BY <1>2, <3>1 DEF EventsInv, CallsAreKnown
    <3> QED BY <2>1, <3>2
  <2>2. CASE k # line[1].key BY <1>2, <2>2, KeysAreDistinct DEF EventsInv, HighIsTracked
  <2> QED BY <2>1, <2>2
<1>10. BeatIsNew'
  <2>1. line[1].key # HeartbeatKey BY <1>1, <1>2 DEF EventsInv, CallsAreKnown
  <2> QED BY <1>2, <1>6, <2>1, KeysAreDistinct DEF EventsInv, BeatIsNew, BeatValue
<1> QED BY <1>2, <1>6, <1>7, <1>8, <1>9, <1>10 DEF EventsInv, Bounded

LEMMA SendCountKeeps ==
    ASSUME EventsInv, NEW s \in Sources, SendCount(s)
    PROVE  EventsInv'
<1> DEFINE e == handler[s].event
<1>1. /\ s \in Tasks /\ s # Heartbeater /\ s \notin Pulses /\ e \in Events
      /\ \A i \in 1..Len(line) : line[i].task # s
  BY TasksAreDistinct, HandlerFacts, IdleHasNoCall DEF SendCount
<1>2. handler \in [Sources -> [pc : {"rising", "count", "counting"}, event : Events] \cup {NoHandler}]
  BY DEF EventsInv, TypeOK
<1>3. UNCHANGED <<target, closed, lastSent, wire, counters, cached, high, pulses, rises, rest,
                  linkOk, beatOn, beating, phase, toLower, failures>>
  BY DEF SendCount, SendCall, senderVars, beatVars, stopVars
<1>4. SenderTypeOK' /\ CallsAreKnown' /\ OneCallEach' /\ handler' \in [Sources -> [pc : {"rising", "count", "counting"}, event : Events] \cup {NoHandler}]
  <2>1. CASE closed
    <3>1. handler' = [handler EXCEPT ![s] = NoHandler] /\ UNCHANGED senderVars
      BY <2>1 DEF SendCount
    <3>2. CallsAreKnown' /\ OneCallEach' BY <1>1, <1>2, <1>3, <3>1, LineStays DEF senderVars
    <3> QED BY <1>2, <3>1, <3>2 DEF EventsInv, TypeOK, SenderTypeOK, senderVars
  <2>2. CASE ~closed
    <3>1. /\ SendCall(s, CounterOf[e], counters[e], counters[e], FALSE)
          /\ handler' = [handler EXCEPT ![s].pc = "counting"]
      BY <2>2 DEF SendCount
    <3>2. [handler[s] EXCEPT !.pc = "counting"] = [pc |-> "counting", event |-> e]
      <4>1. handler[s] = [pc |-> "count", event |-> e] BY HandlerFacts DEF SendCount
      <4> QED BY <4>1
    <3>3. handler' = [handler EXCEPT ![s] = [pc |-> "counting", event |-> e]] BY <1>2, <3>1, <3>2
    <3>4. /\ handler' \in [Sources -> [pc : {"rising", "count", "counting"}, event : Events] \cup {NoHandler}] /\ handler'[s].pc = "counting"
          /\ \A r \in Sources : r # s => handler'[r] = handler[r]
      BY <1>1, <1>2, <3>3
    <3>5. /\ CounterOf[e] \in Keys /\ CounterOf[e] \notin Events /\ CounterOf[e] # HeartbeatKey
          /\ counters[e] \in Values /\ counters[e] \in Nat /\ FALSE \in BOOLEAN
      BY <1>1, KeysAreDistinct, ValuesAreCounts DEF EventsInv, Bounded
    <3> HIDE DEF e, BeatValue
    <3> QED BY <1>1, <1>3, <3>1, <3>4, <3>5, CallMade
  <2> QED BY <2>1, <2>2
<1> QED BY <1>3, <1>4
    DEF EventsInv, TypeOK, HighIsTracked, Remembered, Bounded, BeatIsNew, BeatValue

LEMMA CountedKeeps ==
    ASSUME EventsInv, NEW s \in Sources, Counted(s)
    PROVE  EventsInv'
<1> DEFINE e == handler[s].event
<1>1. /\ s \in Tasks /\ s # Heartbeater /\ e \in Events /\ SendTo(s) /\ handler[s].pc # "rising"
  BY TasksAreDistinct, HandlerFacts DEF Counted
<1>2. /\ SenderTypeOK' /\ Remembered' /\ ~closed /\ UNCHANGED <<target, closed>>
      /\ line # <<>> /\ line' = Tail(line) /\ line[1].task = s
      /\ \A k \in Events : wire'[k] = 1 => wire[k] = 1
      /\ wire'[HeartbeatKey] = wire[HeartbeatKey]
  BY <1>1, SentFacts, SentKeeps
<1>3. handler' = [handler EXCEPT ![s] = NoHandler] /\ handler \in [Sources -> [pc : {"rising", "count", "counting"}, event : Events] \cup {NoHandler}]
  BY DEF Counted, EventsInv, TypeOK
<1>4. UNCHANGED <<counters, high, rises, rest, linkOk, beatOn, beating, phase, toLower, failures>>
  BY DEF Counted, beatVars, stopVars
<1>5. CallsAreKnown' /\ OneCallEach' BY <1>2, <1>3, <1>4, HeadGone
<1>6. cached' \in [Events -> 0..MaxEvents] BY <1>1 DEF Counted, EventsInv, Bounded
<1>7. TypeOK'
  <2>1. pulses' \in [Pulses -> {"none", "asleep", "lowering"}] BY DEF Counted, EventsInv, TypeOK
  <2>2. cached' \in [Events -> Nat] BY <1>6, ValuesAreCounts
  <2> QED BY <1>2, <1>3, <1>4, <2>1, <2>2 DEF EventsInv, TypeOK
<1> QED BY <1>2, <1>4, <1>5, <1>6, <1>7
    DEF EventsInv, Bounded, HighIsTracked, BeatIsNew, BeatValue

LEMMA ReleaseKeeps ==
    ASSUME EventsInv, NEW p \in Pulses, Release(p)
    PROVE  EventsInv'
<1>1. p \in Tasks /\ p \notin Sources \cup {Heartbeater} /\ p[1] \in Events
  BY TasksAreDistinct DEF Pulses
<1>2. UNCHANGED <<target, closed, lastSent, wire, counters, cached, handler, rises, rest,
                  linkOk, beatOn, beating, phase, toLower, failures>>
  BY DEF Release, SendCall, senderVars, beatVars, stopVars
<1>3. SenderTypeOK' /\ CallsAreKnown' /\ OneCallEach'
  <2>1. CASE closed
    <3>1. UNCHANGED senderVars BY <2>1 DEF Release
    <3> QED BY <1>2, <3>1
        DEF EventsInv, TypeOK, SenderTypeOK, CallsAreKnown, OneCallEach, senderVars
  <2>2. CASE ~closed
    <3>1. SendCall(p, p[1], 0, 0, FALSE) BY <2>2 DEF Release
    <3>2. p[1] \in Keys /\ p[1] # HeartbeatKey /\ 0 \in Values /\ 0 \in Nat /\ FALSE \in BOOLEAN
      BY <1>1, KeysAreDistinct, ValuesAreCounts
    <3>3. ~Skipped(p[1], 0, FALSE) =>
            /\ p[1] \in Events /\ 0 = 1 => p \in Sources /\ handler'[p] = [pc |-> "rising", event |-> p[1]]
            /\ p \in Pulses => p[1] = p[1] /\ 0 = 0
            /\ p[1] = HeartbeatKey => p = Heartbeater
            /\ p = Heartbeater => beating' = "sending" /\ p[1] = HeartbeatKey /\ 0 = BeatValue(beatOn')
            /\ p \in Sources => handler'[p].pc \in {"rising", "counting"}
      BY <1>1, <3>2
    <3>4. /\ p \in Sources \cup {Heartbeater} => \A i \in 1..Len(line) : line[i].task # p
          /\ \A s \in Sources : s # p => handler'[s] = handler[s]
          /\ p # Heartbeater => UNCHANGED <<beating, beatOn>>
      BY <1>1, <1>2
    <3> HIDE DEF BeatValue
    <3> QED BY <1>1, <3>1, <3>2, <3>3, <3>4, CallMade
  <2> QED BY <2>1, <2>2
<1>4. /\ high' \in SUBSET Events /\ pulses' \in [Pulses -> {"none", "asleep", "lowering"}]
      /\ \A k \in high : k \in high' \/ wire[k] = 0
  <2>1. CASE closed BY <2>1 DEF Release, EventsInv, TypeOK
  <2>2. CASE ~closed
    <3>1. Skipped(p[1], 0, FALSE) => wire[p[1]] = 0 BY DEF Skipped, EventsInv, Remembered
    <3> QED BY <2>2, <3>1 DEF Release, EventsInv, TypeOK
  <2> QED BY <2>1, <2>2
<1>5. HighIsTracked' BY <1>2, <1>4 DEF EventsInv, HighIsTracked
<1> QED BY <1>2, <1>3, <1>4, <1>5 DEF EventsInv, TypeOK, Remembered, Bounded, BeatIsNew, BeatValue

LEMMA LoweredKeeps ==
    ASSUME EventsInv, NEW p \in Pulses, Lowered(p)
    PROVE  EventsInv'
<1>1. p \in Tasks /\ p \notin Sources \cup {Heartbeater} /\ p[1] \in Events /\ SendTo(p)
  BY TasksAreDistinct DEF Pulses, Lowered
<1>2. /\ SenderTypeOK' /\ Remembered' /\ ~closed /\ UNCHANGED <<target, closed>>
      /\ line # <<>> /\ line' = Tail(line) /\ line[1].task = p /\ 1 \in 1..Len(line)
      /\ \A k \in Events : wire'[k] = 1 => wire[k] = 1
      /\ wire'[HeartbeatKey] = wire[HeartbeatKey]
      /\ \A k \in Keys : wire'[k] = IF k = line[1].key THEN line[1].val ELSE wire[k]
  BY <1>1, SentFacts, SentKeeps
<1>3. wire'[p[1]] = 0
  <2>1. line[1].key = p[1] /\ line[1].val = 0 BY <1>2 DEF EventsInv, CallsAreKnown
  <2> QED BY <1>1, <1>2, <2>1, KeysAreDistinct
<1>4. UNCHANGED <<counters, cached, handler, rises, rest, linkOk, beatOn, beating, phase, toLower, failures>>
  BY DEF Lowered, beatVars, stopVars
<1>5. CallsAreKnown' /\ OneCallEach' BY <1>2, <1>4, HeadGone
<1>6. high' = high \ {p[1]} /\ pulses' \in [Pulses -> {"none", "asleep", "lowering"}]
  BY DEF Lowered, EventsInv, TypeOK
<1>7. TypeOK' BY <1>2, <1>4, <1>6 DEF EventsInv, TypeOK
<1>8. HighIsTracked' BY <1>2, <1>3, <1>4, <1>6 DEF EventsInv, HighIsTracked
<1> QED BY <1>2, <1>4, <1>5, <1>7, <1>8 DEF EventsInv, Bounded, BeatIsNew, BeatValue

LEMMA ResendKeeps ==
    ASSUME EventsInv, NEW r \in Resenders, ResendAll(r) \/ Resending(r)
    PROVE  EventsInv'
<1>1. r \in Tasks /\ r \notin Sources \cup Pulses \cup {Heartbeater} BY TasksAreDistinct
<1>2. CASE ResendAll(r)
  <2>1. UNCHANGED <<senderVars, eventVars, beatVars, stopVars, failures>> BY <1>2 DEF ResendAll
  <2>2. rest' \in [Resenders -> SUBSET Events] BY <1>2 DEF ResendAll, EventsInv, TypeOK
  <2> QED BY <2>1, <2>2
      DEF EventsInv, TypeOK, SenderTypeOK, HighIsTracked, Remembered, Bounded, CallsAreKnown,
          OneCallEach, BeatIsNew, BeatValue, senderVars, eventVars, beatVars, stopVars
<1>3. CASE ResendNext(r)
  <2>1. PICK e \in rest[r] :
          IF closed THEN rest' = [rest EXCEPT ![r] = {}] /\ UNCHANGED senderVars
          ELSE /\ SendCall(r, CounterOf[e], cached[e], cached[e], TRUE)
               /\ rest' = [rest EXCEPT ![r] = @ \ {e}]
    BY <1>3 DEF ResendNext
  <2>2. e \in Events /\ rest' \in [Resenders -> SUBSET Events] BY <2>1 DEF EventsInv, TypeOK
  <2>3. UNCHANGED <<target, closed, lastSent, wire, eventVars, beatVars, stopVars, failures>>
    BY <1>3, <2>1 DEF ResendNext, SendCall, senderVars
  <2>4. SenderTypeOK' /\ CallsAreKnown' /\ OneCallEach'
    <3>1. CASE closed
      BY <2>1, <2>3, <3>1 DEF EventsInv, TypeOK, SenderTypeOK, CallsAreKnown, OneCallEach,
         BeatValue, senderVars, eventVars, beatVars
    <3>2. CASE ~closed
      <4>1. /\ CounterOf[e] \in Keys /\ CounterOf[e] \notin Events /\ CounterOf[e] # HeartbeatKey
            /\ cached[e] \in Values /\ cached[e] \in Nat /\ TRUE \in BOOLEAN
        BY <2>2, KeysAreDistinct, ValuesAreCounts DEF EventsInv, Bounded
      <4>2. handler' = handler /\ UNCHANGED <<beating, beatOn>> BY <2>3 DEF eventVars, beatVars
      <4>3. SendCall(r, CounterOf[e], cached[e], cached[e], TRUE) BY <2>1, <3>2
      <4> HIDE DEF BeatValue
      <4> QED BY <1>1, <4>1, <4>2, <4>3, CallMade
    <3> QED BY <3>1, <3>2
  <2> QED BY <2>2, <2>3, <2>4
      DEF EventsInv, TypeOK, HighIsTracked, Remembered, Bounded, BeatIsNew, BeatValue,
          eventVars, beatVars, stopVars
<1>4. CASE Resent(r)
  <2>1. /\ SenderTypeOK' /\ Remembered' /\ ~closed /\ UNCHANGED <<target, closed>>
        /\ line # <<>> /\ line' = Tail(line) /\ line[1].task = r
        /\ \A k \in Events : wire'[k] = 1 => wire[k] = 1
        /\ wire'[HeartbeatKey] = wire[HeartbeatKey]
    BY <1>1, <1>4, SentFacts, SentKeeps DEF Resent
  <2>2. UNCHANGED <<eventVars, rest, beatVars, stopVars, failures>> BY <1>4 DEF Resent
  <2>3. CallsAreKnown' /\ OneCallEach' BY <2>1, <2>2, HeadGone DEF eventVars, beatVars
  <2> QED BY <2>1, <2>2, <2>3
      DEF EventsInv, TypeOK, HighIsTracked, Bounded, BeatIsNew, BeatValue,
          eventVars, beatVars, stopVars
<1> QED BY <1>2, <1>3, <1>4 DEF Resending

LEMMA BeatKeeps ==
    ASSUME EventsInv, Beat
    PROVE  EventsInv'
<1>1. /\ Heartbeater \in Tasks /\ Heartbeater \notin Sources \cup Pulses
      /\ \A i \in 1..Len(line) : line[i].task # Heartbeater
  BY TasksAreDistinct, IdleHasNoCall DEF Beat
<1>2. /\ UNCHANGED <<target, closed, lastSent, wire, linkOk, eventVars, rest, stopVars, failures>>
      /\ beatOn' = ~beatOn /\ beatOn' \in BOOLEAN /\ beating = "asleep"
  BY DEF Beat, SendCall, senderVars, EventsInv, TypeOK
<1>3. CASE closed
  <2>1. UNCHANGED <<senderVars, beating>> BY <1>3 DEF Beat
  <2>2. CallsAreKnown' /\ OneCallEach' BY <1>1, <1>2, <2>1, LineStays DEF senderVars, eventVars
  <2> QED BY <1>2, <1>3, <2>1, <2>2
      DEF EventsInv, TypeOK, SenderTypeOK, HighIsTracked, Remembered, Bounded, BeatIsNew,
          eventVars, stopVars, senderVars
<1>4. CASE ~closed
  <2>1. /\ SendCall(Heartbeater, HeartbeatKey, BeatValue(beatOn'), 0, TRUE)
        /\ beating' = "sending"
    BY <1>4 DEF Beat, BeatValue
  <2>2. SenderTypeOK' /\ CallsAreKnown' /\ OneCallEach'
    <3>1. /\ HeartbeatKey \in Keys /\ HeartbeatKey \notin Events /\ 0 \in Nat /\ TRUE \in BOOLEAN
          /\ BeatValue(beatOn') \in Values
      BY KeysAreDistinct, ValuesAreCounts DEF BeatValue
    <3>2. handler' = handler BY <1>2 DEF eventVars
    <3> HIDE DEF BeatValue
    <3> QED BY <1>1, <2>1, <3>1, <3>2, CallMade
  <2>3. BeatIsNew' BY <1>2, <2>1 DEF EventsInv, BeatIsNew
  <2> QED BY <1>2, <2>1, <2>2, <2>3
      DEF EventsInv, TypeOK, HighIsTracked, Remembered, Bounded, eventVars, stopVars
<1> QED BY <1>3, <1>4

LEMMA BeatSentKeeps ==
    ASSUME EventsInv, BeatSent
    PROVE  EventsInv' /\ (failures = 0 => wire'[HeartbeatKey] # wire[HeartbeatKey])
<1>1. Heartbeater \in Tasks /\ Heartbeater \notin Sources /\ SendTo(Heartbeater)
  BY TasksAreDistinct DEF BeatSent
<1>2. /\ SenderTypeOK' /\ Remembered' /\ ~closed /\ UNCHANGED <<target, closed>>
      /\ line # <<>> /\ line' = Tail(line) /\ line[1].task = Heartbeater /\ 1 \in 1..Len(line)
      /\ \A k \in Events : wire'[k] = 1 => wire[k] = 1
      /\ \A k \in Keys : wire'[k] = IF k = line[1].key THEN line[1].val ELSE wire[k]
  BY <1>1, SentFacts, SentKeeps
<1>3. wire'[HeartbeatKey] = BeatValue(beatOn)
  <2>1. line[1].key = HeartbeatKey /\ line[1].val = BeatValue(beatOn)
    BY <1>2 DEF EventsInv, CallsAreKnown
  <2> QED BY <1>2, <2>1, KeysAreDistinct
<1>4. /\ UNCHANGED <<linkOk, beatOn, eventVars, rest, stopVars, failures>>
      /\ beating = "sending" /\ beating' = "asleep" /\ beatOn \in BOOLEAN
  BY DEF BeatSent, EventsInv, TypeOK
<1>5. CallsAreKnown' /\ OneCallEach' BY <1>2, <1>4, HeadGone DEF eventVars
<1>6. BeatIsNew' /\ (failures = 0 => wire'[HeartbeatKey] # wire[HeartbeatKey])
  <2>1. BeatValue(beatOn) # BeatValue(~beatOn) BY <1>4 DEF BeatValue
  <2> QED BY <1>2, <1>3, <1>4, <2>1 DEF EventsInv, BeatIsNew
<1> QED BY <1>2, <1>4, <1>5, <1>6
    DEF EventsInv, TypeOK, HighIsTracked, Bounded, eventVars, stopVars

LEMMA LinkChangesKeeps ==
    ASSUME EventsInv, LinkChanges
    PROVE  EventsInv'
  BY DEF EventsInv, TypeOK, SenderTypeOK, HighIsTracked, Remembered, Bounded, CallsAreKnown,
     OneCallEach, BeatIsNew, BeatValue, LinkChanges, senderVars, eventVars, stopVars

LEMMA SendFailsKeeps ==
    ASSUME EventsInv, NEW t \in Tasks, SendFails(t)
    PROVE  EventsInv'
<1>1. /\ line # <<>> /\ line' = Tail(line) /\ Head(line).task = t
      /\ UNCHANGED <<target, closed, lastSent, wire, shown, counters, cached, high, rises,
                      linkOk, beatOn, phase>>
  BY DEF SendFails, SendRaises
<1>2. SenderTypeOK' /\ Head(line) = line[1]
  BY <1>1, SendRaisesType, HeadLeavesType DEF SendFails, EventsInv, TypeOK
<1>3. /\ handler' = [s \in Sources |-> IF s = t THEN NoHandler ELSE handler[s]]
      /\ beating' = IF t = Heartbeater THEN "asleep" ELSE beating
  BY DEF SendFails
<1>4. CallsAreKnown' /\ OneCallEach' BY <1>1, <1>2, <1>3, HeadGone
<1>5. TypeOK'
  <2>1. handler' \in [Sources -> [pc : {"rising", "count", "counting"}, event : Events] \cup {NoHandler}]
    BY <1>3 DEF EventsInv, TypeOK
  <2>2. /\ pulses' \in [Pulses -> {"none", "asleep", "lowering"}]
        /\ rest' \in [Resenders -> SUBSET Events]
        /\ beating' \in {"asleep", "sending", "cancelled"}
        /\ toLower' \in SUBSET Events
    BY DEF SendFails, EventsInv, TypeOK
  <2>3. failures' \in Nat BY DEF SendFails, EventsInv, TypeOK
  <2> QED BY <1>1, <1>2, <2>1, <2>2, <2>3 DEF EventsInv, TypeOK
<1>6. BeatIsNew'
  <2>1. closed \/ failures' # 0 BY DEF SendFails, EventsInv, TypeOK
  <2> QED BY <1>1, <2>1 DEF BeatIsNew
<1> QED BY <1>1, <1>4, <1>5, <1>6 DEF EventsInv, HighIsTracked, Remembered, Bounded

LEMMA CleanupKeeps ==
    ASSUME EventsInv, Cleanup, toLower' \in SUBSET Events
    PROVE  EventsInv'
<1> DEFINE stay == {i \in 1..Len(line) : line[i].task \notin Pulses \cup {Heartbeater}}
           n == Cardinality(stay)
<1>1. line \in Seq(Entry) /\ Len(line) \in Nat BY DEF EventsInv, TypeOK, SenderTypeOK, Entry
<1>2. n \in Nat
  <2>1. IsFiniteSet(1..Len(line)) BY <1>1, FS_Interval
  <2>2. IsFiniteSet(stay) BY <2>1, FS_Subset
  <2> QED BY <2>2, FS_CardinalityType
<1>3. PICK kept \in [1..n -> stay] :
        /\ \A i, j \in 1..n : i < j => kept[i] < kept[j]
        /\ line' = [i \in 1..n |-> line[kept[i]]]
  BY DEF Cleanup
<1> HIDE DEF n
<1>4. /\ \A i \in 1..n : /\ kept[i] \in 1..Len(line) /\ line'[i] = line[kept[i]]
                         /\ line'[i].task \notin Pulses \cup {Heartbeater}
      /\ line' \in Seq(Entry) /\ Len(line') = n
  <2>1. \A i \in 1..n : kept[i] \in 1..Len(line) /\ line[kept[i]] \in Entry
                        /\ line[kept[i]].task \notin Pulses \cup {Heartbeater}
    BY <1>1, <1>3
  <2>2. line' \in [1..n -> Entry] BY <1>3, <2>1
  <2> QED BY <1>2, <1>3, <2>1, <2>2
<1>5. UNCHANGED <<target, closed, lastSent, wire, shown, counters, cached, handler, rises,
                  rest, linkOk, beatOn, failures>>
  BY DEF Cleanup
<1>6. TypeOK'
  <2>1. SenderTypeOK' BY <1>4, <1>5 DEF EventsInv, TypeOK, SenderTypeOK, Entry
  <2>2. /\ high' \in SUBSET Events /\ pulses' \in [Pulses -> {"none", "asleep", "lowering"}]
        /\ beating' \in {"asleep", "sending", "cancelled"}
        /\ phase' \in {"running", "lowering", "stopped"}
    BY DEF Cleanup
  <2> QED BY <1>5, <2>1, <2>2 DEF EventsInv, TypeOK
<1>7. CallsAreKnown'
  <2> SUFFICES ASSUME NEW i \in 1..Len(line')
               PROVE
      /\ line'[i].key \in Events /\ line'[i].val = 1 =>
            line'[i].task \in Sources /\ handler[line'[i].task] = [pc |-> "rising", event |-> line'[i].key]
      /\ line'[i].task \in Pulses => line'[i].key = line'[i].task[1] /\ line'[i].val = 0
      /\ line'[i].key = HeartbeatKey => line'[i].task = Heartbeater
      /\ line'[i].task # Heartbeater
      /\ line'[i].task \in Sources => handler[line'[i].task].pc \in {"rising", "counting"}
    BY <1>5 DEF CallsAreKnown, BeatValue
  <2>1. kept[i] \in 1..Len(line) /\ line'[i] = line[kept[i]]
        /\ line'[i].task \notin Pulses \cup {Heartbeater}
    BY <1>4
  <2> QED BY <2>1 DEF EventsInv, CallsAreKnown
<1>8. OneCallEach'
  <2> SUFFICES ASSUME NEW i \in 1..n, NEW j \in 1..n,
                      line'[i].task = line'[j].task, line'[i].task \in Sources \cup {Heartbeater}
               PROVE  i = j
    BY <1>4 DEF OneCallEach
  <2>1. kept[i] = kept[j] BY <1>4 DEF EventsInv, OneCallEach
  <2>2. kept[i] \in Nat /\ kept[j] \in Nat /\ i \in Nat /\ j \in Nat BY <1>1, <1>2, <1>4
  <2> QED BY <1>3, <2>1, <2>2
<1> QED BY <1>5, <1>6, <1>7, <1>8
    DEF EventsInv, Cleanup, HighIsTracked, Remembered, Bounded, BeatIsNew

LEMMA StopKeeps ==
    ASSUME EventsInv, Stop
    PROVE  EventsInv'
<1>1. toLower' \in SUBSET Events BY DEF Stop, EventsInv, TypeOK
<1>2. CASE high = {} BY <1>1, <1>2, CleanupKeeps DEF Stop
<1>3. CASE high # {}
  <2>1. phase' = "lowering" /\ UNCHANGED <<senderVars, eventVars, rest, beatVars, failures>>
    BY <1>3 DEF Stop
  <2>2. CallsAreKnown' /\ OneCallEach'
    BY <2>1 DEF EventsInv, CallsAreKnown, OneCallEach, BeatValue, senderVars, eventVars, beatVars
  <2>3. TypeOK' BY <1>1, <2>1 DEF EventsInv, TypeOK, SenderTypeOK, senderVars, eventVars, beatVars
  <2> QED BY <2>1, <2>2, <2>3
      DEF EventsInv, HighIsTracked, Remembered, Bounded, BeatIsNew, BeatValue,
          senderVars, eventVars, beatVars
<1> QED BY <1>2, <1>3

LEMMA StoppingKeeps ==
    ASSUME EventsInv, Stopping
    PROVE  EventsInv'
<1>1. Stopper \in Tasks /\ Stopper \notin Sources \cup Pulses \cup {Heartbeater}
  BY TasksAreDistinct
<1>2. CASE LowerNext
  <2>1. PICK e \in toLower : SendCall(Stopper, e, 0, 0, FALSE) /\ toLower' = toLower \ {e}
    BY <1>2 DEF LowerNext
  <2>2. UNCHANGED <<target, closed, lastSent, wire, eventVars, rest, beatVars, phase, failures>>
    BY <1>2, <2>1 DEF LowerNext, SendCall
  <2>3. /\ e \in Keys /\ e # HeartbeatKey /\ 0 \in Values /\ 0 \in Nat /\ FALSE \in BOOLEAN
        /\ toLower' \in SUBSET Events
    BY <2>1, KeysAreDistinct, ValuesAreCounts DEF EventsInv, TypeOK
  <2>4. handler' = handler /\ UNCHANGED <<beating, beatOn>> BY <2>2 DEF eventVars, beatVars
  <2>5. SenderTypeOK' /\ CallsAreKnown' /\ OneCallEach'
    <3> HIDE DEF BeatValue
    <3>1. ~Skipped(e, 0, FALSE) =>
            /\ e \in Events /\ 0 = 1 =>
                 Stopper \in Sources /\ handler'[Stopper] = [pc |-> "rising", event |-> e]
            /\ Stopper \in Pulses => e = Stopper[1] /\ 0 = 0
            /\ e = HeartbeatKey => Stopper = Heartbeater
            /\ Stopper = Heartbeater =>
                 beating' = "sending" /\ e = HeartbeatKey /\ 0 = BeatValue(beatOn')
            /\ Stopper \in Sources => handler'[Stopper].pc \in {"rising", "counting"}
      BY <1>1, <2>3
    <3>2. /\ Stopper \in Sources \cup {Heartbeater} => \A i \in 1..Len(line) : line[i].task # Stopper
          /\ \A s \in Sources : s # Stopper => handler'[s] = handler[s]
          /\ Stopper # Heartbeater => UNCHANGED <<beating, beatOn>>
      BY <1>1, <2>4
    <3> QED BY <1>1, <2>1, <2>3, <3>1, <3>2, CallMade
  <2> QED BY <2>2, <2>3, <2>5
      DEF EventsInv, TypeOK, HighIsTracked, Remembered, Bounded, BeatIsNew, BeatValue,
          eventVars, beatVars
<1>3. CASE LowerSent
  <2>1. /\ SenderTypeOK' /\ Remembered' /\ ~closed /\ UNCHANGED <<target, closed>>
        /\ line # <<>> /\ line' = Tail(line) /\ line[1].task = Stopper
        /\ \A k \in Events : wire'[k] = 1 => wire[k] = 1
        /\ wire'[HeartbeatKey] = wire[HeartbeatKey]
    BY <1>1, <1>3, SentFacts, SentKeeps DEF LowerSent
  <2>2. UNCHANGED <<eventVars, rest, beatVars, stopVars, failures>> BY <1>3 DEF LowerSent
  <2>3. CallsAreKnown' /\ OneCallEach' BY <2>1, <2>2, HeadGone DEF eventVars, beatVars
  <2> QED BY <2>1, <2>2, <2>3
      DEF EventsInv, TypeOK, HighIsTracked, Bounded, BeatIsNew, BeatValue,
          eventVars, beatVars, stopVars
<1>4. CASE CancelTasks BY <1>4, CleanupKeeps DEF CancelTasks, EventsInv, TypeOK
<1> QED BY <1>2, <1>3, <1>4 DEF Stopping

LEMMA CloseKeeps ==
    ASSUME EventsInv, BeginClose \/ FinishClose
    PROVE  EventsInv'
<1>1. UNCHANGED <<target, lastSent, wire, eventVars, rest, beatVars, stopVars, failures>>
  BY DEF BeginClose, FinishClose, CloseCall, CloseSocket
<1>2. handler' = handler /\ UNCHANGED <<beating, beatOn>> BY <1>1 DEF eventVars, beatVars
<1>3. CASE BeginClose
  <2>1. SenderTypeOK' /\ closed' = closed /\ line' = Append(line, CloseRequest)
    BY <1>3, CloseCallType DEF BeginClose, CloseCall, EventsInv, TypeOK
  <2>2. /\ CloseRequest \in Entry /\ CloseRequest.task = Closer
        /\ CloseRequest.key = None /\ CloseRequest.key \notin Keys
    BY KeysAreDistinct DEF CloseRequest, Entry
  <2>3. /\ Closer \notin Sources \cup Pulses \cup {Heartbeater}
        /\ None \notin Events /\ None # HeartbeatKey
    BY TasksAreDistinct, KeysAreDistinct
  <2>4. CallsAreKnown' /\ OneCallEach'
    <3> HIDE DEF BeatValue
    <3> QED BY <1>2, <2>1, <2>2, <2>3, CallAppended
  <2> QED BY <1>1, <2>1, <2>4
      DEF EventsInv, TypeOK, HighIsTracked, Remembered, Bounded, BeatIsNew, BeatValue,
          eventVars, beatVars, stopVars
<1>4. CASE FinishClose
  <2>1. SenderTypeOK' /\ closed' = TRUE /\ line # <<>> /\ line' = Tail(line)
    BY <1>4, CloseSocketType DEF FinishClose, CloseSocket, EventsInv, TypeOK
  <2>2. CallsAreKnown' /\ OneCallEach' BY <1>2, <2>1, HeadGone
  <2> QED BY <1>1, <2>1, <2>2
      DEF EventsInv, TypeOK, HighIsTracked, Remembered, Bounded, BeatIsNew,
          eventVars, beatVars, stopVars
<1> QED BY <1>3, <1>4

LEMMA NextKeepsEvents ==
    ASSUME EventsInv, [Next]_vars
    PROVE  EventsInv'
<1>1. CASE UNCHANGED vars
  BY <1>1 DEF EventsInv, TypeOK, SenderTypeOK, HighIsTracked, Remembered, Bounded, CallsAreKnown,
     OneCallEach, BeatIsNew, BeatValue, vars, senderVars, eventVars, beatVars, stopVars
<1>2. CASE \E s \in Sources, e \in Events : OnEvent(s, e) BY <1>2, OnEventKeeps
<1>3. CASE \E s \in Sources : Handling(s)
  BY <1>3, RoseKeeps, SendCountKeeps, CountedKeeps DEF Handling
<1>4. CASE \E p \in Pulses : Pulsing(p) BY <1>4, ReleaseKeeps, LoweredKeeps DEF Pulsing
<1>5. CASE \E r \in Resenders : ResendAll(r) \/ Resending(r) BY <1>5, ResendKeeps
<1>6. CASE \E t \in Tasks : SendFails(t) BY <1>6, SendFailsKeeps
<1> QED BY <1>1, <1>2, <1>3, <1>4, <1>5, <1>6, BeatKeeps, BeatSentKeeps, LinkChangesKeeps,
           StopKeeps, StoppingKeeps, CloseKeeps DEF Next

----------------------------------------
(* Whatever pulses overlap, whatever send fails and whenever the bridge is *)
(* told to stop: what is high at the Miniserver is what stop() will lower, *)
(* for any number of events, sources and requests (runtime.py). *)
THEOREM EventsAreSafe == Spec => []EventsSafe
<1>1. Init => EventsInv BY InitEvents
<1>2. EventsInv /\ [Next]_vars => EventsInv' BY NextKeepsEvents
<1>3. EventsInv => EventsSafe BY DEF EventsInv, EventsSafe
<1> QED BY <1>1, <1>2, <1>3, PTL DEF Spec

(* The watchdog swallows no beat: as long as no send failed, a heartbeat *)
(* datagram differs from the one before, across any outage of the link *)
(* (runtime.py, _heartbeat_loop). *)
THEOREM BeatsAlternate == Spec => HeartbeatAlternates
<1>1. Init => EventsInv BY InitEvents
<1>2. EventsInv /\ [Next]_vars => EventsInv' BY NextKeepsEvents
<1>3. EventsInv /\ [Next]_vars =>
        [BeatSent /\ failures = 0 => wire'[HeartbeatKey] # wire[HeartbeatKey]]_vars
  BY BeatSentKeeps
<1> QED BY <1>1, <1>2, <1>3, PTL DEF Spec, HeartbeatAlternates
========================================
