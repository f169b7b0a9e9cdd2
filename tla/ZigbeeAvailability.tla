-------------------------- MODULE ZigbeeAvailability --------------------------
(***************************************************************************)
(* Whether a Zigbee device is shown online: the periodic sweep and         *)
(* mark_all_offline of AvailabilityChecker (zigbee/availability.py), the   *)
(* snapshots a reconnect seeds the runtime with (sources/supervisor.py,    *)
(* zigbee/source.py), and a device's own snapshot while the link holds.    *)
(*                                                                         *)
(* `online` is what the bridge says of a device - d<id>_online in the      *)
(* runtime's cache, which every resend repeats to Loxone; `told` is what   *)
(* the checker believes it has said.                                       *)
(***************************************************************************)
EXTENDS Naturals, Sequences, FiniteSets

CONSTANTS
  Nodes,         \* devices of the catalogue, without the coordinator
  Listening,     \* those a ping can reach: receiver on while idle, not LUMI
  Order,         \* the catalogue's order
  MaxSilences,   \* bound: times a device falls silent past its threshold
  MaxLinkLosses, \* bound: losses of the coordinator
  MaxRaises,     \* bound: reports that raise
  MaxNews,       \* bound: snapshots a device's own report causes
  SweepRaises    \* a report of the sweep may raise, not only one of a mark

ASSUME AvailabilityAssumption ==
  /\ Listening \subseteq Nodes
  /\ Order \in Seq(Nodes)
  /\ {MaxSilences, MaxLinkLosses, MaxRaises, MaxNews} \subseteq Nat
  /\ SweepRaises \in BOOLEAN

VARIABLES
  up,       \* ZigbeeSource.connected
  heard,    \* devices whose last_seen is younger than their threshold
  online,   \* what the runtime says of each device
  told,     \* the checker's `_reported`
  missed,   \* its `_missed_checkins`
  sweep,    \* its task: pc, devices still to check, the instant's verdicts
  marking,  \* a mark_all_offline under way
  binding,  \* an attach() under way: what its snapshots have said so far
  behind,   \* history: devices whose `online` was set behind the checker's back
  silent,   \* history: unanswered pings since a device or the link came back
  used      \* how much of each bound is used

availVars == <<up, heard, online, told, missed, sweep, marking, binding, behind, silent, used>>

Word(b)  == IF b THEN "online" ELSE "offline"
Asleep   == [pc |-> "asleep", todo |-> <<>>, fresh |-> {}]
NoMark   == [pc |-> "none", todo |-> <<>>]
NoAttach == [pc |-> "none", todo |-> <<>>, seen |-> {}]
Zeros    == [n \in Nodes |-> 0]

AvailInit ==
  /\ up = TRUE
  /\ heard \in SUBSET Nodes
  /\ online = [n \in Nodes |-> n \in heard]
  /\ told = [n \in Nodes |-> "unsaid"]
  /\ missed = Zeros
  /\ sweep = Asleep
  /\ marking = NoMark
  /\ binding = NoAttach
  /\ behind = {}
  /\ silent = Zeros
  /\ used = [silences |-> 0, losses |-> 0, raises |-> 0, news |-> 0]

-----------------------------------------------------------------------------
(* The world *)

\* A threshold is hours long: sweeps have passed since the device was heard,
\* and no attach is that slow.
FallsSilent(n) ==
  /\ n \in heard
  /\ (told[n] = "online" /\ missed[n] = 0) \/ ~up \/ sweep.pc = "dead"
  /\ binding = NoAttach
  /\ used.silences < MaxSilences
  /\ heard' = heard \ {n}
  /\ used' = [used EXCEPT !.silences = @ + 1]
  /\ UNCHANGED <<up, online, told, missed, sweep, marking, binding, behind, silent>>

\* What the checker has said last, or is saying.
Said(n) ==
  IF sweep.pc = "telling on" /\ n = Head(sweep.todo) THEN "online"
  ELSE IF \/ sweep.pc = "telling off" /\ n = Head(sweep.todo)
          \/ marking.pc = "telling" /\ n = Head(marking.todo) THEN "offline"
  ELSE told[n]

\* A snapshot writes `b` into the cache, and the checker is not asked.
CachedOtherwise(n, b) == Said(n) \notin {"unsaid", Word(b)}

\* Something arrives from the device; a report with a path nobody has seen
\* becomes a whole snapshot, which writes the runtime's cache and tells nobody.
HeardFrom(n) ==
  /\ up
  /\ heard' = heard \cup {n}
  /\ silent' = [silent EXCEPT ![n] = 0]
  /\ \/ n \notin heard /\ UNCHANGED <<online, behind, used>>
     \/ /\ used.news < MaxNews
        /\ used' = [used EXCEPT !.news = @ + 1]
        /\ online' = [online EXCEPT ![n] = TRUE]
        /\ behind' = IF CachedOtherwise(n, TRUE) THEN behind \cup {n} ELSE behind \ {n}
  /\ UNCHANGED <<up, told, missed, sweep, marking, binding>>

-----------------------------------------------------------------------------
(* _report: only a changed answer goes out, and it is recorded when the       *)
(* handler has returned.                                                      *)

Says(n, b) == /\ online' = [online EXCEPT ![n] = b]
              /\ behind' = behind \ {n}

-----------------------------------------------------------------------------
(* The sweep *)

SweepBegins ==
  /\ sweep.pc = "asleep"
  /\ sweep' = [pc |-> "checking", todo |-> Order, fresh |-> heard]
  /\ UNCHANGED <<up, heard, online, told, missed, marking, binding, behind, silent, used>>

SweepEnds ==
  /\ sweep.pc = "checking"
  /\ sweep.todo = <<>>
  /\ sweep' = Asleep
  /\ UNCHANGED <<up, heard, online, told, missed, marking, binding, behind, silent, used>>

IsFresh(n) == n \in heard \cup sweep.fresh

\* Mutant: the device is asked, not the link.
AnswerOfDevice(n) ==
  IF IsFresh(n) THEN "online"
  ELSE IF n \notin Listening \/ missed[n] >= 2 THEN "offline" ELSE "ping"

\* Mutant: one chance instead of two.
AnswerInHaste(n) ==
  IF ~up THEN "offline"
  ELSE IF IsFresh(n) THEN "online"
  ELSE IF n \notin Listening \/ missed[n] >= 1 THEN "offline" ELSE "ping"

\* _check_one: what the sweep has to say of a device, or that it must be asked.
Answer(n) ==
  IF ~up THEN "offline"
  ELSE IF IsFresh(n) THEN "online"
  ELSE IF n \notin Listening \/ missed[n] >= 2 THEN "offline" ELSE "ping"

CheckOne ==
  /\ sweep.pc = "checking"
  /\ sweep.todo # <<>>
  /\ LET n == Head(sweep.todo)
         b == Answer(n) = "online" IN
     IF Answer(n) = "ping"
     THEN /\ sweep' = [sweep EXCEPT !.pc = "pinging"]
          /\ missed' = [missed EXCEPT ![n] = @ + 1]
          /\ UNCHANGED <<online, told, behind>>
     ELSE /\ missed' = IF ~up \/ IsFresh(n) THEN [missed EXCEPT ![n] = 0] ELSE missed
          /\ IF told[n] = Answer(n)
             THEN /\ sweep' = [sweep EXCEPT !.todo = Tail(@)]
                  /\ UNCHANGED <<online, told, behind>>
             ELSE /\ Says(n, b)
                  /\ UNCHANGED told
                  /\ sweep' = [sweep EXCEPT !.pc = IF b THEN "telling on" ELSE "telling off"]
  /\ UNCHANGED <<up, heard, marking, binding, silent, used>>

\* The ping's read is answered, which also counts as heard ...
PingAnswered ==
  LET n == Head(sweep.todo) IN
  /\ sweep.pc = "pinging"
  /\ up
  /\ missed' = [missed EXCEPT ![n] = 0]
  /\ heard' = heard \cup {n}
  /\ silent' = [silent EXCEPT ![n] = 0]
  /\ sweep' = [sweep EXCEPT !.pc = "checking", !.todo = Tail(@)]
  /\ UNCHANGED <<up, online, told, marking, binding, behind, used>>

\* ... or not: the missed check-in was counted before.
PingUnanswered ==
  LET n == Head(sweep.todo) IN
  /\ sweep.pc = "pinging"
  /\ silent' = [silent EXCEPT ![n] = IF up /\ @ < 2 THEN @ + 1 ELSE @]
  /\ sweep' = [sweep EXCEPT !.pc = "checking", !.todo = Tail(@)]
  /\ UNCHANGED <<up, heard, online, told, missed, marking, binding, behind, used>>

SweepTold ==
  /\ sweep.pc \in {"telling on", "telling off"}
  /\ told' = [told EXCEPT ![Head(sweep.todo)] = Word(sweep.pc = "telling on")]
  /\ sweep' = [sweep EXCEPT !.pc = "checking", !.todo = Tail(@)]
  /\ UNCHANGED <<up, heard, online, missed, marking, binding, behind, silent, used>>

\* A report of the sweep raises: nothing catches it, and the task is over.
SweepRaised ==
  /\ SweepRaises
  /\ sweep.pc \in {"telling on", "telling off"}
  /\ used.raises < MaxRaises
  /\ sweep' = [Asleep EXCEPT !.pc = "dead"]
  /\ used' = [used EXCEPT !.raises = @ + 1]
  /\ UNCHANGED <<up, heard, online, told, missed, marking, binding, behind, silent>>

-----------------------------------------------------------------------------
(* A lost link *)

\* connection_lost: the flag falls and mark_all_offline is spawned.
CoordinatorLost ==
  /\ up
  /\ marking.pc = "none"
  /\ used.losses < MaxLinkLosses
  /\ up' = FALSE
  /\ marking' = [pc |-> "marking", todo |-> Order]
  /\ silent' = Zeros
  /\ used' = [used EXCEPT !.losses = @ + 1]
  /\ UNCHANGED <<heard, online, told, missed, sweep, binding, behind>>

\* mark_all_offline: the grace counters go, and each device is told in turn.
MarkOne ==
  /\ marking.pc = "marking"
  /\ marking.todo # <<>>
  /\ missed' = IF marking.todo = Order THEN Zeros ELSE missed
  /\ LET n == Head(marking.todo) IN
     IF told[n] = "offline"
     THEN /\ marking' = [marking EXCEPT !.todo = Tail(@)]
          /\ UNCHANGED <<online, told, behind>>
     ELSE /\ Says(n, FALSE)
          /\ UNCHANGED told
          /\ marking' = [marking EXCEPT !.pc = "telling"]
  /\ UNCHANGED <<up, heard, sweep, binding, silent, used>>

MarkTold ==
  /\ marking.pc = "telling"
  /\ told' = [told EXCEPT ![Head(marking.todo)] = "offline"]
  /\ marking' = [pc |-> "marking", todo |-> Tail(marking.todo)]
  /\ UNCHANGED <<up, heard, online, missed, sweep, binding, behind, silent, used>>

\* A report that raises is guarded: the next device is told, this one is owed.
MarkRaised ==
  /\ marking.pc = "telling"
  /\ used.raises < MaxRaises
  /\ used' = [used EXCEPT !.raises = @ + 1]
  /\ marking' = [pc |-> "marking", todo |-> Tail(marking.todo)]
  /\ UNCHANGED <<up, heard, online, told, missed, sweep, binding, behind, silent>>

MarkEnds ==
  /\ marking.pc = "marking"
  /\ marking.todo = <<>>
  /\ marking' = NoMark
  /\ UNCHANGED <<up, heard, online, told, missed, sweep, binding, behind, silent, used>>

-----------------------------------------------------------------------------
(* A link that comes back *)

\* connect() succeeds, and attach() begins.  Opening a radio takes longer than
\* telling every device that it is gone.
LinkReturns ==
  /\ ~up
  /\ marking = NoMark
  /\ binding = NoAttach
  /\ up' = TRUE
  /\ binding' = [NoAttach EXCEPT !.pc = "subscribing"]
  /\ UNCHANGED <<heard, online, told, missed, sweep, marking, behind, silent, used>>

\* Mutant: the new checker is built and not started.
SubscribesUnstarted ==
  /\ binding.pc = "subscribing"
  /\ told' = [n \in Nodes |-> "unsaid"]
  /\ missed' = Zeros
  /\ sweep' = [Asleep EXCEPT !.pc = "dead"]
  /\ binding' = [binding EXCEPT !.pc = "reading", !.todo = Order]
  /\ UNCHANGED <<up, heard, online, marking, behind, silent, used>>

\* subscribe(): the old checker is stopped, a new one starts with nothing said.
Subscribes ==
  /\ binding.pc = "subscribing"
  /\ told' = [n \in Nodes |-> "unsaid"]
  /\ missed' = Zeros
  /\ sweep' = Asleep
  /\ binding' = [binding EXCEPT !.pc = "reading", !.todo = Order]
  /\ UNCHANGED <<up, heard, online, marking, behind, silent, used>>

\* snapshots(): one device after the other, each as the link is then.
ReadsOne ==
  /\ binding.pc = "reading"
  /\ binding.todo # <<>>
  /\ binding' = [binding EXCEPT !.todo = Tail(@),
                   !.seen = IF up /\ Head(binding.todo) \in heard
                            THEN @ \cup {Head(binding.todo)} ELSE @]
  /\ UNCHANGED <<up, heard, online, told, missed, sweep, marking, behind, silent, used>>

\* seed_from_snapshot caches what the snapshots say, and tells nobody.
Seeds ==
  /\ binding.pc = "reading"
  /\ binding.todo = <<>>
  /\ online' = [n \in Nodes |-> n \in binding.seen]
  /\ behind' = {n \in Nodes : CachedOtherwise(n, n \in binding.seen)}
  /\ binding' = NoAttach
  /\ UNCHANGED <<up, heard, told, missed, sweep, marking, silent, used>>

-----------------------------------------------------------------------------
SweepStep == SweepBegins \/ SweepEnds \/ CheckOne \/ PingAnswered \/ PingUnanswered \/ SweepTold
MarkStep  == MarkOne \/ MarkTold \/ MarkRaised \/ MarkEnds
BindStep  == Subscribes \/ ReadsOne \/ Seeds

AvailNext ==
  \/ \E n \in Nodes : FallsSilent(n) \/ HeardFrom(n)
  \/ SweepStep \/ SweepRaised
  \/ CoordinatorLost \/ MarkStep
  \/ LinkReturns \/ BindStep

AvailSpec == AvailInit /\ [][AvailNext]_availVars

\* Every task of the bridge that can go on does; radios and devices need not.
AvailFairSpec ==
  AvailSpec /\ WF_availVars(SweepStep) /\ WF_availVars(MarkStep) /\ WF_availVars(BindStep)

-----------------------------------------------------------------------------
(* Properties *)

SweepStates == [pc : {"asleep", "checking", "pinging", "telling on", "telling off", "dead"},
          todo : Seq(Nodes), fresh : SUBSET Nodes]

AvailTypeOK ==
  /\ up \in BOOLEAN
  /\ heard \subseteq Nodes /\ behind \subseteq Nodes
  /\ online \in [Nodes -> BOOLEAN]
  /\ told \in [Nodes -> {"unsaid", "online", "offline"}]
  /\ missed \in [Nodes -> 0..2] /\ silent \in [Nodes -> 0..2]
  /\ sweep \in SweepStates
  /\ marking \in [pc : {"none", "marking", "telling"}, todo : Seq(Nodes)]
  /\ binding \in [pc : {"none", "subscribing", "reading"}, todo : Seq(Nodes), seen : SUBSET Nodes]

\* A device that listens is not written off by a sweep while the link holds
\* before two pings have gone unanswered - and none of those counts that a
\* dead link swallowed (_check_one, _CHECKIN_GRACE_PERIODS).
TwoChances ==
  [][\A n \in Listening :
       (/\ up /\ online[n] /\ ~online'[n]
        /\ sweep.pc = "checking" /\ sweep'.pc = "telling off") => silent[n] >= 2]_availVars

Fair(n) == n \notin behind

\* A link that is gone for good takes every device offline in the end,
\* though a report may raise and a sweep may be half way through - every
\* device whose state a snapshot has not set behind the checker's back
\* (mark_all_offline, _report).
OfflineInTheEnd == \A n \in Nodes : <>[](~up /\ Fair(n)) => <>[]~online[n]

\* Without that exception: what mark_all_offline promises.
OfflineWithTheLink == \A n \in Nodes : <>[](~up) => <>[]~online[n]

\* A device that is heard no more is shown offline in the end, and one that is
\* heard is shown online, while the link holds - with the same exception
\* (_sweep, _check_one, _ping).
ShownAsHeard ==
  \A n \in Nodes : /\ <>[](up /\ Fair(n) /\ n \notin heard) => <>[]~online[n]
                   /\ <>[](up /\ Fair(n) /\ n \in heard) => <>[]online[n]

\* What the checker may do in no step, and what it must bring about
\* (AvailabilityChecker).
AvailabilitySafe  == []AvailTypeOK /\ TwoChances
AvailabilityShown == OfflineInTheEnd /\ ShownAsHeard

=============================================================================
