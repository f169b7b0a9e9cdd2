------------------------ MODULE CommissioningSession ------------------------
(***************************************************************************)
(* commissioning/session.py: the cards of the commissioning dialog.  A     *)
(* Bluetooth scan shows the devices that advertise, a code attaches to the *)
(* card of the device it fits, and one worker commissions the queued cards *)
(* one after the other.  Everything runs on one event loop; the tasks that *)
(* interleave at their awaits are the scans, the worker, the requests that *)
(* add a code, and the user's other clicks, which await nothing.           *)
(*                                                                         *)
(* A device is a Bluetooth address: one that changes its address is two of *)
(* them, which the same code fits.  Names, rooms and the blinking are left *)
(* out, except that the worker waits for it.                               *)
(***************************************************************************)
EXTENDS Naturals, FiniteSets, Sequences, SequencesExt

CONSTANTS
    Devices,      \* the Bluetooth addresses that can advertise
    Codes,        \* setup codes
    Fits,         \* per code, the devices whose discriminator it fits
    OnNetwork,    \* the codes of devices that are reached without Bluetooth
    Scans,        \* concurrent calls of scan()
    Adders,       \* concurrent requests that add a code
    MaxCards,     \* bound: cards ever created
    MaxRemovals,  \* bound: cards the user removes, and clears
    MaxDrops,     \* bound: times matter-server goes away
    None

ASSUME SessionAssumption ==
    /\ Fits \in [Codes -> SUBSET Devices] /\ OnNetwork \subseteq Codes
    /\ {MaxCards, MaxRemovals, MaxDrops} \subseteq Nat
    /\ Scans \cap Adders = {} /\ {"work", "free"} \cap (Scans \cup Adders) = {}
    /\ None \notin Devices \cup Codes \cup Adders \cup Scans \cup {"work"}

Ids == 1..MaxCards
Scanners == Scans \cup {"work"}
Tasks == Scanners \cup Adders
States == {"none", "found", "ready", "queued", "running", "naming", "done",
           "not_nearby", "failed"}
Stages == {"off", "loop", "radio", "scanning", "taking", "looking", "warning",
           "commission", "ending", "label"}

VARIABLES
    cards,      \* `_cards`, with `_adverts` (at), `_codes` (code), `_forced`
    created,    \* how many cards there have been
    queue,      \* `_queue`
    naming,     \* `_naming`
    latest,     \* `_latest`: what the latest scan saw
    dismissed,  \* `_dismissed`: devices whose card was removed
    radio,      \* who holds `_radio`
    results,    \* who waits for `_results`: the first one has it
    stage,      \* per task, the await it stands at
    todo,       \* per task, the adverts it has still to take
    look,       \* per task, the advert whose label it waits for
    work,       \* the worker's card, its address and code, the second attempt
    adding,     \* per adder, its code, whether the worker ran, the card's state
    up,         \* matter-server is connected
    removals,   \* history
    drops,      \* history
    forgotten,  \* history: cards that stood in the place of a removed one
    loop        \* the task that has not come to its next await, or None

vars == <<cards, created, queue, naming, latest, dismissed, radio, results,
          stage, todo, look, work, adding, up, removals, drops, forgotten, loop>>

NoCard == [state |-> "none", at |-> None, code |-> None, forced |-> FALSE]
NoWork == [card |-> 0, at |-> None, code |-> None, again |-> FALSE]
NoAdd == [code |-> None, ran |-> FALSE, startable |-> FALSE]

TypeOK ==
    /\ cards \in [Ids -> [state : States, at : Devices \cup {None},
                          code : Codes \cup {None}, forced : BOOLEAN]]
    /\ created \in 0..MaxCards
    /\ queue \in Seq(Ids) /\ naming \in Seq(Ids)
    /\ latest \subseteq Devices /\ dismissed \subseteq Devices
    /\ radio \in Scanners \cup {"free"} /\ results \in Seq(Scanners)
    /\ stage \in [Tasks -> Stages]
    /\ todo \in [Tasks -> SUBSET Devices]
    /\ look \in [Tasks -> Devices \cup {None}]
    /\ work \in [card : 0..MaxCards, at : Devices \cup {None},
                code : Codes \cup {None}, again : BOOLEAN]
    /\ adding \in [Adders -> [code : Codes \cup {None}, ran : BOOLEAN, startable : BOOLEAN]]
    /\ up \in BOOLEAN /\ removals \in 0..MaxRemovals /\ drops \in 0..MaxDrops
    /\ forgotten \subseteq Ids /\ loop \in Tasks \cup {None}

Init ==
    /\ cards = [c \in Ids |-> NoCard] /\ created = 0
    /\ queue = <<>> /\ naming = <<>> /\ latest = {} /\ dismissed = {}
    /\ radio = "free" /\ results = <<>>
    /\ stage = [t \in Tasks |-> "off"]
    /\ todo = [t \in Tasks |-> {}] /\ look = [t \in Tasks |-> None]
    /\ work = NoWork /\ adding = [a \in Adders |-> NoAdd]
    /\ up = TRUE /\ removals = 0 /\ drops = 0 /\ forgotten = {} /\ loop = None

-----------------------------------------------------------------------------
(* The board: cards, queue and whether there is a worker, as the loops below *)
(* change them one card at a time.                                           *)

WorkerActive == stage["work"] # "off"

Board == [cards |-> cards, queue |-> queue, works |-> WorkerActive]

(* _startable() *)
Startable(b) == IF b.works THEN "queued" ELSE "ready"

(* The entries of a sequence that are in keep, in their order. *)
Sifted(seq, keep) ==
    LET upTo[i \in 0..Len(seq)] ==
          IF i = 0 THEN <<>>
          ELSE IF seq[i] \in keep THEN Append(upTo[i - 1], seq[i]) ELSE upTo[i - 1]
    IN  upTo[Len(seq)]

Without(seq, c) == Sifted(seq, Ids \ {c})

(* _drop(), but for the naming line. *)
Dropped(b, c) == [b EXCEPT !.cards[c] = NoCard, !.queue = Without(@, c)]

(* _enqueue(), with the worker _ensure_worker() starts for whatever is queued. *)
Enqueued(b, c) ==
    LET q == IF b.cards[c].state = "queued" /\ c \notin ToSet(b.queue)
             THEN Append(b.queue, c) ELSE b.queue
    IN  [b EXCEPT !.queue = q, !.works = @ \/ q # <<>>]

WorkerFor(q) == IF q # <<>> /\ stage["work"] = "off" THEN "loop" ELSE stage["work"]

Known(d) == \E c \in Ids : cards[c].at = d

(* _matching_found() *)
Matching(b, k, seen) ==
    {c \in Ids : /\ b.cards[c].state = "found" /\ b.cards[c].at \in seen
                 /\ b.cards[c].at \in Fits[k]}

(* _rematch_not_nearby() for one card. *)
Rematched(b, c, seen) ==
    LET card == b.cards[c]
        found == Matching(b, card.code, seen)
        target == CHOOSE f \in found : TRUE
    IN  IF card.state # "not_nearby" THEN b
        ELSE IF card.at # None
        THEN IF card.at \in seen
             THEN Enqueued([b EXCEPT !.cards[c].state = Startable(b)], c) ELSE b
        ELSE IF Cardinality(found) # 1 THEN b
        ELSE Enqueued(Dropped([b EXCEPT !.cards[target].state = Startable(b),
                                        !.cards[target].code = card.code], c), target)

(* _forget_unseen() and _rematch_not_nearby(): the end of _take_snapshot(). *)
AfterSnapshot(seen) ==
    LET unseen == {c \in Ids : cards[c].state = "found" /\ cards[c].at \notin seen}
        upTo[c \in 0..MaxCards] ==
          IF c = 0
          THEN [Board EXCEPT !.cards = [e \in Ids |-> IF e \in unseen THEN NoCard ELSE @[e]]]
          ELSE Rematched(upTo[c - 1], c, seen)
    IN  upTo[MaxCards]

-----------------------------------------------------------------------------
(* Taking adverts: shared by the scan, the worker's own scan and add_code(). *)

(* Mutant: a scan does not ask who holds the radio. *)
ScanOverWorker(t) ==
    /\ stage[t] = "off"
    /\ radio' = t
    /\ stage' = [stage EXCEPT ![t] = "scanning"]
    /\ UNCHANGED <<cards, created, queue, naming, latest, dismissed, results, todo, look,
                   work, adding, up, removals, drops, forgotten>>

(* scan(): refused while the radio is held.  One asked for in the moment in *)
(* which the waiting worker is about to get the radio waits behind it: a    *)
(* scan that starts later.  The minimum interval of automatic scans only    *)
(* decides whether it is called.                                            *)
Scan(t) ==
    /\ stage[t] = "off" /\ radio = "free" /\ stage["work"] # "radio"
    /\ radio' = t
    /\ stage' = [stage EXCEPT ![t] = "scanning"]
    /\ UNCHANGED <<cards, created, queue, naming, latest, dismissed, results, todo, look,
                   work, adding, up, removals, drops, forgotten>>

(* _follow_new_address(): the worker's card moves to the one address seen *)
(* that its code fits, if its own was not seen.                           *)
Followed(seen) ==
    LET fit == {d \in seen : d \in Fits[work.code]}
    IN  IF work.at # None /\ work.at \notin seen /\ Cardinality(fit) = 1
        THEN CHOOSE d \in fit : TRUE ELSE work.at

(* The radio scan ends.  A scan gives the radio back, the worker keeps it *)
(* and follows its card's device.                                         *)
ScanEnds(t, seen) ==
    /\ stage[t] = "scanning"
    /\ stage' = [stage EXCEPT ![t] = "taking"]
    /\ todo' = [todo EXCEPT ![t] = seen]
    /\ results' = Append(results, t)
    /\ IF t \in Scans THEN radio' = "free" /\ UNCHANGED <<cards, work>>
       ELSE /\ work' = [work EXCEPT !.at = Followed(seen)]
            /\ cards' = IF cards[work.card].state = "none" THEN cards
                        ELSE [cards EXCEPT ![work.card].at = Followed(seen)]
            /\ UNCHANGED radio
    /\ UNCHANGED <<created, queue, naming, latest, dismissed, look, adding, up, removals,
                   drops, forgotten>>

(* A failed scan changes nothing but the warning. *)
ScanFails(t) ==
    /\ stage[t] = "scanning"
    /\ stage' = [stage EXCEPT ![t] = IF t \in Scans THEN "off" ELSE "warning"]
    /\ radio' = IF t \in Scans THEN "free" ELSE radio
    /\ UNCHANGED <<cards, created, queue, naming, latest, dismissed, results, todo, look,
                   work, adding, up, removals, drops, forgotten>>

(* _take_snapshot() gets its lock. *)
TakeSnapshot(t) ==
    /\ stage[t] = "taking" /\ Head(results) = t
    /\ latest' = todo[t]
    /\ dismissed' = dismissed \cap todo[t]
    /\ stage' = [stage EXCEPT ![t] = "looking"]
    /\ UNCHANGED <<cards, created, queue, naming, radio, results, todo, look, work, adding,
                   up, removals, drops, forgotten>>

(* _take_advert() up to the label lookup; for an adder, with the step of *)
(* _restore_dismissed() before it.                                       *)
TakeAdvert(t, d) ==
    /\ stage[t] = "looking" /\ look[t] = None /\ d \in todo[t]
    /\ t \in Adders => d \in dismissed \/ d \notin latest
    /\ todo' = [todo EXCEPT ![t] = @ \ {d}]
    /\ IF t \in Adders
       THEN /\ dismissed' = IF d \in latest THEN dismissed \ {d} ELSE dismissed
            /\ look' = [look EXCEPT ![t] = IF d \in latest /\ ~Known(d) THEN d ELSE None]
       ELSE /\ look' = [look EXCEPT ![t] = IF d \in dismissed \/ Known(d) THEN None ELSE d]
            /\ UNCHANGED dismissed
    /\ UNCHANGED <<cards, created, queue, naming, latest, radio, results, stage, work,
                   adding, up, removals, drops, forgotten>>

(* Mutant: nobody looks again after the lookup. *)
LabelAlwaysNew(t) ==
    /\ look[t] # None /\ created < MaxCards
    /\ created' = created + 1
    /\ cards' = [cards EXCEPT ![created + 1] =
                   [state |-> "found", at |-> look[t], code |-> None, forced |-> FALSE]]
    /\ look' = [look EXCEPT ![t] = None]
    /\ UNCHANGED <<queue, naming, latest, dismissed, radio, results, stage, todo, work,
                   adding, up, removals, drops, forgotten>>

(* The label is there: a new card, unless the device has one by now (or the *)
(* model is out of cards).                                                  *)
Label(t) ==
    /\ look[t] # None
    /\ IF Known(look[t]) \/ created = MaxCards THEN UNCHANGED <<cards, created>>
       ELSE /\ created' = created + 1
            /\ cards' = [cards EXCEPT ![created + 1] =
                           [state |-> "found", at |-> look[t], code |-> None, forced |-> FALSE]]
    /\ look' = [look EXCEPT ![t] = None]
    /\ UNCHANGED <<queue, naming, latest, dismissed, radio, results, stage, todo, work,
                   adding, up, removals, drops, forgotten>>

(* All adverts are taken: the end of _take_snapshot(). *)
SnapshotTaken(t) ==
    /\ t \in Scanners /\ stage[t] = "looking" /\ todo[t] = {} /\ look[t] = None
    /\ results' = Tail(results)
    /\ cards' = AfterSnapshot(latest).cards
    /\ queue' = AfterSnapshot(latest).queue
    /\ stage' = IF t = "work" \/ WorkerActive \/ ~AfterSnapshot(latest).works
                THEN [stage EXCEPT ![t] = "warning"]
                ELSE [stage EXCEPT ![t] = "warning", !["work"] = "loop"]
    /\ UNCHANGED <<created, naming, latest, dismissed, radio, todo, look, work, adding, up,
                   removals, drops, forgotten>>

(* _update_warning() of a scan. *)
ScanDone(t) ==
    /\ stage[t] = "warning"
    /\ stage' = [stage EXCEPT ![t] = "off"]
    /\ UNCHANGED <<cards, created, queue, naming, latest, dismissed, radio, results, todo,
                   look, work, adding, up, removals, drops, forgotten>>

-----------------------------------------------------------------------------
(* add_code(). *)

(* Mutant: the worker that ran when the code came in is trusted to run still. *)
CodeCardAlone(a, k, c, s, d) ==
    LET b == [Board EXCEPT !.cards[c] =
                [state |-> s, at |-> d, code |-> k, forced |-> FALSE]]
        q == Enqueued(b, c).queue
    IN  /\ cards' = b.cards
        /\ queue' = q
        /\ stage' = [stage EXCEPT ![a] = "off"]
        /\ adding' = [adding EXCEPT ![a] = NoAdd]

(* The code is on card c, in state s; a queued card finds a worker. *)
CodeCard(a, k, c, s, d) ==
    LET b == [Board EXCEPT !.cards[c] =
                [state |-> s, at |-> d, code |-> k, forced |-> FALSE]]
        q == Enqueued(b, c).queue
    IN  /\ cards' = b.cards
        /\ queue' = q
        /\ stage' = [stage EXCEPT ![a] = "off",
                                  !["work"] = IF s = "queued" THEN WorkerFor(q) ELSE @]
        /\ adding' = [adding EXCEPT ![a] = NoAdd]

(* One device that fits takes the code at once; else the request waits for *)
(* the product's label to make a card of its own.                          *)
Resolve(a, k, ran) ==
    LET found == Matching(Board, k, latest) IN
    IF Cardinality(found) = 1
    THEN \E c \in found : CodeCard(a, k, c, Startable(Board), cards[c].at)
    ELSE /\ adding' = [adding EXCEPT ![a] =
                         [code |-> k, ran |-> ran,
                          startable |-> found # {} \/ k \in OnNetwork]]
         /\ stage' = [stage EXCEPT ![a] = "label"]
         /\ UNCHANGED <<cards, queue>>

(* A code the duplicate check lets pass.  Removed cards of devices it fits *)
(* come back first; with none of them there is no await before Resolve.    *)
AddCode(a, k) ==
    LET back == {d \in dismissed : d \in Fits[k]} IN
    /\ stage[a] = "off" /\ \A c \in Ids : cards[c].code # k
    /\ todo' = [todo EXCEPT ![a] = back]
    /\ IF back = {} THEN Resolve(a, k, WorkerActive)
       ELSE /\ adding' = [adding EXCEPT ![a] = [NoAdd EXCEPT !.code = k, !.ran = WorkerActive]]
            /\ stage' = [stage EXCEPT ![a] = "looking"]
            /\ UNCHANGED <<cards, queue>>
    /\ UNCHANGED <<created, naming, latest, dismissed, radio, results, look, work, up,
                   removals, drops, forgotten>>

(* The removed cards are back. *)
RestoredCard(a) ==
    /\ a \in Adders /\ stage[a] = "looking" /\ todo[a] = {} /\ look[a] = None
    /\ Resolve(a, adding[a].code, adding[a].ran)
    /\ UNCHANGED <<created, naming, latest, dismissed, radio, results, todo, look, work, up,
                   removals, drops, forgotten>>

(* Another request took this device out of _dismissed: KeyError. *)
RestoreRaises(a) ==
    /\ a \in Adders /\ stage[a] = "looking" /\ look[a] = None
    /\ \E d \in todo[a] : d \in latest /\ d \notin dismissed
    /\ stage' = [stage EXCEPT ![a] = "off"]
    /\ todo' = [todo EXCEPT ![a] = {}]
    /\ adding' = [adding EXCEPT ![a] = NoAdd]
    /\ UNCHANGED <<cards, created, queue, naming, latest, dismissed, radio, results, look,
                   work, up, removals, drops, forgotten>>

(* The label is there: the code gets a card of its own. *)
NewCodeCard(a) ==
    LET add == adding[a]
        s == IF ~add.startable THEN "not_nearby" ELSE IF add.ran THEN "queued" ELSE Startable(Board)
    IN  /\ stage[a] = "label" /\ created < MaxCards
        /\ created' = created + 1
        /\ CodeCard(a, add.code, created + 1, s, None)
        /\ UNCHANGED <<naming, latest, dismissed, radio, results, todo, look, work, up,
                       removals, drops, forgotten>>

-----------------------------------------------------------------------------
(* What the user clicks: no await, so one step each. *)

(* start() *)
Start ==
    LET ready == Sifted([i \in Ids |-> i], {c \in Ids : cards[c].state = "ready"}) IN
    /\ cards' = [c \in Ids |-> IF cards[c].state = "ready"
                               THEN [cards[c] EXCEPT !.state = "queued"] ELSE cards[c]]
    /\ queue' = queue \o ready
    /\ stage' = [stage EXCEPT !["work"] = WorkerFor(queue')]
    /\ UNCHANGED <<created, naming, latest, dismissed, radio, results, todo, look, work,
                   adding, up, removals, drops, forgotten>>

(* force(), "try anyway". *)
ForceCard(c) ==
    /\ cards[c].state \in {"not_nearby", "failed"} /\ cards[c].code # None
    /\ cards' = [cards EXCEPT ![c].state = "queued", ![c].forced = TRUE]
    /\ queue' = Append(queue, c)
    /\ stage' = [stage EXCEPT !["work"] = WorkerFor(queue')]
    /\ UNCHANGED <<created, naming, latest, dismissed, radio, results, todo, look, work,
                   adding, up, removals, drops, forgotten>>

(* Mutant: only the running card's own button refuses to remove it. *)
RemovableAnyCard == {c \in Ids : cards[c].state # "none"}

(* The cards remove() and clear() may take: never the running one. *)
Removable == {c \in Ids : cards[c].state \notin {"none", "running"}}

(* Mutant: a removed card stays in the naming line. *)
RemoveCardsKeepLine(gone) ==
    /\ gone # {} /\ removals < MaxRemovals
    /\ removals' = removals + 1
    /\ cards' = [c \in Ids |-> IF c \in gone THEN NoCard ELSE cards[c]]
    /\ queue' = Sifted(queue, Ids \ gone)
    /\ dismissed' = dismissed \cup
         {cards[c].at : c \in {c \in gone : /\ cards[c].at # None
                                            /\ cards[c].state \notin {"naming", "done"}}}
    /\ UNCHANGED <<created, naming, latest, radio, results, stage, todo, look, work, adding, up,
                   drops, forgotten>>

(* remove() of one card, and clear() of all.  The device of a card that was *)
(* not commissioned yet is not shown again.                                 *)
RemoveCards(gone) ==
    /\ gone # {} /\ removals < MaxRemovals
    /\ removals' = removals + 1
    /\ cards' = [c \in Ids |-> IF c \in gone THEN NoCard ELSE cards[c]]
    /\ queue' = Sifted(queue, Ids \ gone)
    /\ naming' = Sifted(naming, Ids \ gone)
    /\ dismissed' = dismissed \cup
         {cards[c].at : c \in {c \in gone : /\ cards[c].at # None
                                            /\ cards[c].state \notin {"naming", "done"}}}
    /\ UNCHANGED <<created, latest, radio, results, stage, todo, look, work, adding, up,
                   drops, forgotten>>

RemoveOne == \E c \in Removable : RemoveCards({c})
Clear == RemoveCards(Removable)

(* confirm_name(), skip_name(), or its device was deleted. *)
LeaveNaming(c) ==
    /\ cards[c].state = "naming"
    /\ cards' = [cards EXCEPT ![c].state = "done", ![c].code = None]
    /\ naming' = Without(naming, c)
    /\ UNCHANGED <<created, queue, latest, dismissed, radio, results, stage, todo, look,
                   work, adding, up, removals, drops, forgotten>>

-----------------------------------------------------------------------------
(* The worker.  While matter-server is away it sleeps and looks again. *)

LinkDrops ==
    /\ up /\ drops < MaxDrops
    /\ up' = FALSE /\ drops' = drops + 1
    /\ UNCHANGED <<cards, created, queue, naming, latest, dismissed, radio, results, stage,
                   todo, look, work, adding, removals, forgotten>>

LinkReturns ==
    /\ ~up /\ up' = TRUE
    /\ UNCHANGED <<cards, created, queue, naming, latest, dismissed, radio, results, stage,
                   todo, look, work, adding, removals, drops, forgotten>>

Unseen(c, at) == at # None /\ ~cards[c].forced /\ at \notin latest

NotNearby(c) == Unseen(c, cards[c].at)

WorkerEnds ==
    /\ stage["work"] = "loop" /\ queue = <<>>
    /\ stage' = [stage EXCEPT !["work"] = "off"]
    /\ UNCHANGED <<cards, created, queue, naming, latest, dismissed, radio, results, todo,
                   look, work, adding, up, removals, drops, forgotten>>

Runnable(c) == cards[c].state = "queued" /\ cards[c].code # None

(* The head of the queue is no card to run, or its device is not nearby. *)
Skip ==
    LET c == Head(queue) IN
    /\ stage["work"] = "loop" /\ queue # <<>> /\ up
    /\ ~Runnable(c) \/ NotNearby(c)
    /\ queue' = Tail(queue)
    /\ cards' = IF Runnable(c) THEN [cards EXCEPT ![c].state = "not_nearby"] ELSE cards
    /\ UNCHANGED <<created, naming, latest, dismissed, radio, results, stage, todo, look,
                   work, adding, up, removals, drops, forgotten>>

ReleaseTo(s) ==
    /\ radio' = "free"
    /\ stage' = [stage EXCEPT !["work"] = s]
    /\ work' = NoWork

(* What follows _refresh_before(): the look at what it saw, and _run() up to *)
(* its first await.  The card may be gone by now; the queue is popped all    *)
(* the same, and the code's KeyError or IndexError ends the worker.          *)
RunOrSkip(c, at) ==
    LET card == cards[c] IN
    /\ queue' = IF queue = <<>> THEN queue ELSE Tail(queue)
    /\ \/ /\ queue = <<>> /\ ReleaseTo("off") /\ UNCHANGED cards
       \/ /\ queue # <<>> /\ Unseen(c, at) /\ ReleaseTo("loop")
          /\ cards' = IF card.state = "none" THEN cards
                      ELSE [cards EXCEPT ![c].state = "not_nearby"]
       \/ /\ queue # <<>> /\ ~Unseen(c, at) /\ card.code = None
          /\ ReleaseTo("off") /\ UNCHANGED cards
       \/ /\ queue # <<>> /\ ~Unseen(c, at) /\ card.code # None
          /\ radio' = "work"
          /\ work' = [card |-> c, at |-> at, code |-> card.code, again |-> FALSE]
          /\ stage' = [stage EXCEPT !["work"] = "commission"]
          /\ cards' = [cards EXCEPT ![c].state = "running", ![c].forced = FALSE]

(* The radio is the worker's.  A Bluetooth card gets a fresh scan first, *)
(* unless the last one has just ended.                                   *)
Claim(c) ==
    \/ /\ cards[c].code \notin OnNetwork
       /\ radio' = "work"
       /\ work' = [card |-> c, at |-> cards[c].at, code |-> cards[c].code, again |-> FALSE]
       /\ stage' = [stage EXCEPT !["work"] = "scanning"]
       /\ UNCHANGED <<cards, queue>>
    \/ RunOrSkip(c, cards[c].at)

(* The head of the queue can run: its turn, once no scan holds the radio. *)
Turn ==
    LET c == Head(queue) IN
    /\ stage["work"] = "loop" /\ queue # <<>> /\ up
    /\ Runnable(c) /\ ~NotNearby(c)
    /\ IF radio = "free" THEN Claim(c)
       ELSE /\ stage' = [stage EXCEPT !["work"] = "radio"]
            /\ work' = [NoWork EXCEPT !.card = c]
            /\ UNCHANGED <<cards, queue, radio>>
    /\ UNCHANGED <<created, naming, latest, dismissed, results, todo, look, adding, up,
                   removals, drops, forgotten>>

(* Mutant: return instead of continue. *)
GetRadioOrLeave ==
    LET c == work.card IN
    /\ stage["work"] = "radio" /\ radio = "free"
    /\ IF up /\ queue # <<>> /\ Head(queue) = c THEN Claim(c)
       ELSE ReleaseTo("off") /\ UNCHANGED <<cards, queue>>
    /\ UNCHANGED <<created, naming, latest, dismissed, results, todo, look, adding, up,
                   removals, drops, forgotten>>

(* Mutant: whose turn it is is not looked up again. *)
GetRadioUnchecked ==
    LET c == work.card IN
    /\ stage["work"] = "radio" /\ radio = "free"
    /\ IF up THEN Claim(c) ELSE ReleaseTo("loop") /\ UNCHANGED <<cards, queue>>
    /\ UNCHANGED <<created, naming, latest, dismissed, results, todo, look, adding, up,
                   removals, drops, forgotten>>

(* The radio is free.  The card may have been removed meanwhile, and *)
(* matter-server may have gone.                                      *)
GetRadio ==
    LET c == work.card IN
    /\ stage["work"] = "radio" /\ radio = "free"
    /\ IF up /\ queue # <<>> /\ Head(queue) = c THEN Claim(c)
       ELSE ReleaseTo("loop") /\ UNCHANGED <<cards, queue>>
    /\ UNCHANGED <<created, naming, latest, dismissed, results, todo, look, adding, up,
                   removals, drops, forgotten>>

(* The cards that pay for one that was removed during its scan: the next one *)
(* is popped in its place, and if that ends the worker, all are left.        *)
Displaced ==
    IF cards[work.card].state # "none" \/ work.code = None \/ queue = <<>> THEN {}
    ELSE IF Unseen(work.card, work.at) THEN {Head(queue)} ELSE ToSet(queue)

(* The scan before a card is over. *)
Refreshed ==
    /\ stage["work"] = "warning" /\ ~work.again
    /\ RunOrSkip(work.card, work.at)
    /\ forgotten' = forgotten \cup Displaced
    /\ UNCHANGED <<created, naming, latest, dismissed, results, todo, look, adding, up,
                   removals, drops>>

(* The first attempt lost its Bluetooth connection: one more scan, one more *)
(* attempt.                                                                 *)
ConnectionLost ==
    /\ stage["work"] = "commission" /\ ~work.again
    /\ cards[work.card].code \notin OnNetwork
    /\ work' = [work EXCEPT !.again = TRUE]
    /\ stage' = [stage EXCEPT !["work"] = "scanning"]
    /\ UNCHANGED <<cards, created, queue, naming, latest, dismissed, radio, results, todo,
                   look, adding, up, removals, drops, forgotten>>

TryAgain ==
    /\ stage["work"] = "warning" /\ work.again
    /\ stage' = [stage EXCEPT !["work"] = "commission"]
    /\ UNCHANGED <<cards, created, queue, naming, latest, dismissed, radio, results, todo,
                   look, work, adding, up, removals, drops, forgotten>>

CommissionFails ==
    /\ stage["work"] = "commission"
    /\ cards' = [cards EXCEPT ![work.card].state = "failed"]
    /\ stage' = [stage EXCEPT !["work"] = "ending"]
    /\ UNCHANGED <<created, queue, naming, latest, dismissed, radio, results, todo, look,
                   work, adding, up, removals, drops, forgotten>>

(* Mutant: the naming line holds the device, not the card. *)
CommissionedByAddress ==
    LET c == work.card
        twins == {f \in Ids : cards[f].state = "found" /\ cards[c].at = None}
    IN  /\ stage["work"] = "commission"
        /\ \E gone \in {{}} \cup {{f} : f \in twins}, named \in BOOLEAN :
             /\ cards' = [i \in Ids |->
                            IF i \in gone THEN NoCard
                            ELSE IF i # c THEN cards[i]
                            ELSE IF named THEN [cards[c] EXCEPT !.state = "done", !.code = None]
                            ELSE [cards[c] EXCEPT !.state = "naming"]]
             /\ naming' = IF named THEN naming ELSE Append(naming, cards[c].at)
        /\ stage' = [stage EXCEPT !["work"] = "ending"]
        /\ UNCHANGED <<created, queue, latest, dismissed, radio, results, todo, look, work,
                       adding, up, removals, drops, forgotten>>

(* The device is in the fabric and in the store.  _finish(): a card without  *)
(* an address takes the place of a card a scan found for the same product    *)
(* (_adopt); a named card is done, the others line up to be named.  A failed *)
(* rename or lookup ends in the naming line too.                             *)
Commissioned ==
    LET c == work.card
        twins == {f \in Ids : cards[f].state = "found" /\ cards[c].at = None}
    IN  /\ stage["work"] = "commission"
        /\ \E gone \in {{}} \cup {{f} : f \in twins}, named \in BOOLEAN :
             /\ cards' = [i \in Ids |->
                            IF i \in gone THEN NoCard
                            ELSE IF i # c THEN cards[i]
                            ELSE IF named THEN [cards[c] EXCEPT !.state = "done", !.code = None]
                            ELSE [cards[c] EXCEPT !.state = "naming"]]
             /\ naming' = IF named THEN naming ELSE Append(naming, c)
        /\ stage' = [stage EXCEPT !["work"] = "ending"]
        /\ UNCHANGED <<created, queue, latest, dismissed, radio, results, todo, look, work,
                       adding, up, removals, drops, forgotten>>

(* The device blinked, or did not; the monitor of a failed card has ended. *)
RunEnded ==
    /\ stage["work"] = "ending"
    /\ ReleaseTo("loop")
    /\ UNCHANGED <<cards, created, queue, naming, latest, dismissed, results, todo, look,
                   adding, up, removals, drops, forgotten>>

-----------------------------------------------------------------------------
(* Task t goes on until its next await: nobody else runs before that. *)
Goes(t) ==
    /\ loop \in {None, t}
    /\ loop' = IF \/ stage'[t] = "looking" /\ look'[t] = None
                  \/ t = "work" /\ stage'[t] = "loop" /\ (up \/ queue' = <<>>)
               THEN t ELSE None

TaskStep(t) ==
    \/ \E seen \in SUBSET Devices : ScanEnds(t, seen) /\ Goes(t)
    \/ ScanFails(t) /\ Goes(t)
    \/ TakeSnapshot(t) /\ Goes(t)
    \/ \E d \in Devices : TakeAdvert(t, d) /\ Goes(t)
    \/ Label(t) /\ Goes(t)
    \/ SnapshotTaken(t) /\ Goes(t)

ScanStep(t) == TaskStep(t) \/ (ScanDone(t) /\ Goes(t))

AdderStep(a) ==
    \/ TaskStep(a)
    \/ RestoredCard(a) /\ Goes(a)
    \/ RestoreRaises(a) /\ Goes(a)
    \/ NewCodeCard(a) /\ Goes(a)

WorkerStep ==
    \/ TaskStep("work")
    \/ WorkerEnds /\ Goes("work")
    \/ Skip /\ Goes("work")
    \/ Turn /\ Goes("work")
    \/ GetRadio /\ Goes("work")
    \/ Refreshed /\ Goes("work")
    \/ TryAgain /\ Goes("work")
    \/ ConnectionLost /\ Goes("work")
    \/ CommissionFails /\ Goes("work")
    \/ Commissioned /\ Goes("work")
    \/ RunEnded /\ Goes("work")

AtRest == loop = None /\ UNCHANGED loop

UserStep ==
    \/ \E t \in Scans : Scan(t) /\ AtRest
    \/ Start /\ AtRest
    \/ RemoveOne /\ AtRest
    \/ Clear /\ AtRest
    \/ \E c \in Ids : ForceCard(c) /\ AtRest
    \/ \E c \in Ids : LeaveNaming(c) /\ AtRest
    \/ \E a \in Adders, k \in Codes : loop = None /\ AddCode(a, k) /\ Goes(a)

LinkGoes == LinkDrops /\ AtRest
LinkComes == LinkReturns /\ AtRest

Next ==
    \/ WorkerStep
    \/ \E t \in Scans : ScanStep(t)
    \/ \E a \in Adders : AdderStep(a)
    \/ UserStep \/ LinkGoes \/ LinkComes

Spec == Init /\ [][Next]_vars

(* matter-server comes back, BlueZ and the device answer or time out, and the *)
(* event loop runs every task that is ready, in turn: strong fairness, since  *)
(* a task that holds the loop keeps the others from a step.  The clicks are   *)
(* the user's choice.                                                         *)
FairSpec ==
    /\ Spec
    /\ SF_vars(WorkerStep) /\ SF_vars(LinkComes)
    /\ \A t \in Scans : SF_vars(ScanStep(t))
    /\ \A a \in Adders : SF_vars(AdderStep(a))

-----------------------------------------------------------------------------
(* Every queued card has its place in the queue and a worker that comes to   *)
(* it: "a queued card nobody runs would wait forever" (_enqueue).  What the  *)
(* code breaks it with is excused: a card that stood in the place of one     *)
(* that was removed during the scan before its turn.                         *)
CardsAreServed ==
    \A c \in Ids \ forgotten :
        cards[c].state = "queued" => c \in ToSet(queue) /\ WorkerActive

(* The scans show a device once: a scan and a code that look up the label of *)
(* one advert at the same time make one card of it.                          *)
FoundOnce ==
    \A c, e \in Ids : /\ cards[c].state = "found" /\ cards[e].state = "found"
                      /\ cards[c].at = cards[e].at
                      => c = e

(* A card that follows its device to a new address keeps the device from     *)
(* being shown twice: without it "the scan would show the device as a        *)
(* second, new card" (_follow_new_address).                                  *)
OneCardPerDevice ==
    \A c, e \in Ids : cards[c].at = cards[e].at /\ cards[c].at # None => c = e

(* A code is on one card only: the docstring of CodeRejected promises 409    *)
(* for a duplicate.                                                          *)
CodeOnOneCard ==
    \A c, e \in Ids : cards[c].code = cards[e].code /\ cards[c].code # None => c = e

(* A card the user removed does not come back by itself while its device     *)
(* still advertises.                                                         *)
RemovedStaysAway == \A d \in dismissed : ~Known(d)

(* The naming line holds exactly the cards to be named, each once, whatever  *)
(* is confirmed, skipped and removed while the worker adds to its end.       *)
NamingLineExact ==
    /\ ToSet(naming) = {c \in Ids : cards[c].state = "naming"}
    /\ Cardinality(ToSet(naming)) = Len(naming)

(* A scan of the dialog and a commissioning never share the radio, and the   *)
(* radio is never left behind: who holds it is at work with it.              *)
RadioHeldByWork ==
    /\ \A t \in Scans : radio = t <=> stage[t] = "scanning"
    /\ radio = "work" <=> stage["work"] \notin {"off", "loop", "radio"}

(* A card that is being commissioned leaves that state by the worker only:   *)
(* a click never takes it away from under the worker.                        *)
RunningIsTheWorkers ==
    [][\A c \in Ids : cards[c].state = "running" /\ cards'[c] # cards[c]
                      => c = work.card /\ stage["work"] # stage'["work"]]_vars

(* A queued card is commissioned, fails, is found not to be nearby or is     *)
(* removed in the end, but for those same cards.                             *)
CardsAreTried ==
    \A c \in Ids : cards[c].state = "queued" ~> cards[c].state # "queued" \/ c \in forgotten

(* All of the above that holds in every state, removals or not: cards,      *)
(* naming line, radio and codes agree (CommissioningSession).               *)
SessionSafe == TypeOK /\ NamingLineExact /\ RadioHeldByWork /\ FoundOnce

=============================================================================
