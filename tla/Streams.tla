------------------------------- MODULE Streams -------------------------------
(***************************************************************************)
(* The pages that watch the bridge: /api/live shows every value the        *)
(* runtime hands out, /api/diagnostics/live the rings of commands,         *)
(* datagrams and log lines.  A page is one WebSocket with a bounded queue  *)
(* of its own (api/streaming.py): observers put into it, a pump sends.     *)
(*                                                                         *)
(* All of it runs in the event loop except the log: LogBufferHandler.emit  *)
(* runs in the thread that logs, under the handler's lock, and can fall    *)
(* between any two statements of a page that opens.  It appends to the     *)
(* ring, copies the list of observers and calls them; the page's observer  *)
(* hands the line to the loop with call_soon_threadsafe (`ready`), which   *)
(* also wakes a loop that sleeps in its selector.                          *)
(*                                                                         *)
(* Entries are numbers in the order they were written.  Datagrams and      *)
(* commands take the same path and are one kind, "command".                *)
(***************************************************************************)
EXTENDS Naturals, Sequences, FiniteSets, SequencesExt

CONSTANTS
    Pages,          \* connections to /api/diagnostics/live, each used once
    Viewers,        \* connections to /api/live, each used once
    QueueSize,      \* QUEUE_MAXSIZE
    RingSize,       \* DATAGRAM_LOG_SIZE, LOG_BUFFER_SIZE
    SnapshotLimit,  \* SNAPSHOT_LIMIT
    MaxEntries      \* bound: entries of all kinds ever written

ASSUME StreamsAssumption ==
    /\ QueueSize \in Nat \ {0} /\ RingSize \in Nat \ {0}
    /\ SnapshotLimit \in Nat \ {0} /\ SnapshotLimit <= RingSize
    /\ Pages \cap Viewers = {} /\ IsFiniteSet(Pages \cup Viewers) /\ MaxEntries \in Nat

VARIABLES
    wrote,      \* the kinds of all entries so far, in order
    observing,  \* [kind -> the connections whose observer is registered]
    ring,       \* [kind -> the entries its ring holds]
    emitting,   \* the line a foreign thread is in emit() with
    page,       \* where each connection is
    fresh,      \* [connection -> the first entry written after it was registered]
    ready,      \* the loop's callbacks: puts handed over by on_log
    awake,      \* the loop is not in its selector
    outbox,     \* BoundedQueue of each connection
    sending,    \* what its pump has taken and not yet sent; 0: nothing
    put,        \* history: all that was put into its queue
    doubled     \* history: the line that was being emitted while it registered

streamVars == <<wrote, observing, ring, emitting, page, fresh, ready, awake, outbox,
                sending, put, doubled>>

Sockets == Pages \cup Viewers
ListKinds == {"value", "command", "log"}
Watches(c) == IF c \in Pages THEN {"command", "log"} ELSE {"value"}

\* Where a line is on its way through emit(): written into the ring, the list
\* of observers copied, calling them.
Silent == [line |-> 0, at |-> "idle", left |-> {}]

written == Len(wrote)
Observers(k) == observing[k]

\* No handler runs between the snapshot of a page and its registration.
LoopFree == \A c \in Pages : page[c] # "snapshot"

Newest(s, n) == SubSeq(s, IF Len(s) > n THEN Len(s) - n + 1 ELSE 1, Len(s))

StreamsInit ==
    /\ wrote = <<>> /\ observing = [k \in ListKinds |-> {}] /\ ring = [k \in ListKinds |-> <<>>] /\ emitting = Silent
    /\ page = [c \in Sockets |-> "closed"] /\ fresh = [c \in Sockets |-> 0]
    /\ ready = <<>> /\ awake = FALSE
    /\ outbox = [c \in Sockets |-> <<>>] /\ sending = [c \in Sockets |-> 0]
    /\ put = [c \in Sockets |-> <<>>]
    /\ doubled = [c \in Sockets |-> 0]

-----------------------------------------------------------------------------
(* The queue. *)

\* Mutant: a full queue refuses the new entry.
RoomRefused(q, n) == IF Len(q) >= QueueSize THEN q ELSE Append(q, n)

\* BoundedQueue.put: a full queue loses its oldest entry, never the new one.
Room(q, n) == Append(IF Len(q) >= QueueSize THEN Tail(q) ELSE q, n)

Puts(cs, n) ==
    /\ outbox' = [c \in Sockets |-> IF c \in cs THEN Room(outbox[c], n) ELSE outbox[c]]
    /\ put' = [c \in Sockets |-> IF c \in cs THEN Append(put[c], n) ELSE put[c]]

-----------------------------------------------------------------------------
(* The writers. *)

\* RingBuffer.append
Kept(k, n) == ring' = [ring EXCEPT ![k] = Newest(Append(@, n), RingSize)]

\* A command is recorded, a datagram sent, a value handed to the observers of
\* the runtime: in the loop, so that nothing can come between.
LoopWrites(k) ==
    /\ k # "log" /\ LoopFree /\ written < MaxEntries
    /\ wrote' = Append(wrote, k) /\ awake' = TRUE
    /\ IF k = "value" THEN UNCHANGED ring ELSE Kept(k, written + 1)
    /\ Puts(Observers(k), written + 1)
    /\ UNCHANGED <<observing, emitting, page, fresh, ready, sending, doubled>>

\* LogBufferHandler.emit, in a thread that holds the handler's lock.
ThreadLogs ==
    /\ emitting = Silent /\ written < MaxEntries
    /\ wrote' = Append(wrote, "log") /\ Kept("log", written + 1)
    /\ emitting' = [line |-> written + 1, at |-> "kept", left |-> {}]
    /\ UNCHANGED <<observing, page, fresh, ready, awake, outbox, sending, put, doubled>>

ThreadCopies ==
    /\ emitting.at = "kept"
    /\ emitting' = IF Observers("log") = {} THEN Silent
                   ELSE [emitting EXCEPT !.at = "calling", !.left = Observers("log")]
    /\ UNCHANGED <<wrote, observing, ring, page, fresh, ready, awake, outbox, sending, put, doubled>>

\* Mutant: on_log calls queue.put itself, which wakes nobody.
HandsDirectly(c, n) ==
    /\ Puts({c}, n)
    /\ UNCHANGED <<ready, awake>>

\* on_log: the loop does the put, and is woken for it.
Hands(c, n) ==
    /\ ready' = Append(ready, <<c, n>>) /\ awake' = TRUE
    /\ UNCHANGED <<outbox, put>>

ThreadCalls(c) ==
    /\ emitting.at = "calling" /\ c \in emitting.left
    /\ emitting' = IF emitting.left = {c} THEN Silent ELSE [emitting EXCEPT !.left = @ \ {c}]
    /\ Hands(c, emitting.line)
    /\ UNCHANGED <<wrote, observing, ring, page, fresh, sending, doubled>>

\* The loop logs itself: it waits for the lock and then runs emit() through.
LoopLogs ==
    /\ LoopFree /\ emitting = Silent /\ written < MaxEntries
    /\ wrote' = Append(wrote, "log") /\ Kept("log", written + 1)
    /\ ready' = ready \o SetToSeq({<<c, written + 1>> : c \in Observers("log")})
    /\ awake' = TRUE
    /\ UNCHANGED <<observing, emitting, page, fresh, outbox, sending, put, doubled>>

-----------------------------------------------------------------------------
(* A connection. *)

Registers(c) == observing' = [k \in ListKinds |->
                                IF k \in Watches(c) THEN observing[k] \cup {c} ELSE observing[k]]

Unregisters(c) == observing' = [k \in ListKinds |-> observing[k] \ {c}]

\* /api/live: accepted, registered, its two tasks started.
ViewerOpens(c) ==
    /\ c \in Viewers /\ page[c] = "closed" /\ LoopFree
    /\ page' = [page EXCEPT ![c] = "open"] /\ fresh' = [fresh EXCEPT ![c] = written + 1]
    /\ Registers(c)
    /\ awake' = TRUE
    /\ UNCHANGED <<wrote, ring, emitting, ready, outbox, sending, put, doubled>>

\* /api/diagnostics/live: the last entries of each ring are put one by one, so
\* that a queue that is too short keeps the newest of them; those of the log
\* through the loop's callbacks like every other line.
PageSnaps(c) ==
    /\ c \in Pages /\ page[c] = "closed" /\ LoopFree
    /\ page' = [page EXCEPT ![c] = "snapshot"]
    /\ LET commands == Newest(ring["command"], SnapshotLimit)
           lines == Newest(ring["log"], SnapshotLimit)
       IN /\ outbox' = [outbox EXCEPT ![c] = Newest(@ \o commands, QueueSize)]
          /\ put' = [put EXCEPT ![c] = commands]
          /\ ready' = ready \o [i \in DOMAIN lines |-> <<c, lines[i]>>]
    /\ awake' = TRUE
    /\ UNCHANGED <<wrote, observing, ring, emitting, fresh, sending, doubled>>

PageRegisters(c) ==
    /\ page[c] = "snapshot"
    /\ page' = [page EXCEPT ![c] = "open"] /\ fresh' = [fresh EXCEPT ![c] = written + 1]
    /\ Registers(c)
    /\ doubled' = [doubled EXCEPT ![c] = IF emitting.at = "kept" THEN emitting.line ELSE 0]
    /\ UNCHANGED <<wrote, ring, emitting, ready, awake, outbox, sending, put>>

\* send_loop
PumpTakes(c) ==
    /\ awake /\ LoopFree /\ page[c] = "open" /\ sending[c] = 0 /\ outbox[c] # <<>>
    /\ sending' = [sending EXCEPT ![c] = Head(outbox[c])]
    /\ outbox' = [outbox EXCEPT ![c] = Tail(@)]
    /\ UNCHANGED <<wrote, observing, ring, emitting, page, fresh, ready, awake, put, doubled>>

PumpSends(c) ==
    /\ LoopFree /\ page[c] = "open" /\ sending[c] # 0
    /\ sending' = [sending EXCEPT ![c] = 0] /\ awake' = TRUE
    /\ UNCHANGED <<wrote, observing, ring, emitting, page, fresh, ready, outbox, put, doubled>>

\* The browser is gone: the watcher raises, or a send fails; the other task
\* is cancelled, with what it was sending.
Leaves(c) ==
    /\ LoopFree /\ page[c] = "open"
    /\ page' = [page EXCEPT ![c] = "leaving"] /\ sending' = [sending EXCEPT ![c] = 0]
    /\ awake' = TRUE
    /\ UNCHANGED <<wrote, observing, ring, emitting, fresh, ready, outbox, put, doubled>>

\* The finally: every observer of the connection is deregistered.
Deregisters(c) ==
    /\ LoopFree /\ page[c] = "leaving"
    /\ page' = [page EXCEPT ![c] = "gone"]
    /\ Unregisters(c)
    /\ UNCHANGED <<wrote, ring, emitting, fresh, ready, awake, outbox, sending, put, doubled>>

-----------------------------------------------------------------------------
(* The loop. *)

LoopCalls ==
    /\ awake /\ LoopFree /\ ready # <<>>
    /\ ready' = Tail(ready) /\ Puts({Head(ready)[1]}, Head(ready)[2])
    /\ UNCHANGED <<wrote, observing, ring, emitting, page, fresh, awake, sending, doubled>>

\* Nothing to call and nobody to resume: the loop waits in its selector.
LoopSleeps ==
    /\ awake /\ LoopFree /\ ready = <<>>
    /\ \A c \in Sockets : page[c] = "leaving" \/ (page[c] = "open" /\ sending[c] = 0) =>
                              page[c] = "open" /\ outbox[c] = <<>>
    /\ awake' = FALSE
    /\ UNCHANGED <<wrote, observing, ring, emitting, page, fresh, ready, outbox, sending, put, doubled>>

StreamsNext ==
    \/ ThreadLogs \/ ThreadCopies \/ LoopLogs \/ LoopCalls \/ LoopSleeps
    \/ \E k \in ListKinds : LoopWrites(k)
    \/ \E c \in Sockets : ThreadCalls(c) \/ ViewerOpens(c) \/ PageSnaps(c) \/ PageRegisters(c)
                          \/ PumpTakes(c) \/ PumpSends(c) \/ Leaves(c) \/ Deregisters(c)

StreamsSpec == StreamsInit /\ [][StreamsNext]_streamVars

\* Threads and the loop keep running; neither browsers nor writers owe anything.
StreamsFair ==
    /\ WF_streamVars(ThreadCopies) /\ WF_streamVars(LoopCalls)
    /\ \A c \in Sockets : WF_streamVars(ThreadCalls(c)) /\ WF_streamVars(PumpTakes(c))
                          /\ WF_streamVars(PageRegisters(c))

-----------------------------------------------------------------------------
(* Correctness. *)

StreamsTypeOK ==
    /\ wrote \in Seq(ListKinds) /\ written <= MaxEntries
    /\ observing \in [ListKinds -> SUBSET Sockets]
    /\ emitting.line \in 0..written /\ emitting.at \in {"idle", "kept", "calling"}
    /\ page \in [Sockets -> {"closed", "snapshot", "open", "leaving", "gone"}]
    /\ \A c \in Sockets : Len(outbox[c]) <= QueueSize /\ sending[c] \in 0..written

\* What a connection was given of one kind comes in the order it was written,
\* and nothing comes twice - but for the line that was between its ring and
\* its observers in another thread while the page registered.
GivenInOrder ==
    \A c \in Sockets : \A i, j \in DOMAIN put[c] :
        i < j /\ wrote[put[c][i]] = wrote[put[c][j]] =>
            put[c][i] < put[c][j] \/ (put[c][i] = put[c][j] /\ put[c][i] = doubled[c])

\* A registered connection misses nothing written since: it was put into the
\* queue, or the loop has it to put, or the thread that logs is on its way.
NothingSkipped ==
    \A c \in Sockets : page[c] = "open" =>
        \A n \in fresh[c]..written : wrote[n] \in Watches(c) =>
            \/ Contains(put[c], n) \/ Contains(ready, <<c, n>>)
            \/ emitting.line = n /\ (emitting.at = "kept" \/ c \in emitting.left)

\* A slow browser loses the oldest: its queue always ends with the entry put
\* last, and holds those put last.
NewestQueued ==
    \A c \in Sockets : IsSuffix(outbox[c], put[c])

\* A ring holds the last entries of its kind, each once, in the order they
\* were written (RingBuffer): what is missing is older than all it holds.
RingsKeepTheNewest ==
    \A k \in {"command", "log"} :
        /\ Len(ring[k]) <= RingSize
        /\ \A i \in DOMAIN ring[k] : ring[k][i] \in 1..written /\ wrote[ring[k][i]] = k
        /\ \A i, j \in DOMAIN ring[k] : i < j => ring[k][i] < ring[k][j]
        /\ \A n \in 1..written : wrote[n] = k =>
              \/ Contains(ring[k], n)
              \/ Len(ring[k]) = RingSize /\ n < Head(ring[k])

\* An observer is registered exactly as long as its connection is served.
NoObserverLeft ==
    \A c \in Sockets : \A k \in Watches(c) :
        c \in observing[k] <=> page[c] \in {"open", "leaving"}

\* The pages: order and completeness of what they are given, the bound of
\* their queues, the rings, and no observer that outlives its connection.
StreamsSafe ==
    /\ StreamsTypeOK /\ GivenInOrder /\ NothingSkipped /\ NewestQueued
    /\ RingsKeepTheNewest /\ NoObserverLeft

\* What the docstring of api/diagnostics_live.py says of the order of snapshot
\* and registration: an entry of that window is lost rather than shown twice.
NeverTwice ==
    \A c \in Pages : \A i, j \in DOMAIN put[c] : put[c][i] = put[c][j] => i = j

\* A line that another thread logs reaches the queue of every page that is
\* registered, and a queue with something in it is taken up: also when nothing
\* else keeps the loop awake (call_soon_threadsafe).
LinesArrive ==
    \A c \in Pages :
        /\ \A n \in 1..MaxEntries :
               emitting.line = n /\ c \in emitting.left ~> Contains(put[c], n)
        /\ outbox[c] # <<>> /\ page[c] = "open" ~> sending[c] # 0 \/ page[c] # "open"
=============================================================================
