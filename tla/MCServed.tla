------------------------------- MODULE MCServed -------------------------------
(***************************************************************************)
(* What must happen in the end on the way to and from Loxone and to the    *)
(* pages that watch: events and their pulses, requests at the command      *)
(* gate, lines for the pages.  A behaviour runs one of them, which is      *)
(* chosen at the start.                                                    *)
(***************************************************************************)
EXTENDS MCRuntimeEvents, TLC

CONSTANTS
    level, colour, Slots, Shapes, Slotless, MaxRequests, MaxCalls, MaxCancels, MaxGone, WaitBound, MinInterval,
    Pages, Viewers, QueueSize, RingSize, SnapshotLimit, MaxEntries

\* A colour value, which sets the level with strength 2.
MCSlots == {level, colour}
MCShapes == {(level :> 2) @@ (colour :> 1)}

VARIABLES
    part,
    handed, shape, calls, outcome, gone, lane, home, waiting, worker, running, paced, idle,
    silence, rested, cancels,
    wrote, observing, ring, emitting, page, fresh, ready, awake, outbox, sending, put, doubled

gateVars == <<handed, shape, calls, outcome, gone, lane, home, waiting, worker, running,
              paced, idle, silence, rested, cancels>>

streamVars == <<wrote, observing, ring, emitting, page, fresh, ready, awake, outbox,
                sending, put, doubled>>

Gate == INSTANCE CommandGate
Streams == INSTANCE Streams

servedVars == <<part, vars, gateVars, streamVars>>

ServedInit ==
    /\ part \in {"events", "gate", "streams"}
    /\ Init /\ Gate!Init /\ Streams!StreamsInit

Resting(p) ==
    /\ p # "events" => UNCHANGED vars
    /\ p # "gate" => UNCHANGED gateVars
    /\ p # "streams" => UNCHANGED streamVars
    /\ UNCHANGED part

ServedNext ==
    \/ part = "events" /\ Next /\ Resting("events")
    \/ part = "gate" /\ Gate!Next /\ Resting("gate")
    \/ part = "streams" /\ Streams!StreamsNext /\ Resting("streams")

\* The fairness of each part, as its module states it.
EventsFair ==
    /\ \A s \in Sources : WF_vars(part = "events" /\ Handling(s))
    /\ \A p \in Pulses : WF_vars(part = "events" /\ Pulsing(p))
    /\ \A r \in Resenders : WF_vars(part = "events" /\ Resending(r))
    /\ WF_vars(part = "events" /\ BeatSent) /\ WF_vars(part = "events" /\ Stopping)
    /\ WF_vars(part = "events" /\ FinishClose)

GateFair ==
    /\ \A l \in Gate!Requests :
         /\ WF_gateVars(part = "gate" /\ Gate!Wake(l))
         /\ WF_gateVars(part = "gate" /\ (Gate!NextCall(l) \/ Gate!Finish(l) \/ Gate!CallFails(l)))
    /\ \A r \in Gate!Requests : WF_gateVars(part = "gate" /\ Gate!Expire(r))
    /\ WF_gateVars(part = "gate" /\ Gate!Tick)

StreamsFair ==
    /\ WF_streamVars(part = "streams" /\ Streams!ThreadCopies)
    /\ WF_streamVars(part = "streams" /\ Streams!LoopCalls)
    /\ \A c \in Streams!Sockets :
         /\ WF_streamVars(part = "streams" /\ Streams!ThreadCalls(c))
         /\ WF_streamVars(part = "streams" /\ Streams!PumpTakes(c))
         /\ WF_streamVars(part = "streams" /\ Streams!PageRegisters(c))

ServedSpec ==
    /\ ServedInit /\ [][ServedNext]_servedVars
    /\ EventsFair /\ GateFair /\ StreamsFair

\* Every request handed to the gate is answered in the end (coalesce.py).
RequestsAreAnswered == Gate!EveryRequestAnswered

\* A line a thread logs reaches the queue of every page that watches, and what
\* is in a queue is sent (api/diagnostics_live.py, api/streaming.py).
LinesArrive == Streams!LinesArrive
=============================================================================
