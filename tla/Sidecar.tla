------------------------------- MODULE Sidecar -------------------------------
(***************************************************************************)
(* The mailbox between the bridge and the updater container (update.py,    *)
(* radios/sidecar.py, radios/thread_lockout.py and the shell scripts under *)
(* deploy/updater): files of one shared volume and nothing else.  The      *)
(* bridge's handlers never wait between two file accesses, so one of them  *)
(* is under way at most; the container works between any two of its reads. *)
(***************************************************************************)
EXTENDS Naturals, FiniteSets

CONSTANTS
    Plugs,         \* the serial sticks that are plugged in
    NoPlug,
    MaxJobs,       \* bound: requests ever written
    MaxKills,      \* bound: ends of the container without its trap
    MaxResets      \* bound: times somebody deletes state.json

ASSUME SidecarAssumption ==
    NoPlug \notin Plugs /\ {MaxJobs, MaxKills, MaxResets} \subseteq Nat

JobIds == 1..MaxJobs
SidecarRunning == {"queued", "working", "rollback"}
RadiosRunning == {"validate", "write", "verify", "rollback"}

VARIABLES
    request,       \* request.json: the id in it, 0 for no file
    state,         \* state.json: its id and phase
    handled,       \* handled/: markers of accepted updates
    radioRequest,  \* radios-request.json: its id and the stick Thread shall use
    radioState,    \* radios-state.json: its id, phase and reported stick
    radioHandled,  \* radios-handled/
    freshDigest,         \* the heartbeat of both state files is at most 30 s old
    envStick,      \* the stick in the stack's .env, which Thread uses
    backup,        \* ... and in the copy a radios job made of it
    zigbeeStick,   \* zigbee_settings: the stick stored for Zigbee
    call,          \* the bridge's handler and what it has read
    worker,        \* where the container's loop stands
    job,           \* radios-once.sh: the request it works on
    next,          \* the next id (uuid4)
    given,         \* history: ids a caller was answered with
    looked,        \* history: ids the container has judged
    finished,      \* history: accepted updates that ended
    replayed,      \* history: one of those was started again
    torn,          \* history: a stick was chosen while a change of the radios ran
    kills, resets  \* history: used up of the bounds

fileVars == <<request, state, handled, radioRequest, radioState, radioHandled, freshDigest>>
sideHistory == <<given, looked, finished, replayed, torn, kills, resets>>
sidecarVars == <<fileVars, envStick, backup, zigbeeStick, call, worker, job, next, sideHistory>>

\* Where a pass of radios-once.sh stands after its marker.
RadiosAt == {"marked", "validate", "write", "verify", "restored"}

NoCall == [kind |-> "none", seen |-> 0, stick |-> NoPlug, waited |-> FALSE]

SidecarTypeOK ==
    /\ request \in 0..MaxJobs /\ handled \subseteq JobIds /\ radioHandled \subseteq JobIds
    /\ state \in [id : 0..MaxJobs, phase : SidecarRunning \cup {"idle", "done", "failed", "rejected"}]
    /\ radioRequest \in [id : 0..MaxJobs, stick : Plugs \cup {NoPlug}]
    /\ radioState \in [id : 0..MaxJobs, stick : Plugs \cup {NoPlug},
                       phase : RadiosRunning \cup {"idle", "done", "failed", "rejected", "unchanged"}]
    /\ freshDigest \in BOOLEAN /\ {envStick, backup, zigbeeStick} \subseteq Plugs \cup {NoPlug}
    /\ call.kind \in {"none", "apply", "radios", "radios2", "zigbee"} /\ call.seen \in 0..MaxJobs
    /\ worker \in {"down", "update", "queued", "working", "recreated", "rollback", "radios",
                   "marked", "validate", "write", "verify", "restored"}

SidecarInit ==
    /\ request = 0 /\ state = [id |-> 0, phase |-> "idle"] /\ handled = {}
    /\ radioRequest = [id |-> 0, stick |-> NoPlug]
    /\ radioState = [id |-> 0, phase |-> "idle", stick |-> NoPlug] /\ radioHandled = {}
    /\ freshDigest = FALSE /\ envStick = NoPlug /\ backup = NoPlug /\ zigbeeStick = NoPlug
    /\ call = NoCall /\ worker = "update" /\ next = 1 /\ job = [id |-> 0, stick |-> NoPlug]
    /\ given = {} /\ looked = {} /\ finished = {} /\ replayed = FALSE /\ torn = FALSE
    /\ kills = 0 /\ resets = 0

(* Mutant: a new request replaces whatever the mailbox holds. *)
RequestNeverWaits(id, seen, marked) == FALSE

(* _pending_job_id and _pending: a request whose id neither the state that  *)
(* was read nor a marker knows.                                             *)
RequestWaits(id, seen, marked) == id # 0 /\ id # seen /\ id \notin marked

(* apply: the heartbeat is recent, and request_update reads a state that is *)
(* no running one.  Anything else is answered 503 or 409.                   *)
ApplyReads ==
    /\ call = NoCall /\ next <= MaxJobs /\ freshDigest /\ state.phase \notin SidecarRunning
    /\ call' = [NoCall EXCEPT !.kind = "apply", !.seen = state.id]
    /\ UNCHANGED <<fileVars, envStick, backup, zigbeeStick, worker, next, sideHistory, job>>

(* Then it looks for a request in the mailbox and its marker, and replaces  *)
(* the file.                                                                *)
ApplyWrites ==
    /\ call.kind = "apply" /\ call' = NoCall
    /\ IF RequestWaits(request, call.seen, handled) THEN UNCHANGED <<request, next, given, job>>
       ELSE request' = next /\ next' = next + 1 /\ given' = given \cup {next}
    /\ UNCHANGED <<state, handled, radioRequest, radioState, radioHandled, freshDigest, envStick,
                   backup, zigbeeStick, worker, looked, finished, replayed, torn, kills, resets, job>>

(* post_radios: no stick that Zigbee is set up with, and no update that runs. *)
RadiosReads ==
    /\ call = NoCall /\ next <= MaxJobs /\ freshDigest /\ state.phase \notin SidecarRunning
    /\ \E p \in (Plugs \ {zigbeeStick}) \cup {NoPlug} :
         call' = [NoCall EXCEPT !.kind = "radios", !.stick = p]
    /\ UNCHANGED <<fileVars, envStick, backup, zigbeeStick, worker, next, sideHistory, job>>

RadiosReadsState ==
    /\ call.kind = "radios"
    /\ call' = IF radioState.phase \in RadiosRunning THEN NoCall
               ELSE [call EXCEPT !.kind = "radios2", !.seen = radioState.id]
    /\ UNCHANGED <<fileVars, envStick, backup, zigbeeStick, worker, next, sideHistory, job>>

RadiosWrites ==
    /\ call.kind = "radios2" /\ call' = NoCall
    /\ IF RequestWaits(radioRequest.id, call.seen, radioHandled)
       THEN UNCHANGED <<radioRequest, next, given, job>>
       ELSE /\ radioRequest' = [id |-> next, stick |-> call.stick]
            /\ next' = next + 1 /\ given' = given \cup {next}
    /\ UNCHANGED <<request, state, handled, radioState, radioHandled, freshDigest, envStick, backup,
                   zigbeeStick, worker, looked, finished, replayed, torn, kills, resets, job>>

(* put_zigbee_radio: read_thread_stick reads the report first; it must be   *)
(* recent, with no change running, and not name this stick.                 *)
ZigbeeReads ==
    /\ call = NoCall /\ freshDigest /\ radioState.phase \notin RadiosRunning
    /\ \E p \in (Plugs \ {radioState.stick, zigbeeStick}) \cup {NoPlug} :
         call' = [kind |-> "zigbee", seen |-> radioState.id, stick |-> p,
                   waited |-> worker \in RadiosAt \/ RequestWaits(radioRequest.id, radioState.id, radioHandled)]
    /\ UNCHANGED <<fileVars, envStick, backup, zigbeeStick, worker, next, sideHistory, job>>

(* ... then whether a change waits, and saves.  Choosing no stick asks      *)
(* neither.                                                                 *)
ZigbeeSaves ==
    /\ call.kind = "zigbee" /\ call' = NoCall
    /\ IF call.stick # NoPlug /\ RequestWaits(radioRequest.id, call.seen, radioHandled)
       THEN UNCHANGED <<zigbeeStick, torn, job>>
       ELSE /\ zigbeeStick' = call.stick
            /\ torn' = (torn \/ (call.stick # NoPlug /\ (call.waited \/ worker \in RadiosAt)))
    /\ UNCHANGED <<fileVars, envStick, backup, worker, next, given, looked, finished, replayed,
                   kills, resets, job>>
-----------------------------------------------------------------------------
New(id, current, marked) == id # 0 /\ id # current /\ id \notin marked

(* The top of update-once.sh: a heartbeat, and the request if it is new.    *)
NoUpdate ==
    /\ worker = "update" /\ ~New(request, state.id, handled)
    /\ freshDigest' = TRUE /\ worker' = "radios"
    /\ UNCHANGED <<request, state, handled, radioRequest, radioState, radioHandled, envStick,
                   backup, zigbeeStick, call, next, sideHistory, job>>

(* It is judged: rejected, which leaves no marker, ...                      *)
Rejects ==
    /\ worker = "update" /\ New(request, state.id, handled)
    /\ freshDigest' = TRUE /\ worker' = "radios"
    /\ state' = [id |-> request, phase |-> "rejected"] /\ looked' = looked \cup {request}
    /\ UNCHANGED <<request, handled, radioRequest, radioState, radioHandled, envStick, backup,
                   zigbeeStick, call, next, given, finished, replayed, torn, kills, resets, job>>

(* ... or accepted, ...                                                     *)
Accepts ==
    /\ worker = "update" /\ New(request, state.id, handled)
    /\ freshDigest' = TRUE /\ worker' = "queued"
    /\ state' = [id |-> request, phase |-> "queued"] /\ looked' = looked \cup {request}
    /\ replayed' = (replayed \/ request \in finished)
    /\ UNCHANGED <<request, handled, radioRequest, radioState, radioHandled, envStick, backup,
                   zigbeeStick, call, next, given, finished, torn, kills, resets, job>>

(* Mutant: the marker is written for a rejection's sake only. *)
MarksNothing ==
    /\ worker = "queued" /\ worker' = "working"
    /\ state' = [state EXCEPT !.phase = "working"]
    /\ UNCHANGED <<request, handled, radioRequest, radioState, radioHandled, freshDigest, envStick, backup,
                   zigbeeStick, call, next, sideHistory, job>>

(* ... with its marker before any work.                                     *)
Marks ==
    /\ worker = "queued" /\ worker' = "working"
    /\ handled' = handled \cup {state.id} /\ state' = [state EXCEPT !.phase = "working"]
    /\ UNCHANGED <<request, radioRequest, radioState, radioHandled, freshDigest, envStick, backup,
                   zigbeeStick, call, next, sideHistory, job>>

Ended(phase) ==
    /\ state' = [state EXCEPT !.phase = phase] /\ finished' = finished \cup {state.id}
    /\ worker' = "radios"

(* Fetch, backup, checkout, tag, image: each may fail, and a dev target is  *)
(* judged here only.                                                        *)
UpdateFails ==
    /\ worker \in {"working", "rollback"}
    /\ Ended("failed") \/ (worker = "working" /\ Ended("rejected"))
    /\ UNCHANGED <<request, handled, radioRequest, radioState, radioHandled, freshDigest, envStick, backup,
                   zigbeeStick, call, next, given, looked, replayed, torn, kills, resets, job>>

(* The container of the bridge is replaced: its handler is gone.            *)
Recreates ==
    /\ worker = "working" /\ worker' = "recreated" /\ call' = NoCall
    /\ UNCHANGED <<fileVars, envStick, backup, zigbeeStick, next, sideHistory, job>>

Healthy ==
    /\ worker = "recreated" /\ Ended("done")
    /\ UNCHANGED <<request, handled, radioRequest, radioState, radioHandled, freshDigest, envStick, backup,
                   zigbeeStick, call, next, given, looked, replayed, torn, kills, resets, job>>

(* Not healthy in time: the older image is started, and the bridge with it. *)
RollsBackUpdate ==
    /\ worker = "recreated" /\ worker' = "rollback" /\ call' = NoCall
    /\ state' = [state EXCEPT !.phase = "rollback"]
    /\ UNCHANGED <<request, handled, radioRequest, radioState, radioHandled, freshDigest, envStick, backup,
                   zigbeeStick, next, sideHistory, job>>
-----------------------------------------------------------------------------
Reported(id, phase) == radioState' = [id |-> id, phase |-> phase, stick |-> envStick']

(* The top of radios-once.sh: a phase that is not final belongs to a pass   *)
(* that died; the report is written anew.  With nothing new, or while an    *)
(* update is in a running phase, that is all.                               *)
Healed == IF radioState.phase \in RadiosRunning THEN "failed" ELSE radioState.phase

NoRadios ==
    /\ worker = "radios"
    /\ ~New(radioRequest.id, radioState.id, radioHandled) \/ state.phase \in SidecarRunning
    /\ UNCHANGED envStick /\ Reported(radioState.id, Healed)
    /\ freshDigest' = TRUE /\ worker' = "update"
    /\ UNCHANGED <<request, state, handled, radioRequest, radioHandled, backup, zigbeeStick, call,
                   next, sideHistory, job>>

(* A new request: the marker comes first, ...                               *)
RadiosMarks ==
    /\ worker = "radios" /\ New(radioRequest.id, radioState.id, radioHandled)
    /\ state.phase \notin SidecarRunning
    /\ UNCHANGED envStick /\ Reported(radioState.id, Healed)
    /\ radioHandled' = radioHandled \cup {radioRequest.id} /\ looked' = looked \cup {radioRequest.id}
    /\ freshDigest' = TRUE /\ worker' = "marked" /\ job' = radioRequest
    /\ UNCHANGED <<request, state, handled, radioRequest, backup, zigbeeStick, call, next, given,
                   finished, replayed, torn, kills, resets>>

RadiosMoves(from, to, phase) ==
    /\ worker = from /\ worker' = to /\ Reported(job.id, phase)
    /\ UNCHANGED <<request, state, handled, radioRequest, radioHandled, freshDigest, zigbeeStick, call,
                   job, next, sideHistory>>

(* ... then the phase.                                                      *)
Validates == UNCHANGED <<envStick, backup>> /\ RadiosMoves("marked", "validate", "validate")

(* The request is refused or changes nothing, ...                           *)
Refuses ==
    /\ UNCHANGED <<envStick, backup>>
    /\ \E p \in {"rejected", "unchanged"} : RadiosMoves("validate", "update", p)

(* ... or .env is copied and written.                                       *)
WritesEnv ==
    /\ worker = "validate" /\ backup' = envStick /\ envStick' = job.stick
    /\ RadiosMoves("validate", "write", "write")

Applies == UNCHANGED <<envStick, backup>> /\ RadiosMoves("write", "verify", "verify")
Verified == UNCHANGED <<envStick, backup>> /\ RadiosMoves("verify", "update", "done")

(* A step failed: the copy goes back, and the radios with it.               *)
Restores ==
    /\ envStick' = backup /\ UNCHANGED backup
    /\ RadiosMoves("verify", "restored", "rollback")
Restored == UNCHANGED <<envStick, backup>> /\ RadiosMoves("restored", "update", "failed")
-----------------------------------------------------------------------------
UpdateAt == {"queued", "working", "recreated", "rollback"}

(* SIGTERM, from docker stop or the loop's own time limit: the trap of      *)
(* update-once.sh ends the job; radios-once.sh has none and the next pass   *)
(* sees what it left.                                                       *)
Terminated ==
    /\ worker # "down" /\ kills < MaxKills /\ kills' = kills + 1
    /\ worker' = "down"
    /\ IF worker \in UpdateAt \cup {"update"} /\ state.phase \notin {"done", "failed", "rejected"}
       THEN /\ state' = [state EXCEPT !.phase = "failed"]
            /\ finished' = finished \cup ({state.id} \ {0})
       ELSE UNCHANGED <<state, finished>>
    /\ UNCHANGED <<request, handled, radioRequest, radioState, radioHandled, freshDigest, envStick, backup,
                   zigbeeStick, call, next, given, looked, replayed, torn, resets, job>>

(* Power loss, or a kill the trap does not see.                             *)
Killed ==
    /\ worker # "down" /\ kills < MaxKills /\ kills' = kills + 1
    /\ worker' = "down" /\ call' = NoCall
    /\ UNCHANGED <<fileVars, envStick, backup, zigbeeStick, next, given, looked, finished, replayed,
                   torn, resets, job>>

GoesSilent ==
    /\ worker = "down" /\ freshDigest /\ freshDigest' = FALSE
    /\ UNCHANGED <<request, state, handled, radioRequest, radioState, radioHandled, envStick, backup,
                   zigbeeStick, call, worker, next, sideHistory, job>>

ContainerStarts ==
    /\ worker = "down" /\ worker' = "update"
    /\ UNCHANGED <<fileVars, envStick, backup, zigbeeStick, call, next, sideHistory, job>>

(* Somebody deletes or damages state.json; the next pass starts it anew.    *)
StateReset ==
    /\ worker \in {"down", "update", "radios"} /\ resets < MaxResets /\ resets' = resets + 1
    /\ state' = [id |-> 0, phase |-> "idle"]
    /\ UNCHANGED <<request, handled, radioRequest, radioState, radioHandled, freshDigest, envStick, backup,
                   zigbeeStick, call, worker, next, given, looked, finished, replayed, torn, kills, job>>

BridgeStep == ApplyWrites \/ RadiosReadsState \/ RadiosWrites \/ ZigbeeSaves
Pass ==
    \/ NoUpdate \/ Rejects \/ Accepts \/ Marks \/ UpdateFails \/ Recreates \/ Healthy \/ RollsBackUpdate
    \/ NoRadios \/ RadiosMarks \/ Validates \/ Refuses \/ WritesEnv \/ Applies \/ Verified
    \/ Restores \/ Restored \/ ContainerStarts

SidecarNext ==
    \/ ApplyReads \/ RadiosReads \/ ZigbeeReads \/ BridgeStep \/ Pass
    \/ Terminated \/ Killed \/ GoesSilent \/ StateReset

SidecarSpec == SidecarInit /\ [][SidecarNext]_sidecarVars
-----------------------------------------------------------------------------
(* An id that a caller was answered with does not vanish: until the          *)
(* container has judged it, it is what the mailbox holds (update.py:54-77).  *)
NoRequestOverwritten == given \ looked \subseteq {request, radioRequest.id}

(* "handled/ ... survive[s] a state.json reset that would otherwise replay a *)
(* finished job" (update.py:79): an update that ended is not started again,  *)
(* unless it was cut off between its phase and its marker.                   *)
NoReplay == replayed => kills > 0

(* Zigbee and Thread are never set up with one stick, whatever is changed,   *)
(* rolled back or cut off on either side.  The exception is a choice made    *)
(* after the marker of a change and before its phase is in the report, which *)
(* ZigbeeSaves cannot see.                                                   *)
SticksApart == zigbeeStick # NoPlug /\ ~torn => zigbeeStick # envStick

SidecarSafe == SidecarTypeOK /\ NoRequestOverwritten /\ NoReplay /\ SticksApart

(* "with no radios change running or waiting.  Anything less and no stick    *)
(* may be newly chosen" (radios/thread_lockout.py).                          *)
NeverOneStick == zigbeeStick # NoPlug => zigbeeStick # envStick

(* The container's loop and the handlers go on as long as they can.          *)
SidecarFairSpec == SidecarSpec /\ WF_sidecarVars(Pass) /\ WF_sidecarVars(BridgeStep)

(* Every request is judged in the end, unless an update was killed in a      *)
(* running phase, which nothing ends any more.                               *)
GivenIsLooked ==
    \A id \in JobIds : id \in given ~> id \in looked \/ (kills > 0 /\ state.phase \in SidecarRunning)
=============================================================================
