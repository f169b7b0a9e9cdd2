-------------------------- MODULE FirmwareUpdates --------------------------
(***************************************************************************)
(* firmware/{check,job,queue}.py: asking for firmware offers, installing   *)
(* one and following it, and the queue that installs several one after the *)
(* other.  The offers, the job states and the queue live in the store      *)
(* (firmware_status_store.py) and outlive loxmatter; the tasks that check, *)
(* follow and drain do not.  The transfer runs between matter-server and   *)
(* the device and goes on whatever happens to loxmatter.                   *)
(*                                                                         *)
(* Versions are numbers, 0 is what a device has at first and "no offer".   *)
(* "active" stands for transferring, applying and stalled.  The clocks of  *)
(* _follow (idle, stalled, gave up) are left to chance.                    *)
(***************************************************************************)
EXTENDS Naturals, Sequences, FiniteSets, SequencesExt

CONSTANTS
    Devices,     \* numbers: their order is the order of the ids
    Checks,      \* checks that can run at once: check_all and check_one
    MaxVersion,  \* bound: versions the manufacturers publish
    MaxFaults,   \* bound: stops, lost devices, changes of the link, errors of the queue
    MaxClicks,   \* bound: what the user does
    None

ASSUME FirmwareAssumption ==
    /\ Devices \subseteq Nat /\ IsFiniteSet(Devices) /\ None \notin Devices
    /\ {MaxVersion, MaxFaults, MaxClicks} \subseteq Nat

VARIABLES
    offer,      \* store: the version offered to a device
    job,        \* store: `job_state`
    queue,      \* store: the devices with a `queued_at`, in its order
    halted,     \* store: the queue's halt reason
    present,    \* store: devices that are not removed
    installed,  \* device: its version
    transfer,   \* device: the version it is being sent, or 0
    available,  \* device: matter-server reaches it
    link,       \* to matter-server; "old" is a server below schema 10
    running,    \* loxmatter runs
    task,       \* FirmwareJobs: its device, the version wanted and where it stands
    starter,    \* FirmwareJobs: the call of start_update next to the task
    drainer,    \* FirmwareQueue: what its task awaits
    current,    \* FirmwareQueue: `_current`
    wake,       \* FirmwareQueue: `_wake`
    check,      \* per check, its device and the version it read
    orphans,    \* history: active jobs no start of loxmatter could look at
    faults, clicks   \* history: used up of the bounds

storeVars == <<offer, job, queue, halted, present>>
worldVars == <<installed, transfer, available, link>>
jobVars == <<task, starter, orphans>>
queueVars == <<drainer, current, wake>>
bounds == <<faults, clicks>>
vars == <<storeVars, worldVars, running, jobVars, queueVars, check, bounds>>

Versions == 0..MaxVersion
NoTask == [device |-> None, target |-> 0, pc |-> "none"]
NoCheck == [device |-> None, seen |-> 0]

TypeOK ==
    /\ offer \in [Devices -> Versions]
    /\ job \in [Devices -> {"none", "active", "failed", "interrupted"}]
    /\ queue \in Seq(Devices) /\ IsInjective(queue)
    /\ halted \in {"none", "disconnected", "unsupported", "error"}
    /\ present \subseteq Devices /\ orphans \subseteq Devices
    /\ installed \in [Devices -> Versions] /\ transfer \in [Devices -> Versions]
    /\ available \subseteq Devices
    /\ link \in {"up", "down", "old"} /\ running \in BOOLEAN
    /\ task \in [device : Devices, target : Versions, pc : {"follow", "reread"}] \cup {NoTask}
    /\ starter \in {"none", "new", "sent", "returned", "failed"}
    /\ drainer \in {"waiting", "job", "own", "ended"} /\ wake \in BOOLEAN
    /\ current \in Devices \cup {None}
    /\ check \in [Checks -> [device : Devices \cup {None}, seen : Versions]]
    /\ faults \in 0..MaxFaults /\ clicks \in 0..MaxClicks

Init ==
    /\ offer = [d \in Devices |-> 0] 
    /\ job = [d \in Devices |-> "none"]
    /\ queue = <<>> /\ halted = "none" /\ present = Devices /\ orphans = {}
    /\ installed = [d \in Devices |-> 0] /\ transfer = [d \in Devices |-> 0]
    /\ available = Devices /\ link = "up" /\ running = TRUE
    /\ task = NoTask /\ starter = "none"
    /\ drainer = "waiting" /\ current = None /\ wake = FALSE
    /\ check = [c \in Checks |-> NoCheck]
    /\ faults = 0 /\ clicks = 0

-----------------------------------------------------------------------------
(* FirmwareChecker. *)

(* _check_device() up to the question to matter-server. *)
StartCheck(c, d) ==
    /\ running /\ link = "up" /\ check[c] = NoCheck
    /\ d \in present \cap available
    /\ check' = [check EXCEPT ![c] = [device |-> d, seen |-> installed[d]]]
    /\ UNCHANGED <<storeVars, worldVars, running, jobVars, queueVars, bounds>>

(* record_check(): the offer is compared with the version read before the *)
(* question, and a job that ended is cleared.                             *)
CheckAnswered(c, v) ==
    LET d == check[c].device IN
    /\ check[c] # NoCheck /\ link # "down"
    /\ offer' = [offer EXCEPT ![d] = IF v <= check[c].seen THEN 0 ELSE v]
    /\ job' = [job EXCEPT ![d] = IF @ = "active" THEN @ ELSE "none"]
    /\ check' = [check EXCEPT ![c] = NoCheck]
    /\ UNCHANGED <<queue, halted, present, worldVars, running, jobVars, queueVars, bounds>>

(* record_check_error(): the previous offer stays. *)
CheckFails(c) ==
    /\ check[c] # NoCheck
    /\ check' = [check EXCEPT ![c] = NoCheck]
    /\ UNCHANGED <<storeVars, worldVars, running, jobVars, queueVars, bounds>>

-----------------------------------------------------------------------------
(* FirmwareJobs. *)

(* start() of a device whose offer is still the one asked for. *)
Started(d) ==
    /\ orphans' = orphans \ {d}
    /\ task' = [device |-> d, target |-> offer[d], pc |-> "follow"]
    /\ starter' = "new"

Startable(d) ==
    /\ task = NoTask /\ link = "up"
    /\ d \in present \cap available /\ offer[d] # 0

(* POST /devices/{id}/firmware/update *)
Install(d) ==
    /\ running /\ clicks < MaxClicks /\ Startable(d)
    /\ clicks' = clicks + 1
    /\ Started(d)
    /\ job' = [job EXCEPT ![d] = "active"]
    /\ UNCHANGED <<offer, queue, halted, present, worldVars, running, queueVars, check,
                   faults>>

(* start_update() reaches matter-server, whose transfer begins or does not. *)
StarterCalls ==
    /\ starter = "new"
    /\ \/ link # "down" /\ starter' = "sent"
          /\ \E begins \in BOOLEAN :
               transfer' = IF begins /\ task.device \in available
                           THEN [transfer EXCEPT ![task.device] = task.target]
                           ELSE transfer
       \/ starter' = "failed" /\ UNCHANGED transfer
    /\ UNCHANGED <<storeVars, installed, available, link, running, task, orphans,
                   queueVars, check, bounds>>

StarterEnds ==
    /\ starter = "sent"
    /\ starter' \in {"returned", "failed"}
    /\ UNCHANGED <<storeVars, worldVars, running, task, orphans, queueVars, check,
                   bounds>>

(* The job's task is over; a start that still runs is cancelled.  The queue *)
(* goes on if it waits for this one.                                        *)
TaskOver ==
    /\ task' = NoTask /\ starter' = "none"
    /\ drainer' = IF drainer = "own" THEN "ended" ELSE drainer

Following == task.pc = "follow"
Reached == installed[task.device] >= task.target

(* _follow() ends with the start's failure, or having run out of patience, *)
(* or by an error of its own (_guarded).                                   *)
JobFails ==
    /\ Following
    /\ starter = "failed" \/ (link # "down" /\ ~Reached)
    /\ job' = [job EXCEPT ![task.device] = "failed"]
    /\ TaskOver
    /\ UNCHANGED <<offer, queue, halted, present, worldVars, running, orphans,
                   current, wake, check, bounds>>

JobInterrupted ==
    /\ Following /\ starter # "failed" /\ link = "down"
    /\ job' = [job EXCEPT ![task.device] = "interrupted"]
    /\ TaskOver
    /\ UNCHANGED <<offer, queue, halted, present, worldVars, running, orphans,
                   current, wake, check, bounds>>

(* _record_success(), then the structure is read again. *)
JobSucceeds ==
    LET d == task.device IN
    /\ Following /\ starter # "failed" /\ link # "down" /\ Reached
    /\ offer' = [offer EXCEPT ![d] = 0]
    /\ job' = [job EXCEPT ![d] = "none"]
    /\ task' = [task EXCEPT !.pc = "reread"]
    /\ UNCHANGED <<queue, halted, present, worldVars, running, starter, orphans,
                   queueVars, check, bounds>>

RereadEnds ==
    /\ task.pc = "reread"
    /\ TaskOver
    /\ UNCHANGED <<storeVars, worldVars, running, orphans, current, wake, check, bounds>>

-----------------------------------------------------------------------------
(* FirmwareQueue. *)

(* Mutant: a queued device is queued a second time. *)
EnqueueQueued(chosen) ==
    LET eligible == {d \in chosen \cap present : offer[d] # 0}
    IN  /\ running /\ clicks < MaxClicks /\ link = "up" /\ eligible # {}
        /\ clicks' = clicks + 1
        /\ queue' = queue \o SetToSortSeq(eligible, <)
        /\ halted' = "none" /\ wake' = TRUE
        /\ UNCHANGED <<offer, job, present, worldVars, running, jobVars, drainer, current, check,
                       faults>>

(* Mutant: enqueue without "AND queued_at IS NULL". *)
EnqueueAgain(chosen) ==
    LET eligible == {d \in chosen \cap present : offer[d] # 0}
    IN  /\ running /\ clicks < MaxClicks /\ link = "up" /\ eligible # {}
        /\ clicks' = clicks + 1
        /\ queue' = SelectSeq(queue, LAMBDA d : d \notin eligible)
                    \o SetToSortSeq(eligible, <)
        /\ halted' = "none" /\ wake' = TRUE
        /\ UNCHANGED <<offer, job, present, worldVars, running, jobVars, drainer, current, check,
                       faults>>

(* enqueue(): devices with an offer, in the order of their ids; one that is  *)
(* queued keeps its place.  They stand at their time of day: the last, but   *)
(* anywhere among the others if the clock was set back meanwhile.            *)
Enqueue(chosen) ==
    LET eligible == {d \in chosen \cap present : offer[d] # 0}
        fresh == eligible \ ToSet(queue)
    IN  /\ running /\ clicks < MaxClicks /\ link = "up" /\ eligible # {}
        /\ clicks' = clicks + 1
        /\ \E new \in [1..Cardinality(fresh) -> fresh], at \in 0..Len(queue) :
              /\ \A i, j \in DOMAIN new : i < j => new[i] < new[j]
              /\ queue' = SubSeq(queue, 1, at) \o new \o SubSeq(queue, at + 1, Len(queue))
        /\ halted' = "none" /\ wake' = TRUE
        /\ UNCHANGED <<offer, job, present, worldVars, running, jobVars, drainer, current, check,
                       faults>>

Resume ==
    /\ running /\ clicks < MaxClicks /\ link = "up"
    /\ clicks' = clicks + 1
    /\ halted' = "none" /\ wake' = TRUE
    /\ UNCHANGED <<offer, job, queue, present, worldVars, running, jobVars, drainer, current, check,
                   faults>>

Clear ==
    /\ running /\ clicks < MaxClicks
    /\ clicks' = clicks + 1
    /\ queue' = <<>> /\ halted' = "none"
    /\ UNCHANGED <<offer, job, present, worldVars, running, jobVars, queueVars, check,
                   faults>>

(* What _install() takes from the queue without installing it. *)
NothingToInstall(d) == d \notin present \/ offer[d] = 0 \/ installed[d] >= offer[d]
Skipped(d) == NothingToInstall(d) \/ d \notin available

(* The first device in the queue that can be installed, or the queue's end. *)
Turn == Min({i \in 1..Len(queue) : ~Skipped(queue[i])} \cup {Len(queue) + 1})

(* The devices before it that are taken out as failed, out of reach. *)
Offline == {queue[i] : i \in {i \in 1..Turn - 1 : ~NothingToInstall(queue[i])}}

Waits(what) == drainer' = what /\ current' = None

(* Mutant: a device that is out of reach stays queued. *)
InstallNextKeepsOffline ==
    /\ queue' = SelectSeq(SubSeq(queue, 1, Turn - 1), LAMBDA d : d \in Offline)
                \o SubSeq(queue, Turn + 1, Len(queue))
    /\ IF Turn > Len(queue)
       THEN UNCHANGED <<job, jobVars>> /\ Waits("waiting")
       ELSE LET d == queue[Turn] IN
            /\ job' = [job EXCEPT ![d] = "active"]
            /\ Started(d)
            /\ drainer' = "own" /\ current' = d

(* The rounds of _install() up to the first device whose job starts.  No    *)
(* await lies between the look at the running job and start(), so start()   *)
(* refuses nothing.                                                         *)
InstallNext ==
    /\ queue' = SubSeq(queue, Turn + 1, Len(queue))
    /\ IF Turn > Len(queue)
       THEN /\ job' = [d \in Devices |-> IF d \in Offline THEN "failed" ELSE job[d]]
            /\ Waits("waiting") /\ UNCHANGED jobVars
       ELSE LET d == queue[Turn] IN
            /\ job' = [e \in Devices |-> IF e = d THEN "active"
                                         ELSE IF e \in Offline THEN "failed" ELSE job[e]]
            /\ Started(d)
            /\ drainer' = "own" /\ current' = d

Halt(reason) ==
    /\ halted' = reason /\ Waits("waiting")
    /\ UNCHANGED <<queue, job, jobVars>>

(* _drain() up to its next await. *)
Drain ==
    \/ /\ halted # "none" \/ queue = <<>>
       /\ Waits("waiting")
       /\ UNCHANGED <<queue, job, halted, jobVars>>
    \/ /\ halted = "none" /\ queue # <<>> /\ task # NoTask
       /\ Waits("job")
       /\ UNCHANGED <<queue, job, halted, jobVars>>
    \/ /\ halted = "none" /\ queue # <<>> /\ task = NoTask /\ link # "up"
       /\ Halt(IF link = "down" THEN "disconnected" ELSE "unsupported")
    \/ /\ halted = "none" /\ queue # <<>> /\ task = NoTask /\ link = "up"
       /\ InstallNext
       /\ UNCHANGED halted

(* Nothing else changes while the queue's task runs. *)
QueueRuns == UNCHANGED <<offer, present, worldVars, running, check, clicks>>

Woken ==
    /\ drainer = "waiting" /\ wake
    /\ wake' = FALSE
    /\ Drain /\ QueueRuns /\ UNCHANGED faults

(* The job the queue waited for is over. *)
JobOver ==
    /\ drainer = "job" /\ task = NoTask
    /\ Drain /\ QueueRuns /\ UNCHANGED <<wake, faults>>

(* Mutant: its own job is over, the round ends. *)
OwnOverReturns ==
    /\ drainer = "ended"
    /\ IF job[current] = "interrupted" /\ queue # <<>>
       THEN Halt("disconnected")
       ELSE Waits("waiting") /\ UNCHANGED <<queue, job, halted, jobVars>>
    /\ QueueRuns /\ UNCHANGED <<wake, faults>>

(* Its own job is over: an interrupted one halts a queue that is not empty. *)
OwnOver ==
    /\ drainer = "ended"
    /\ IF job[current] = "interrupted" /\ queue # <<>>
       THEN Halt("disconnected")
       ELSE Drain
    /\ QueueRuns /\ UNCHANGED <<wake, faults>>

(* Its job has started, but the device could not be taken out. *)
StartedOnly ==
    LET d == queue[Turn] IN
    /\ Turn <= Len(queue)
    /\ queue' = SubSeq(queue, Turn, Len(queue))
    /\ job' = [e \in Devices |-> IF e = d THEN "active"
                                 ELSE IF e \in Offline THEN "failed" ELSE job[e]]
    /\ Started(d)

(* n devices were taken out, the last perhaps without a word why. *)
TakenOutOnly(n) ==
    /\ queue' = SubSeq(queue, n + 1, Len(queue))
    /\ \E told \in {n - 1, n} :
          LET failed == {queue[i] : i \in 1..told} \cap Offline
          IN  job' = [d \in Devices |-> IF d \in failed THEN "failed" ELSE job[d]]
    /\ UNCHANGED jobVars

(* An error of the store ends the round, before its first look or between two *)
(* of the writes of _install().                                              *)
DrainFails ==
    /\ faults < MaxFaults /\ faults' = faults + 1
    /\ \/ drainer = "waiting" /\ wake /\ wake' = FALSE
       \/ drainer = "job" /\ task = NoTask /\ UNCHANGED wake
       \/ drainer = "ended" /\ UNCHANGED wake
    /\ \/ UNCHANGED <<queue, job, jobVars>>
       \/ /\ halted = "none" /\ task = NoTask /\ link = "up"
          /\ drainer = "ended" => job[current] # "interrupted"
          /\ StartedOnly \/ \E n \in 1..Turn - 1 : TakenOutOnly(n)
    /\ halted' = "error" /\ Waits("waiting") /\ QueueRuns

-----------------------------------------------------------------------------
(* The user removes a device; its job goes on. *)
RemoveDevice(d) ==
    /\ running /\ clicks < MaxClicks /\ d \in present
    /\ clicks' = clicks + 1
    /\ present' = present \ {d}
    /\ \/ d \notin ToSet(queue) /\ UNCHANGED queue
       \/ \E i \in DOMAIN queue : queue[i] = d /\ queue' = RemoveAt(queue, i)
    /\ UNCHANGED <<offer, job, halted, worldVars, running, jobVars, queueVars, check, faults>>

(* matter-server and the devices. *)
TransferEnds(d) ==
    /\ transfer[d] # 0
    /\ transfer' = [transfer EXCEPT ![d] = 0]
    /\ installed' \in {installed, [installed EXCEPT ![d] = transfer[d]]}
    /\ UNCHANGED <<storeVars, available, link, running, jobVars, queueVars, check, bounds>>

AvailabilityChanges(d) ==
    /\ d \in available => faults < MaxFaults
    /\ faults' = IF d \in available THEN faults + 1 ELSE faults
    /\ available' = SymDiff(available, {d})
    /\ UNCHANGED <<storeVars, installed, transfer, link, running, jobVars, queueVars, check,
                   clicks>>

LinkChanges ==
    /\ faults < MaxFaults
    /\ faults' = faults + 1
    /\ link' \in {"up", "down", "old"} \ {link}
    /\ UNCHANGED <<storeVars, installed, transfer, available, running, jobVars, queueVars,
                   check, clicks>>

-----------------------------------------------------------------------------
(* loxmatter stops or crashes: the tasks are gone, the store stays.  A crash *)
(* may lie between two commits: between the job's start and the device's     *)
(* leaving the queue, or between the dropped offer and the job's end.        *)
Stops ==
    /\ running /\ faults < MaxFaults
    /\ running' = FALSE /\ faults' = faults + 1
    /\ \/ UNCHANGED <<offer, queue>>
       \/ /\ drainer = "own" /\ starter = "new" /\ task.device = current
          /\ current \notin ToSet(queue)
          /\ queue' = <<current>> \o queue
          /\ UNCHANGED offer
       \/ /\ Following /\ Reached /\ link # "down"
          /\ offer' = [offer EXCEPT ![task.device] = 0]
          /\ UNCHANGED queue
    /\ task' = NoTask /\ starter' = "none"
    /\ drainer' = "waiting" /\ current' = None /\ wake' = FALSE
    /\ check' = [c \in Checks |-> NoCheck]
    /\ UNCHANGED <<job, halted, present, worldVars, orphans, clicks>>

Active == {d \in Devices : job[d] = "active"}

(* resume_all(): finished while loxmatter was down, or still running. *)
Finished == {d \in Active \cap present : offer[d] # 0 /\ installed[d] >= offer[d]}
Busy == {d \in (Active \cap present) \ Finished : transfer[d] # 0 /\ offer[d] # 0}

(* Mutant: a job whose transfer ended without the new version is left alone. *)
ResumeAllKeepsIdle ==
    LET followed == IF Busy = {} THEN {} ELSE {Min(Busy)} IN
    /\ offer' = [d \in Devices |-> IF d \in Finished THEN 0 ELSE offer[d]]
    /\ job' = [d \in Devices |-> IF d \in Finished THEN "none" ELSE job[d]]
    /\ task' = IF followed = {} THEN NoTask
               ELSE [device |-> Min(Busy), target |-> offer[Min(Busy)], pc |-> "follow"]
    /\ orphans' = {}

(* The first device whose transfer still runs is followed, every other job *)
(* is recorded as done or as interrupted.                                  *)
ResumeAll ==
    LET followed == IF Busy = {} THEN {} ELSE {Min(Busy)} IN
    /\ offer' = [d \in Devices |-> IF d \in Finished THEN 0 ELSE offer[d]]
    /\ job' = [d \in Devices |-> IF d \in Finished THEN "none"
                                 ELSE IF d \in Active \ followed THEN "interrupted"
                                 ELSE job[d]]
    /\ task' = IF followed = {} THEN NoTask
               ELSE [device |-> Min(Busy), target |-> offer[Min(Busy)], pc |-> "follow"]
    /\ orphans' = {}

(* The start of `loxmatter run`: not without matter-server, and one below   *)
(* schema 10 leaves the jobs as they are.  Then the queue's task starts.    *)
Starts ==
    /\ ~running /\ link # "down"
    /\ running' = TRUE
    /\ IF link = "up" THEN ResumeAll
       ELSE orphans' = Active /\ UNCHANGED <<offer, job, task>>
    /\ wake' = TRUE
    /\ UNCHANGED <<queue, halted, present, worldVars, starter, drainer, current, check,
                   bounds>>

-----------------------------------------------------------------------------
CheckStep ==
    \E c \in Checks :
        \/ \E d \in Devices : StartCheck(c, d)
        \/ \E v \in Versions : CheckAnswered(c, v)
        \/ CheckFails(c)

JobEnds == JobFails \/ JobInterrupted \/ JobSucceeds \/ RereadEnds
QueueStep == Woken \/ JobOver \/ OwnOver

Next ==
    \/ CheckStep
    \/ \E d \in Devices : Install(d)
    \/ StarterCalls
    \/ StarterEnds
    \/ JobEnds
    \/ \E chosen \in SUBSET Devices : Enqueue(chosen)
    \/ Resume
    \/ Clear
    \/ QueueStep
    \/ DrainFails
    \/ \E d \in Devices : RemoveDevice(d) \/ TransferEnds(d) \/ AvailabilityChanges(d)
    \/ LinkChanges
    \/ Stops
    \/ Starts

Spec == Init /\ [][Next]_vars

(* The event loop runs the two tasks, _follow() gives up after three hours, *)
(* and matter-server answers or the connection fails.  Nobody has to click, *)
(* to start loxmatter again or to mend the link.                            *)
FairSpec == Spec /\ WF_vars(JobEnds) /\ WF_vars(QueueStep)

-----------------------------------------------------------------------------
(* While loxmatter runs, a device shows a running job exactly when a task   *)
(* follows it; a row that a start could not look at (matter-server too old) *)
(* is the exception.  Else the update dialog waits for ever, or an install  *)
(* runs that nobody sees.                                                   *)
ActiveIsFollowed ==
    running => \A d \in Devices \ orphans :
                   job[d] = "active" <=> Following /\ task.device = d

(* The task of the queue never sleeps over a device that waits: it is about *)
(* to look, or a job whose end wakes it is running.                         *)
QueuedIsDriven ==
    running /\ queue # <<>> /\ halted = "none" => wake \/ drainer # "waiting"

(* A queued device keeps its place, whatever is queued or taken out and     *)
(* through every restart.                                                   *)
QueueKeepsOrder ==
    [][\A i, j \in DOMAIN queue :
          i < j /\ {queue[i], queue[j]} \subseteq ToSet(queue')
              => \E k, l \in DOMAIN queue' :
                    k < l /\ queue'[k] = queue[i] /\ queue'[l] = queue[j]]_vars

(* Once nobody queues more, every queued device gets its turn or is taken  *)
(* out, unless the queue halts or loxmatter stops.                          *)
QueueEmpties == queue # <<>> ~> queue = <<>> \/ halted # "none" \/ ~running

(* job.py: "follows a device whose transfer is still running": when         *)
(* loxmatter starts, the only running job is followed if its device is      *)
(* still being sent the version.                                            *)
RestartFollowsTransfer ==
    [][\A d \in present :
          ~running /\ running' /\ link = "up" /\ Active = {d} /\ transfer[d] # 0
          /\ installed[d] < transfer[d]
              => task'.device = d]_vars

(* Rows, tasks and queue agree in every state (firmware/job.py, queue.py).  *)
FirmwareSafe == TypeOK /\ ActiveIsFollowed /\ QueuedIsDriven

=============================================================================
