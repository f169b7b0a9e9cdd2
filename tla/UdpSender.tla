------------------------------ MODULE UdpSender ------------------------------
(***************************************************************************)
(* loxone/sender.py: the one socket every value to the Miniserver leaves   *)
(* through.  A call of send() first compares with the debounce cache, then *)
(* waits for an asyncio.Lock (first come, first served) and for the rate   *)
(* limit, and only then calls sendto().                                    *)
(*                                                                         *)
(* `line` is the lock: its head is the call that holds the lock, the rest  *)
(* are the calls that wait for it in the order they asked.  The rate limit *)
(* is the time the head spends there; the model lets it be any time.       *)
(***************************************************************************)
EXTENDS Naturals, Sequences, SequencesExt

CONSTANTS
    Tasks,    \* the asyncio tasks that call send()
    Keys,     \* the virtual inputs of the Miniserver
    Values,   \* what a datagram can carry, as text
    None,     \* no value: never sent, never cached
    Closer    \* the task that runs UdpSender.close()

ASSUME SenderAssumption == None \notin Keys \cup Values /\ Closer \notin Tasks

VARIABLES
    target,     \* whether a Miniserver address is set
    closed,     \* whether the socket is gone
    lastSent,   \* the debounce cache `_last_sent`
    line,       \* the calls inside send() or close(), lock holder first
    wire,       \* per key, the last datagram that left for this Miniserver
    shown       \* history: how recent that datagram's value was

senderVars == <<target, closed, lastSent, line, wire, shown>>

Request == [task : Tasks, key : Keys, val : Values, ver : Nat, force : BOOLEAN]

CloseRequest == [task |-> Closer, key |-> None, val |-> None, ver |-> 0, force |-> FALSE]

SenderTypeOK ==
    /\ target \in BOOLEAN
    /\ closed \in BOOLEAN
    /\ lastSent \in [Keys -> Values \cup {None}]
    /\ line \in Seq(Request \cup {CloseRequest})
    /\ wire \in [Keys -> Values \cup {None}]
    /\ shown \in [Keys -> Nat]

SenderInit ==
    /\ target \in BOOLEAN
    /\ closed = FALSE
    /\ lastSent = [k \in Keys |-> None]
    /\ line = <<>>
    /\ wire = [k \in Keys |-> None]
    /\ shown = [k \in Keys |-> 0]

(* The task is inside send() or close(). *)
Waiting(t) == \E i \in 1..Len(line) : line[i].task = t

(* send() returns at once: no address yet, or the text sent last under this *)
(* key is this one and nobody forces it.                                    *)
Skipped(k, v, force) == ~target \/ (~force /\ lastSent[k] = v)

(* Mutant: a forced call jumps the line instead of waiting its turn. *)
SendCallForcedFirst(t, k, v, ver, force) ==
    /\ ~closed
    /\ LET r == [task |-> t, key |-> k, val |-> v, ver |-> ver, force |-> force] IN
       line' = IF Skipped(k, v, force) THEN line
               ELSE IF force THEN <<r>> \o line ELSE Append(line, r)
    /\ UNCHANGED <<target, closed, lastSent, wire, shown>>

(* A task calls send(key, value, force).  `ver` counts how recent the value *)
(* is; the program does not carry it.                                       *)
SendCall(t, k, v, ver, force) ==
    /\ ~closed
    /\ line' = IF Skipped(k, v, force) THEN line
               ELSE Append(line, [task |-> t, key |-> k, val |-> v,
                                  ver |-> ver, force |-> force])
    /\ UNCHANGED <<target, closed, lastSent, wire, shown>>

(* Mutant: nobody looks at the socket again once the lock is held. *)
SendToUnchecked(t) ==
    /\ line # <<>> /\ Head(line).task = t
    /\ line' = Tail(line)
    /\ LET r == Head(line) IN
       /\ lastSent' = [lastSent EXCEPT ![r.key] = r.val]
       /\ wire' = [wire EXCEPT ![r.key] = r.val]
       /\ shown' = [shown EXCEPT ![r.key] = r.ver]
    /\ UNCHANGED <<target, closed>>

(* Mutant: a call that finds the address cleared keeps waiting for one. *)
SendToWaitsForTarget(t) ==
    /\ line # <<>> /\ Head(line).task = t /\ ~closed /\ target
    /\ line' = Tail(line)
    /\ LET r == Head(line) IN
       /\ lastSent' = [lastSent EXCEPT ![r.key] = r.val]
       /\ wire' = [wire EXCEPT ![r.key] = r.val]
       /\ shown' = [shown EXCEPT ![r.key] = r.ver]
    /\ UNCHANGED <<target, closed>>

(* The lock holder's wait is over: sendto(), record, release the lock. *)
(* With the address cleared meanwhile it returns False instead.        *)
SendTo(t) ==
    /\ line # <<>> /\ Head(line).task = t /\ ~closed
    /\ line' = Tail(line)
    /\ IF target
       THEN LET r == Head(line) IN
            /\ lastSent' = [lastSent EXCEPT ![r.key] = r.val]
            /\ wire' = [wire EXCEPT ![r.key] = r.val]
            /\ shown' = [shown EXCEPT ![r.key] = r.ver]
       ELSE UNCHANGED <<lastSent, wire, shown>>
    /\ UNCHANGED <<target, closed>>

(* The lock holder raises: the socket was closed before its turn, or *)
(* sendto() itself failed.  Nothing is recorded.                     *)
SendRaises(t) ==
    /\ line # <<>> /\ Head(line).task = t
    /\ line' = Tail(line)
    /\ UNCHANGED <<target, closed, lastSent, wire, shown>>

(* The task is cancelled wherever it stands in the line. *)
LeaveLine(t) ==
    /\ \E i \in 1..Len(line) : line[i].task = t /\ line' = RemoveAt(line, i)
    /\ UNCHANGED <<target, closed, lastSent, wire, shown>>

(* set_target(): the debounce cache stays.  Another address is another *)
(* Miniserver, which has seen nothing yet.                             *)
SetTarget(isSet) ==
    /\ target' = isSet
    /\ wire' = [k \in Keys |-> None]
    /\ shown' = [k \in Keys |-> 0]
    /\ UNCHANGED <<closed, lastSent, line>>

(* close() asks for the same lock ... *)
CloseCall ==
    /\ ~Waiting(Closer) /\ ~closed
    /\ line' = Append(line, CloseRequest)
    /\ UNCHANGED <<target, closed, lastSent, wire, shown>>

(* ... and closes the socket once it holds it. *)
CloseSocket ==
    /\ line # <<>> /\ Head(line).task = Closer
    /\ line' = Tail(line)
    /\ closed' = TRUE
    /\ UNCHANGED <<target, lastSent, wire, shown>>
=============================================================================
