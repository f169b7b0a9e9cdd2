--------------------------- MODULE MCRuntimeEvents ---------------------------
(* Instances of RuntimeEvents for TLC: one event key of one source, one *)
(* resend, two or three events.                                         *)
EXTENDS RuntimeEvents

CONSTANTS src, press, pressN

MCTasks == Sources \cup Resenders \cup Pulses \cup {Heartbeater, Stopper}
MCKeys == {press, pressN, HeartbeatKey}
MCValues == 0..MaxEvents
MCCounterOf == [e \in {press} |-> pressN]
MCOwner == [e \in {press} |-> src]
=============================================================================
