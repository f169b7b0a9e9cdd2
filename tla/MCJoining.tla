------------------------------ MODULE MCJoining ------------------------------
(***************************************************************************)
(* How a device comes in, side by side: the commissioning session with its *)
(* cards, one commissioning and its tracker, and the devices that blink    *)
(* until they have a name.  A behaviour runs one of these parts, which is  *)
(* chosen at the start, while the others stand still in their first state. *)
(***************************************************************************)
EXTENDS MCCommissioningSession, CommissioningAttempt, Identify

VARIABLE part

joinVars == <<part, vars, attemptVars, identifyVars>>

JoinInit ==
    /\ part \in {"session", "attempt", "identify"}
    /\ Init /\ AttemptInit /\ IdentifyInit

Resting(p) ==
    /\ p # "session" => UNCHANGED vars
    /\ p # "attempt" => UNCHANGED attemptVars
    /\ p # "identify" => UNCHANGED identifyVars
    /\ UNCHANGED part

SessionRuns  == part = "session" /\ Next /\ Resting("session")
AttemptRuns  == part = "attempt" /\ AttemptNext /\ Resting("attempt")
IdentifyRuns == part = "identify" /\ IdentifyNext /\ Resting("identify")

JoinNext == SessionRuns \/ AttemptRuns \/ IdentifyRuns

JoinSpec == JoinInit /\ [][JoinNext]_joinVars

\* The session's cards, line and radio are in order (commissioning/session.py),
\* the tracker tells of the attempt it shows (matter/commissioning_progress.py),
\* and one device blinks, the one that waits for its name
\* (commissioning/identify.py).
JoiningSafe == SessionSafe /\ AttemptSafe /\ IdentifySafe
=============================================================================
