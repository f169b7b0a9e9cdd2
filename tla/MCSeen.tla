-------------------------------- MODULE MCSeen --------------------------------
(***************************************************************************)
(* What somebody waits for is seen through: the queued cards of the        *)
(* commissioning dialog, and requests to the updater's sidecar.  A         *)
(* behaviour runs one of them, which is chosen at the start.               *)
(***************************************************************************)
EXTENDS MCCommissioningSession, Sidecar

VARIABLE part

seenVars == <<part, vars, sidecarVars>>

SeenInit ==
    /\ part \in {"session", "sidecar"}
    /\ Init /\ SidecarInit

Resting(p) ==
    /\ p # "session" => UNCHANGED vars
    /\ p # "sidecar" => UNCHANGED sidecarVars
    /\ UNCHANGED part

SeenNext ==
    \/ part = "session" /\ Next /\ Resting("session")
    \/ part = "sidecar" /\ SidecarNext /\ Resting("sidecar")

\* The fairness of each part, as its module states it.
SessionFair ==
    /\ SF_vars(part = "session" /\ WorkerStep) /\ SF_vars(part = "session" /\ LinkComes)
    /\ \A t \in Scans : SF_vars(part = "session" /\ ScanStep(t))
    /\ \A a \in Adders : SF_vars(part = "session" /\ AdderStep(a))

SidecarFair ==
    WF_sidecarVars(part = "sidecar" /\ Pass) /\ WF_sidecarVars(part = "sidecar" /\ BridgeStep)

SeenSpec ==
    /\ SeenInit /\ [][SeenNext]_seenVars
    /\ SessionFair /\ SidecarFair
=============================================================================
