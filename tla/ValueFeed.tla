------------------------------ MODULE ValueFeed ------------------------------
(***************************************************************************)
(* What the value path of loxmatter promises the Miniserver, and nothing   *)
(* else: every key has a history of values; what the Miniserver is shown   *)
(* may lag behind that history and may skip parts of it, but it only moves *)
(* forward in it.  A Miniserver that restarts has seen nothing again.      *)
(***************************************************************************)
EXTENDS Naturals

CONSTANT FeedKeys

VARIABLES
    latest,   \* how many values each key has had
    seen      \* the place in that history the Miniserver was last shown

vars == <<latest, seen>>

Init == latest = [k \in FeedKeys |-> 0] /\ seen = [k \in FeedKeys |-> 0]

(* Some keys get a new value; what is shown stays. *)
Report(S) ==
    /\ latest' = [k \in FeedKeys |-> IF k \in S THEN latest[k] + 1 ELSE latest[k]]
    /\ UNCHANGED seen

(* The Miniserver is shown one key's value, none older than the one before. *)
Show(k) ==
    /\ \E n \in seen[k]..latest[k] : seen' = [seen EXCEPT ![k] = n]
    /\ UNCHANGED latest

(* The Miniserver restarts, or another one takes its place. *)
Restart == seen' = [k \in FeedKeys |-> 0] /\ UNCHANGED latest

Next == (\E S \in SUBSET FeedKeys : Report(S)) \/ (\E k \in FeedKeys : Show(k)) \/ Restart

Spec == Init /\ [][Next]_vars
=============================================================================
