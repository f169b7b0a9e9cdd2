--------------------------- MODULE MCRuntimeValues ---------------------------
(* Instances of RuntimeValues for TLC: one or two keys of one source, two    *)
(* concurrent resends.                                                       *)
EXTENDS RuntimeValues

CONSTANTS src, r1, r2, k1, k2, on, off

MCTasks == Sources \cup Resenders
MCOwner == [k \in Keys |-> src]
MCMarked == {k1}
=============================================================================
