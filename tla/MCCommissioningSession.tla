----------------------- MODULE MCCommissioningSession -----------------------
(* Instances of CommissioningSession for TLC: two lamps and their codes. *)
EXTENDS CommissioningSession, TLC

CONSTANTS d1, d2, k1, k2, a1, a2, t1, t2

(* Each code fits one lamp; or the first fits both, which are one lamp that *)
(* changes its address, or two lamps one discriminator cannot tell apart.   *)
MCFits == [k \in Codes |-> IF k = k1 THEN {d1} ELSE {d2} \cap Devices]
MCSharedFits == [k \in Codes |-> IF k = k1 THEN Devices ELSE {}]

(* With MCSharedFits nothing tells the addresses apart. *)
Interchangeable == Permutations(Devices) \cup Permutations(Scans)
=============================================================================
