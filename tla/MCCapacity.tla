----------------------------- MODULE MCCapacity -----------------------------
(* Small instances of Capacity for TLC.                                    *)
EXTENDS Capacity, TLC

CONSTANTS d1, d2

(* A negative ceiling is clamped to zero by set_total.                     *)
SmallTotals == {-1, 2}

(* Dispatches are interchangeable; no liveness is checked here.            *)
Symmetry == Permutations(Dispatches)
=============================================================================
