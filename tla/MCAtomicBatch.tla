--------------------------- MODULE MCAtomicBatch ---------------------------
(* Small instances of AtomicBatch for TLC.                                 *)
EXTENDS AtomicBatch, TLC

CONSTANTS d1, d2, r1, r2, r3, t1, t2

(* Two moves that race for the record r2, with enough in r1 to build the   *)
(* first move again from fresh reads after it was made.                    *)
Source   == t1 :> r1 @@ t2 :> r2
Target   == t1 :> r2 @@ t2 :> r3
Balances == r1 :> 2 @@ r2 :> 1 @@ r3 :> 0
=============================================================================
