--------------------------- MODULE MCMaterializer ---------------------------
(* Small instances of Materializer for TLC.                                *)
EXTENDS Materializer, TLC

CONSTANTS r1, r2, k1, k2, a, b

(* Requests and keys are interchangeable where no liveness is checked.     *)
Symmetry == Permutations(Requests) \cup Permutations(Keys)
=============================================================================
