----------------------------- MODULE MCEventFold -----------------------------
(* Small instances of EventFold for TLC.                                   *)
EXTENDS EventFold, TLC

CONSTANTS r1, e1, e2, e3

(* Event ids are interchangeable where no liveness is checked.             *)
Symmetry == Permutations(EventIds)
=============================================================================
