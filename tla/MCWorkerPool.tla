---------------------------- MODULE MCWorkerPool ----------------------------
(* Small instances of WorkerPool for TLC.                                  *)
EXTENDS WorkerPool, TLC

CONSTANTS w1, w2

(* Slots are interchangeable where no liveness is checked.                 *)
Symmetry == Permutations(Workers)
=============================================================================
