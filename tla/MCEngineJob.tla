----------------------------- MODULE MCEngineJob -----------------------------
(* Instances of EngineJob for TLC. *)
EXTENDS EngineJob, TLC

CONSTANTS j1, j2, w1, w2

WorkerSymmetry == Permutations(Workers)
=============================================================================
