----------------------------- MODULE MCTaskRun -----------------------------
(* TaskRun for TLC: one task with overlapping requests.  No symmetry, as    *)
(* the run checks liveness as well.                                         *)
EXTENDS TaskRun
=============================================================================
