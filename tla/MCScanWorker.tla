---------------------------- MODULE MCScanWorker ----------------------------
(* ScanWorker for TLC: job ids are interchangeable model values. *)
EXTENDS ScanWorker, TLC

Symmetry == Permutations(Jobs)
=============================================================================
