-------------------------- MODULE MCCheckRefresher --------------------------
(* Two clicks beside the refresher thread and a stop. *)
EXTENDS CheckRefresher, TLC

Symmetry == Permutations(Clicks)
=============================================================================
