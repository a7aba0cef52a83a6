---------------------------- MODULE MCWorkspace ----------------------------
(* Workspace for TLC: processes and workspaces differ in name only, and the *)
(* property is about safety.                                                *)
EXTENDS Workspace, TLC

Symmetry == Permutations(Procs) \cup Permutations(Spaces)
=============================================================================
