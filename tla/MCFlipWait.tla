----------------------------- MODULE MCFlipWait -----------------------------
(* FlipWait for TLC: jobs taken in the order of their numbers. *)
EXTENDS FlipWait
=============================================================================
