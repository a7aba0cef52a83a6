---------------------------- MODULE MCScanChild ----------------------------
(* A session of two operations, with a feeder of up to two sheets and a cap *)
(* of one, and two stop signals.                                            *)
EXTENDS ScanChild
=============================================================================
