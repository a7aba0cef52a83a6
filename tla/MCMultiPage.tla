---------------------------- MODULE MCMultiPage ----------------------------
(* MultiPage for TLC: passes of one page, of a page and a blank back, and of
   one blank page; clicks are interchangeable. *)
EXTENDS MultiPage, TLC

MCShapes == {<<FALSE>>, <<FALSE, TRUE>>, <<TRUE>>}
OneBlankBack == {<<FALSE, TRUE>>}
Symmetry == Permutations(Clicks)
=============================================================================
