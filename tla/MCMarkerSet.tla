----------------------------- MODULE MCMarkerSet -----------------------------
(* Small instance of MarkerSet: two types, which no definition tells apart *)
(* by name, on a buffer long enough for a marker with neighbours and gaps  *)
(* on both sides.                                                          *)
EXTENDS MarkerSet, TLC

CONSTANTS keyword, comment

MCType == {keyword, comment}

Symmetry == Permutations(MCType)
=============================================================================
