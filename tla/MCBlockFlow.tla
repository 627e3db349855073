----------------------------- MODULE MCBlockFlow -----------------------------
(* Small instance of BlockFlow: a text that wraps after one or two         *)
(* characters, in a view of two rows.                                         *)
EXTENDS BlockFlow

CONSTANTS x, nl, keyword

MCChar == {x, nl}
MCTexts == {<<x>>, <<nl>>, <<x, nl>>}
MCType == {keyword}
MCSizes == {[columns |-> 1, zoom |-> 1], [columns |-> 2, zoom |-> 1], [columns |-> 2, zoom |-> 2]}
=============================================================================
