--------------------------- MODULE MCDocumentFile ----------------------------
(* Small instances of DocumentFile: two calls under way at a time, texts   *)
(* of a few characters, and buffers of two, so that a line fills two of    *)
(* them; for MCDocumentFile_modified one call.                             *)
EXTENDS DocumentFile

CONSTANTS x, nl, j1, j2, n1, n2

MCChar == {x, nl}
MCJob == {j1, j2}
MCOneJob == {j1}
MCName == {n1, n2}
MCOneName == {n1}
MCContents == {<<x>>, <<nl, x, x>>}
MCOneContents == {<<x, x>>}

(* Calls and names are told apart by nothing but their identity.           *)
MCSymmetry == Permutations(MCJob) \cup Permutations(MCName)
=============================================================================
