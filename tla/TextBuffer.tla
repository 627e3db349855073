----------------------------- MODULE TextBuffer -----------------------------
(***************************************************************************)
(* What a text buffer promises to everything built on it (views, undo,     *)
(* markers, the script API): the text is one sequence of characters, an    *)
(* insertion splices new characters in before a position and a deletion    *)
(* cuts a half open range out; nothing else ever moves or changes a        *)
(* character.                                                              *)
(***************************************************************************)
EXTENDS TextOps

CONSTANTS
  Char,       \* the characters
  MaxInsert   \* longest text one call of InsertBefore is given

VARIABLE text

(* The texts one call can insert; an empty one is a call that changes     *)
(* nothing.                                                                *)
Insertable == UNION {[1..n -> Char] : n \in 0..MaxInsert}

Init == text = << >>

InsertBefore(p, s) == text' = Inserted(text, p, s)

Delete(start, end) == text' = Removed(text, start, end)

Next ==
  \/ \E p \in 0..Len(text), s \in Insertable : InsertBefore(p, s)
  \/ \E start \in 0..Len(text) : \E end \in start..Len(text) : Delete(start, end)

Spec == Init /\ [][Next]_text
=============================================================================
