------------------------------- MODULE TextOps -------------------------------
(***************************************************************************)
(* Editing a text, a sequence of characters.  Offsets are zero based as in *)
(* the code: offset p is the place in front of character p + 1, and the    *)
(* range [start, end) holds the characters start + 1 .. end.               *)
(***************************************************************************)
EXTENDS Integers, Sequences

(* The text t with s spliced in before offset p.                           *)
Inserted(t, p, s) ==
  [i \in 1..(Len(t) + Len(s)) |->
     IF i <= p THEN t[i]
     ELSE IF i <= p + Len(s) THEN s[i - p]
     ELSE t[i - Len(s)]]

(* The text t without the characters of the range [start, end).            *)
Removed(t, start, end) ==
  [i \in 1..(Len(t) - (end - start)) |->
     IF i <= start THEN t[i] ELSE t[i + (end - start)]]

(* The characters of the range [start, end).                               *)
Slice(t, start, end) == [i \in 1..(end - start) |-> t[start + i]]
=============================================================================
