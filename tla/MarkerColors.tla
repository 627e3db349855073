---------------------------- MODULE MarkerColors ----------------------------
(***************************************************************************)
(* What a set of markers promises to the formatter and to the script API:  *)
(* every character of the buffer has at most one type, its color, which    *)
(* only an assignment to a range with the character or, in a fragile set,  *)
(* an edit takes away.  A sticky set moves colors with their characters,   *)
(* and typed text continues the color in front of it.                      *)
(***************************************************************************)
EXTENDS TextOps

CONSTANTS
  Type,      \* the types of markers, names of styles
  NoType,    \* the empty type of InsertMarker, and of a character without one
  MaxLength  \* bound: no insertion makes the buffer longer than this

VARIABLES
  kind,   \* "Sticky" or "Fragile"
  color   \* the type of each character

vars == <<kind, color>>

Init ==
  /\ kind \in {"Sticky", "Fragile"}
  /\ color = << >>

Assign(start, end, type) ==
  /\ color' = [i \in DOMAIN color |-> IF start < i /\ i <= end THEN type ELSE color[i]]
  /\ kind' = kind

StickyInsert(p, n) ==
  /\ kind = "Sticky"
  /\ color' = Inserted(color, p, [i \in 1..n |-> IF p = 0 THEN NoType ELSE color[p]])
  /\ kind' = kind

StickyDelete(start, end) ==
  /\ kind = "Sticky"
  /\ color' = Removed(color, start, end)
  /\ kind' = kind

(* An edit at p of a fragile set takes every color behind p away, and that *)
(* of a stretch of one type that p touches; n is what the length becomes.  *)
FragileEdit(p, n) ==
  /\ kind = "Fragile"
  /\ \E cut \in 0..p :
       /\ \A i \in (cut + 1)..p : color[i] = color[p] /\ color[i] # NoType
       /\ color' = [i \in 1..n |-> IF i <= cut THEN color[i] ELSE NoType]
  /\ kind' = kind

Next ==
  \/ \E start, end \in 0..Len(color) :
       /\ start < end
       /\ \/ \E type \in Type \cup {NoType} : Assign(start, end, type)
          \/ StickyDelete(start, end)
          \/ FragileEdit(start, Len(color) - (end - start))
  \/ \E p \in 0..Len(color), n \in 1..(MaxLength - Len(color)) :
       StickyInsert(p, n) \/ FragileEdit(p, Len(color) + n)

Spec == Init /\ [][Next]_vars
=============================================================================
