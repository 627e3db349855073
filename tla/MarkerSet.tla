------------------------------ MODULE MarkerSet ------------------------------
(***************************************************************************)
(* text::MarkerSet, the typed ranges of a buffer: syntax (sticky),         *)
(* spelling and highlights (fragile).  The script thread assigns a type to *)
(* a range; the set observes the edits of the buffer and moves, cuts or    *)
(* removes its markers.                                                    *)
(***************************************************************************)
EXTENDS Integers

CONSTANTS
  Type,      \* the types of markers, names of styles
  NoType,    \* the empty type, which removes markers
  MaxLength  \* bound: no insertion makes the buffer longer than this

ASSUME NoTypeAssumption == NoType \notin Type
ASSUME MaxLengthAssumption == MaxLength \in Nat

VARIABLES
  kind,     \* kind_: "Sticky" or "Fragile"
  length,   \* the length of the buffer
  markers,  \* markers_, the map by end offset, as the set of its markers
  notified  \* the offsets of the ranges DidChangeMarker was given last

vars == <<kind, length, markers, notified>>

Marker == [start : Nat, end : Nat, type : Type]

-----------------------------------------------------------------------------
(* The markers the first step of InsertMarker collects.                    *)
Overlapping(ms, start, end) == {m \in ms : m.end > start /\ m.start < end}

(* Mutant of InsertOrMerge: the neighbour in front is not removed.         *)
InsertOrMergeKeeping(ms, start, end, type) ==
  LET before == {m \in ms : m.end = start /\ m.type = type}
      after == {m \in ms : m.start = end /\ m.type = type}
  IN  (ms \ after)
        \cup {[start |-> IF before = {} THEN start ELSE (CHOOSE m \in before : TRUE).start,
               end |-> IF after = {} THEN end ELSE (CHOOSE m \in after : TRUE).end,
               type |-> type]}

(* A marker on a range without markers; neighbours of its type become part *)
(* of it.                                                                  *)
InsertOrMerge(ms, start, end, type) ==
  LET before == {m \in ms : m.end = start /\ m.type = type}
      after == {m \in ms : m.start = end /\ m.type = type}
  IN  (ms \ (before \cup after))
        \cup {[start |-> IF before = {} THEN start ELSE (CHOOSE m \in before : TRUE).start,
               end |-> IF after = {} THEN end ELSE (CHOOSE m \in after : TRUE).end,
               type |-> type]}

(* The markers without [start, end); those that cross it are split and     *)
(* keep what is outside.                                                   *)
Cut(ms, start, end) ==
  LET hit == Overlapping(ms, start, end)
  IN  (ms \ hit)
        \cup {[start |-> m.start, end |-> start, type |-> m.type] :
                m \in {h \in hit : h.start < start}}
        \cup {[start |-> end, end |-> m.end, type |-> m.type] :
                m \in {h \in hit : h.end > end}}

(* Nothing to do: no marker to remove, or the range is inside a marker of  *)
(* the type.                                                               *)
NoChange(ms, start, end, type) ==
  \/ type = NoType /\ Overlapping(ms, start, end) = {}
  \/ \E m \in ms : m.type = type /\ m.start <= start /\ end <= m.end

(* The range is exactly a marker, whose type is set.                       *)
IsMarker(ms, start, end) == \E m \in ms : m.start = start /\ m.end = end

NewMarkers(ms, start, end, type) ==
  IF NoChange(ms, start, end, type) THEN ms
  ELSE IF type = NoType THEN Cut(ms, start, end)
  ELSE IF IsMarker(ms, start, end)
       THEN Cut(ms, start, end) \cup {[start |-> start, end |-> end, type |-> type]}
       ELSE InsertOrMerge(Cut(ms, start, end), start, end, type)

(* Mutant of Changes: the gaps between the markers are forgotten.          *)
ChangesWithoutGaps(ms, start, end, type) ==
  {p \in start..(end - 1) :
     \E m \in Overlapping(ms, start, end) : m.start <= p /\ p < m.end /\ m.type # type}

(* The offsets of the ranges handed to NotifyChange: the markers of        *)
(* another type and, when a type is set, the gaps between markers.         *)
Changes(ms, start, end, type) ==
  {p \in start..(end - 1) :
     \/ \E m \in Overlapping(ms, start, end) : m.start <= p /\ p < m.end /\ m.type # type
     \/ type # NoType /\ ~ \E m \in Overlapping(ms, start, end) : m.start <= p /\ p < m.end}

(* Editor::Update: markers that an edit left empty go.                     *)
NonEmpty(ms) == {m \in ms : m.start < m.end}

AfterDelete(ms, start, end) ==
  LET n == end - start
      Move(m) == [m EXCEPT !.start = IF @ <= start THEN @
                                     ELSE IF @ < end THEN start ELSE @ - n,
                           !.end = IF @ <= start THEN @
                                   ELSE IF @ > end THEN @ - n ELSE start]
  IN  IF kind = "Fragile" THEN {m \in ms : m.end <= start} ELSE NonEmpty({Move(m) : m \in ms})

(* Mutant of AfterInsert: a marker that ends at p does not grow.           *)
AfterInsertBehind(ms, p, n) ==
  LET Move(m) == [m EXCEPT !.start = IF @ < p THEN @ ELSE @ + n,
                           !.end = IF @ <= p THEN @ ELSE @ + n]
  IN  IF kind = "Fragile" THEN {m \in ms : m.end < p} ELSE NonEmpty({Move(m) : m \in ms})

AfterInsert(ms, p, n) ==
  LET Move(m) == [m EXCEPT !.start = IF @ < p THEN @ ELSE @ + n,
                           !.end = IF @ < p THEN @ ELSE @ + n]
  IN  IF kind = "Fragile" THEN {m \in ms : m.end < p} ELSE NonEmpty({Move(m) : m \in ms})

(* GetLowerBoundMarker, as the set of the marker it returns or none.       *)
LowerBound(ms, p) == {m \in ms : m.end > p /\ \A n \in ms : n.end > p => m.end <= n.end}

(* GetMarkerAt, as the set of the marker it returns or none.               *)
MarkerAt(ms, p) == {m \in LowerBound(ms, p) : m.start <= p}

-----------------------------------------------------------------------------
Init ==
  /\ kind \in {"Sticky", "Fragile"}
  /\ length = 0
  /\ markers = {}
  /\ notified = {}

(* Callers pass a range of at least one character (IsValidNonEmptyRange).  *)
InsertMarker(start, end, type) ==
  /\ start < end
  /\ markers' = NewMarkers(markers, start, end, type)
  /\ notified' = IF NoChange(markers, start, end, type) THEN {}
                 ELSE Changes(markers, start, end, type)
  /\ UNCHANGED <<kind, length>>

(* Buffer::Delete.                                                         *)
DidDeleteAt(start, end) ==
  /\ start < end
  /\ length' = length - (end - start)
  /\ markers' = AfterDelete(markers, start, end)
  /\ notified' = {}
  /\ kind' = kind

(* Buffer::InsertBefore of n characters.                                   *)
DidInsertBefore(p, n) ==
  /\ length + n <= MaxLength
  /\ length' = length + n
  /\ markers' = AfterInsert(markers, p, n)
  /\ notified' = {}
  /\ kind' = kind

Next ==
  \/ \E start, end \in 0..length :
       \/ \E type \in Type \cup {NoType} : InsertMarker(start, end, type)
       \/ DidDeleteAt(start, end)
  \/ \E p \in 0..length, n \in 1..MaxLength : DidInsertBefore(p, n)

Spec == Init /\ [][Next]_vars

-----------------------------------------------------------------------------
(* Properties                                                              *)

TypeOK ==
  /\ kind \in {"Sticky", "Fragile"}
  /\ length \in 0..MaxLength
  /\ markers \subseteq Marker
  /\ notified \subseteq 0..MaxLength

(* Whatever is assigned, split, merged, moved and cut, the markers stay    *)
(* non-empty, inside the buffer and apart from each other; so their ends   *)
(* are different, which the DCHECKs of SimpleEditor::Insert demand of the  *)
(* map by end offset, and the search of GetLowerBoundMarker is right.      *)
MarkersApart ==
  /\ TypeOK
  /\ \A m \in markers : m.start < m.end /\ m.end <= length
  /\ \A m, n \in markers : m # n => m.end <= n.start \/ n.end <= m.start

(* The type GetMarkerAt answers for each character.                        *)
ColorOf(ms, p) ==
  IF MarkerAt(ms, p) = {} THEN NoType ELSE (CHOOSE m \in MarkerAt(ms, p) : TRUE).type

Colors == INSTANCE MarkerColors WITH color <- [i \in 1..length |-> ColorOf(markers, i - 1)]

(* The set implements one color for each character: assignments change     *)
(* exactly their range, sticky colors travel with their characters.        *)
ImplementsColors == Colors!Spec

(* Observers, the line cache and the view, hear of every character whose   *)
(* color an assignment changes.                                            *)
ChangesNotified ==
  [][length' = length =>
       \A p \in 0..(length - 1) :
         ColorOf(markers', p) # ColorOf(markers, p) => p \in notified']_vars
=============================================================================
