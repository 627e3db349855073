------------------------------ MODULE GapBuffer ------------------------------
(***************************************************************************)
(* text::BufferCore, the gap buffer that stores the text of a document,    *)
(* with the two operations of text::Buffer that edit it.  The whole state  *)
(* is one record, `core`, with the fields of the class:                    *)
(*                                                                         *)
(*   cwch      number of cells allocated (m_cwch)                          *)
(*   end       number of characters of the text (m_lEnd)                   *)
(*   gapStart  first cell of the gap (m_lGapStart)                         *)
(*   gapEnd    first cell after the gap (m_lGapEnd)                        *)
(*   pwch      the cells, a function on 0..cwch-1 (m_pwch)                 *)
(*                                                                         *)
(* The member functions are operators from a core to a core, so that they  *)
(* compose as the code calls them: insert calls extend, which calls        *)
(* moveGap.  HeapAlloc and HeapReAlloc leave new cells uninitialised;      *)
(* Uninit stands for what they hold.                                       *)
(***************************************************************************)
EXTENDS Integers, Sequences

CONSTANTS
  Char,               \* the characters
  Uninit,             \* content of a cell nothing was ever written to
  MIN_GAP_LENGTH,     \* smallest gap an insertion may leave (1024 in the code)
  EXTENSION_LENGTH,   \* unit in which the cells grow (1024 in the code)
  MaxInsert,          \* longest text one call inserts
  MaxEnd              \* bound: no insertion makes the text longer than this

ASSUME UninitAssumption == Uninit \notin Char
ASSUME LengthsAssumption ==
  /\ MIN_GAP_LENGTH \in Nat \ {0}
  /\ EXTENSION_LENGTH \in Nat \ {0}
  /\ MaxInsert \in Nat
  /\ MaxEnd \in Nat

VARIABLE core

(* The texts one call can insert.                                          *)
Texts == UNION {[1..n -> Char] : n \in 0..MaxInsert}

-----------------------------------------------------------------------------
(* The Win32 memory operations the class is written with.                  *)

(* MoveMemory(pwch + dst, pwch + src, n): the source may overlap.          *)
MoveMemory(cells, dst, src, n) ==
  [i \in DOMAIN cells |->
     IF dst <= i /\ i < dst + n THEN cells[src + (i - dst)] ELSE cells[i]]

(* HeapReAlloc: the old cells keep their content.                          *)
ReAlloc(cells, n, m) ==
  [i \in 0..(m - 1) |-> IF i < n THEN cells[i] ELSE Uninit]

(* CopyMemory(pwch + dst, s, Len(s)).                                      *)
CopyIn(cells, dst, s) ==
  [i \in DOMAIN cells |->
     IF dst <= i /\ i < dst + Len(s) THEN s[i - dst + 1] ELSE cells[i]]

-----------------------------------------------------------------------------
(* BufferCore                                                              *)

GapLength(c) == c.gapEnd - c.gapStart

IsValidPosn(c, p) == 0 <= p /\ p <= c.end

(* Both directions move the characters between the old and the new start   *)
(* of the gap to its other side.                                           *)
moveGap(c, start) ==
  LET diff == c.gapStart - start
      newEnd == c.gapEnd - diff
  IN  [cwch |-> c.cwch,
       end |-> c.end,
       gapStart |-> start,
       gapEnd |-> newEnd,
       pwch |-> IF diff > 0 THEN MoveMemory(c.pwch, newEnd, start, diff)
                ELSE IF diff < 0 THEN MoveMemory(c.pwch, c.gapStart, c.gapEnd, -diff)
                ELSE c.pwch]

deleteChars(c, start, end) ==
  LET m == moveGap(c, start)
  IN  [cwch |-> m.cwch,
       end |-> m.end - (end - start),
       gapStart |-> m.gapStart,
       gapEnd |-> m.gapEnd + (end - start),
       pwch |-> m.pwch]

(* Mutant of RoundUp: the growth is rounded down.                          *)
RoundDown(n) == (n \div EXTENSION_LENGTH) * EXTENSION_LENGTH

(* n rounded up to a multiple of the unit of growth.                       *)
RoundUp(n) ==
  ((n + EXTENSION_LENGTH - 1) \div EXTENSION_LENGTH) * EXTENSION_LENGTH

(* The part of extend after its early return: more cells, and what follows *)
(* the gap moved to their end.                                             *)
grow(c, by) ==
  [cwch |-> c.cwch + by,
   end |-> c.end,
   gapStart |-> c.gapStart,
   gapEnd |-> c.gapEnd + by,
   pwch |-> MoveMemory(ReAlloc(c.pwch, c.cwch, c.cwch + by),
                       c.gapEnd + by, c.gapEnd, c.end - c.gapStart)]

(* Mutant of extend: the gap stays where it is when it is long enough.     *)
extendInPlace(c, p, n) ==
  IF n = 0 \/ GapLength(c) >= n + MIN_GAP_LENGTH THEN c
  ELSE grow(moveGap(c, p), RoundUp(n))

extend(c, p, n) ==
  IF n = 0 THEN c
  ELSE LET m == moveGap(c, p)
       IN  IF GapLength(m) >= n + MIN_GAP_LENGTH THEN m ELSE grow(m, RoundUp(n))

insert(c, p, s) ==
  LET e == extend(c, p, Len(s))
  IN  [cwch |-> e.cwch,
       end |-> e.end + Len(s),
       gapStart |-> e.gapStart + Len(s),
       gapEnd |-> e.gapEnd,
       pwch |-> CopyIn(e.pwch, p, s)]

(* Mutant of CellAt: the first character behind the gap is taken to be in  *)
(* front of it.                                                            *)
CellAtOffByOne(c, p) == IF p > c.gapStart THEN p + (c.gapEnd - c.gapStart) ELSE p

(* The cell that holds the character at offset p, as GetCharAt finds it.   *)
CellAt(c, p) == IF p >= c.gapStart THEN p + (c.gapEnd - c.gapStart) ELSE p

GetCharAt(c, p) == c.pwch[CellAt(c, p)]

(* GetText copies the part in front of the gap and the part behind it      *)
(* separately; start and end are clamped to the end of the text.           *)
GetText(c, from, to) ==
  LET start == IF from > c.end THEN c.end ELSE from
      end == IF to > c.end THEN c.end ELSE to
      middle == IF c.gapStart < end THEN c.gapStart ELSE end
  IN  IF start >= end THEN << >>
      ELSE IF start >= c.gapStart
           THEN [i \in 1..(end - start) |-> c.pwch[c.gapEnd + (start - c.gapStart) + (i - 1)]]
           ELSE [i \in 1..(end - start) |->
                   IF i <= middle - start THEN c.pwch[start + (i - 1)]
                   ELSE c.pwch[c.gapEnd + (i - 1 - (middle - start))]]

-----------------------------------------------------------------------------
(* Buffer: the operations that reach the core.                             *)

Init ==
  core = [cwch |-> 3 * MIN_GAP_LENGTH,
          end |-> 0,
          gapStart |-> 0,
          gapEnd |-> 3 * MIN_GAP_LENGTH,
          pwch |-> [i \in 0..(3 * MIN_GAP_LENGTH - 1) |-> Uninit]]

(* DCHECK(IsValidPosn(offset)); an empty text returns early.               *)
InsertBefore(p, s) ==
  /\ IsValidPosn(core, p)
  /\ s # << >>
  /\ core.end + Len(s) <= MaxEnd
  /\ core' = insert(core, p, s)

(* The range is clamped to the text; an empty one returns early.  A start  *)
(* behind the end is a broken DCHECK(IsValidRange) of deleteChars and no    *)
(* call of the editor.                                                     *)
Delete(from, to) ==
  LET start == IF from < 0 THEN 0 ELSE from
      end == IF to > core.end THEN core.end ELSE to
  IN  /\ start < end
      /\ core' = deleteChars(core, start, end)

Next ==
  \/ \E p \in 0..core.end, s \in Texts : InsertBefore(p, s)
  \/ \E from \in -1..core.end, to \in 0..(core.end + 1) : Delete(from, to)

Spec == Init /\ [][Next]_core

-----------------------------------------------------------------------------
(* The text the core stands for.                                           *)
Text(c) == [i \in 1..c.end |-> GetCharAt(c, i - 1)]

(* Shape of the core and content of its cells: the characters of the text  *)
(* are in front of and behind the gap, so no cell outside the gap is       *)
(* uninitialised.                                                          *)
CoreOK(c) ==
  /\ c \in [cwch : Nat, end : Nat, gapStart : Nat, gapEnd : Nat,
            pwch : [0..(c.cwch - 1) -> Char \cup {Uninit}]]
  /\ c.gapStart <= c.end
  /\ c.end + (c.gapEnd - c.gapStart) = c.cwch
  /\ MIN_GAP_LENGTH <= c.gapEnd - c.gapStart
  /\ \A i \in 0..(c.cwch - 1) : (i < c.gapStart \/ i >= c.gapEnd) => c.pwch[i] \in Char

(* Type invariant: the fields agree with each other, the gap never falls   *)
(* below MIN_GAP_LENGTH although extend grows by the inserted length only, *)
(* and no cell that belongs to the text is uninitialised.                  *)
TypeOK == CoreOK(core)

(* GetText returns exactly the characters of the range, wherever the gap   *)
(* is: in front of the range, inside it or behind it.                      *)
GetTextReads ==
  \A start \in 0..core.end : \A end \in start..(core.end + 1) :
    LET to == IF end > core.end THEN core.end ELSE end
    IN  GetText(core, start, end) = SubSeq(Text(core), start + 1, to)

(* The detailed buffer implements the abstract one: every edit of the code *)
(* splices or cuts the text, and moving the gap or growing the cells is    *)
(* invisible.                                                              *)
Abstract == INSTANCE TextBuffer WITH text <- Text(core)
ImplementsTextBuffer == Abstract!Spec
=============================================================================
