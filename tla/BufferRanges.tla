---------------------------- MODULE BufferRanges -----------------------------
(***************************************************************************)
(* The positions that live in a buffer: the ranges of views and scripts    *)
(* (text::Range, kept by the RangeSet of the buffer; a selection is one)   *)
(* and the cache of line numbers.  All of them observe the edits of the    *)
(* buffer; a range can itself edit the buffer.                             *)
(***************************************************************************)
EXTENDS LineNumberCache

CONSTANT Holder  \* who holds a range of the buffer, one each

VARIABLE range   \* start_ and end_ of each range

allVars == <<vars, range>>

-----------------------------------------------------------------------------
(* EnsureOffset.                                                           *)
Ensured(p, length) == IF p > length THEN length ELSE p

(* RangeSet::DidDeleteAt, for one end of a range.                          *)
OffsetAfterDelete(o, start, end) ==
  IF o <= start THEN o ELSE IF o >= end THEN o - (end - start) ELSE start

(* Mutant of OffsetAfterInsert: an offset at p stays.                      *)
OffsetAfterInsertBehind(o, p, n) == IF o > p THEN o + n ELSE o

(* RangeSet::DidInsertBefore, for one end of a range.                      *)
OffsetAfterInsert(o, p, n) == IF o >= p THEN o + n ELSE o

RangesAfterDelete(start, end) ==
  [h \in Holder |-> [start |-> OffsetAfterDelete(range[h].start, start, end),
                     end |-> OffsetAfterDelete(range[h].end, start, end)]]

RangesAfterInsert(rs, p, n) ==
  [h \in Holder |-> [start |-> OffsetAfterInsert(rs[h].start, p, n),
                     end |-> OffsetAfterInsert(rs[h].end, p, n)]]

(* Mutant of NewRange: the ends are put in order before they are cut.      *)
NewRangeUncut(start, end, length) ==
  [start |-> IF start <= end THEN start ELSE end,
   end |-> Ensured(IF start <= end THEN end ELSE start, length)]

(* SetRange in a text of the length: the ends are cut to the text and put  *)
(* in order.                                                               *)
NewRange(start, end, length) ==
  LET a == Ensured(start, length)
      b == Ensured(end, length)
  IN  [start |-> IF a <= b THEN a ELSE b, end |-> IF a <= b THEN b ELSE a]

-----------------------------------------------------------------------------
RangesInit ==
  /\ Init
  /\ range = [h \in Holder |-> [start |-> 0, end |-> 0]]

GetLine(p) == Get(p) /\ range' = range

Insert(p, s) ==
  /\ InsertBefore(p, s)
  /\ range' = RangesAfterInsert(range, p, Len(s))

Remove(start, end) ==
  /\ Delete(start, end)
  /\ range' = RangesAfterDelete(start, end)

(* Range::SetRange; scripts and views pass offsets that an edit may have   *)
(* put behind the end of the text.                                         *)
SetRange(h, start, end) ==
  /\ range' = [range EXCEPT ![h] = NewRange(start, end, Len(text))]
  /\ UNCHANGED vars

(* Mutant of TextStart: the start after the edits moved the range.         *)
TextStartMoved(h, s) ==
  OffsetAfterInsert(OffsetAfterDelete(range[h].start, range[h].start, range[h].end),
                    range[h].start, Len(s))

(* Where set_text sets the range to, read before the edits.                *)
TextStart(h, s) == range[h].start

(* Range::set_text: Replace deletes and inserts, observed one by one, an   *)
(* edit of nothing by nobody; then the range is set to the new text.       *)
SetText(h, s) ==
  LET start == range[h].start
      end == range[h].end
      rest == Removed(text, start, end)
      moved == RangesAfterInsert(RangesAfterDelete(start, end), start, Len(s))
  IN  /\ Len(rest) + Len(s) <= MaxLength
      /\ text' = Inserted(rest, start, s)
      /\ map' = IF start = end /\ s = << >> THEN map ELSE InvalidateCache(map, start)
      /\ range' = [moved EXCEPT ![h] = NewRange(TextStart(h, s), TextStart(h, s) + Len(s),
                                                Len(rest) + Len(s))]

RangesNext ==
  \/ \E p \in 0..Len(text) :
       \/ GetLine(p)
       \/ \E s \in Texts : Insert(p, s)
  \/ \E start, end \in 0..Len(text) : Remove(start, end)
  \/ \E h \in Holder :
       \/ \E start, end \in 0..(MaxLength + 1) : SetRange(h, start, end)
       \/ \E s \in Texts \cup {<< >>} : SetText(h, s)

RangesSpec == RangesInit /\ [][RangesNext]_allVars

-----------------------------------------------------------------------------
(* Properties                                                              *)

(* Every range stays a range of the text, however the text shrinks under   *)
(* it and whatever offsets it is set to.                                   *)
RangesInside ==
  /\ TypeOK
  /\ range \in [Holder -> [start : Nat, end : Nat]]
  /\ \A h \in Holder : range[h].start <= range[h].end /\ range[h].end <= Len(text)

Covered(t, rg) == Slice(t, rg.start, rg.end)

(* An edit changes what a range covers only where it edits: a deletion     *)
(* takes just its characters out of the range, an insertion inside the     *)
(* range or at its end adds just the new ones, and one at its start or in  *)
(* front moves it.                                                         *)
RangesKeepText ==
  [][\A h \in Holder :
       LET from == range[h].start
           to == range[h].end
           clip(o) == IF o < from THEN from ELSE IF o > to THEN to ELSE o
       IN  /\ \A start, end \in 0..Len(text) :
                Remove(start, end) =>
                  Covered(text', range'[h]) =
                    Removed(Covered(text, range[h]), clip(start) - from, clip(end) - from)
           /\ \A p \in 0..Len(text) : \A s \in Texts :
                Insert(p, s) =>
                  Covered(text', range'[h]) =
                    IF from < p /\ p <= to
                    THEN Inserted(Covered(text, range[h]), p - from, s)
                    ELSE Covered(text, range[h])]_allVars

(* After set_text the range covers the new text, although its own edits    *)
(* moved it like any other range.                                          *)
SetTextCovers ==
  [][\A h \in Holder : \A s \in Texts \cup {<< >>} :
       SetText(h, s) => Covered(text', range'[h]) = s]_allVars
=============================================================================
