------------------------------ MODULE BlockFlow ------------------------------
(***************************************************************************)
(* layout::BlockFlow, the rows of text a view shows, over its cache of     *)
(* formatted rows, RootInlineBoxCache, and the formatter that makes them,  *)
(* on a buffer with one set of markers.  Cache and view observe the edits  *)
(* of the buffer and the changes of the markers; rows are formatted again  *)
(* when somebody asks for them.  A character is one column wide; widths    *)
(* leave the left margin out, and all rows have the same height.           *)
(***************************************************************************)
EXTENDS MarkerSet, TextOps, FiniteSetsExt, SequencesExt

CONSTANTS
  Char,       \* the characters
  Newline,    \* the newline character, 0x0A
  Texts,      \* the texts callers insert
  Sizes,      \* what a view can have: columns before the text wraps, and zoom
  Height      \* the height of the view, in half rows

ASSUME NewlineAssumption == Newline \in Char
(* Buffer::InsertBefore returns early when there is nothing to insert.     *)
ASSUME TextsAssumption == Texts \subseteq Seq(Char) \ {<< >>}
(* HasRoomFor lets the first character of a row in, however wide it is.    *)
ASSUME SizesAssumption == \A s \in Sizes : s.columns \in Nat \ {0}
(* A view shows more than one row: of a view with one row, ScrollUp        *)
(* discards that row and reads the first of the rest, which is empty.      *)
ASSUME HeightAssumption == Height \in Nat /\ Height >= 3

VARIABLES
  text,       \* the characters of the buffer
  size,       \* bounds_.width() and zoom_ of the view
  cacheSize,  \* bounds_.width() and zoom_ of the cache
  rows,       \* lines_ of the cache, the map by end offset, as a set
  view,       \* lines_ of the view, rows that the cache owns
  viewStart   \* view_start_

layoutVars == <<size, cacheSize, rows, view, viewStart>>
allVars == <<vars, text, layoutVars>>

-----------------------------------------------------------------------------
(* A loop of the code: what becomes of x when Step is taken as long as     *)
(* Again holds; n rounds are enough, each loop says why.                   *)
While(Again(_), Step(_), x, n) ==
  LET round[i \in 0..n] ==
        IF i = 0 THEN x
        ELSE LET y == round[i - 1] IN IF Again(y) THEN Step(y) ELSE y
  IN  round[n]

-----------------------------------------------------------------------------
(* The formatter                                                           *)

(* Buffer::ComputeStartOfLine.                                             *)
LineStart(t, p) == Max({0} \cup {k \in 1..p : t[k] = Newline})

Cells(from, n) == [i \in 1..n |-> <<text[from + i], ColorOf(markers, from + i - 1)>>]

(* FormatLine: the characters from p up to a newline, the end of the text  *)
(* or the last column, and a box that says which it was.  The line that    *)
(* the row is part of starts at `line`.                                    *)
FormatRow(line, p) ==
  LET stops == {k \in 0..Min({size.columns, Len(text) - p}) :
                  p + k = Len(text) \/ text[p + k + 1] = Newline}
      n == IF stops = {} THEN size.columns ELSE Min(stops)
  IN  [line |-> line, start |-> p, cells |-> Cells(p, n),
       end |-> IF stops = {} THEN p + n ELSE p + n + 1,
       box |-> IF stops = {} THEN "LineWrap"
               ELSE IF p + n = Len(text) THEN "EndOfDocument" ELSE "EndOfLine"]

-----------------------------------------------------------------------------
(* The cache                                                               *)

IsContinued(r) == r.line # r.start

(* The row FindLine returns, or none.                                      *)
FindLine(rs, p) ==
  {r \in rs : r.start <= p /\ r.end > p /\ \A s \in rs : s.end > p => r.end <= s.end}

Register(rs, r) == {s \in rs : s.end # r.end} \cup {r}

(* RemoveOverwapLines: the rows that cross the range, and the continued    *)
(* rows that follow.                                                       *)
RemoveRows(rs, start, end) ==
  LET rest == {r \in rs : r.end > start /\ r.start >= end}
  IN  {r \in rs : r.end <= start}
        \cup {r \in rest : \E s \in rest : s.end <= r.end /\ ~IsContinued(s)}

(* RelocateLines.                                                          *)
Relocate(rs, p, delta) ==
  {r \in rs : r.end <= p}
    \cup {[r EXCEPT !.line = @ + delta, !.start = @ + delta, !.end = @ + delta] :
            r \in {s \in rs : s.end > p}}

(* Mutant of RowsAfterDelete: the row at the end of the range stays.       *)
RowsAfterDeleteOnly(rs, start, end) ==
  Relocate(RemoveRows(rs, start, end), start, start - end)

(* RootInlineBoxCache::DidDeleteAt: the row that starts at the end of the  *)
(* range may join the one in front of it.                                  *)
RowsAfterDelete(rs, start, end) ==
  Relocate(RemoveRows(rs, start, end + 1), start, start - end)

(* RootInlineBoxCache::DidInsertBefore.                                    *)
RowsAfterInsert(rs, p, n) == Relocate(RemoveRows(rs, p, p + n), p + n, n)

(* EnsureTextLineCache, Invalidate: another zoom drops every row, another  *)
(* width those that are wrapped or too long for it.  The box at the end of *)
(* a row is one column wide, the room kept for it is one more.             *)
Validated ==
  IF cacheSize.zoom # size.zoom THEN {}
  ELSE IF cacheSize.columns = size.columns THEN rows
  ELSE {r \in rows : /\ Len(r.cells) <= size.columns + 1
                     /\ ~IsContinued(r) /\ r.box # "LineWrap"}

-----------------------------------------------------------------------------
(* A formatter at work: the cache, where the formatter is, and the rows it *)
(* has given.                                                              *)
Formatter(rs, line, p) == [rows |-> rs, line |-> line, offset |-> p, given |-> << >>]

(* BlockFlow::FormatLine: the next row, from the cache or a new one.       *)
NextRow(f) ==
  LET found == FindLine(f.rows, f.offset)
      r == IF found = {} THEN FormatRow(f.line, f.offset) ELSE CHOOSE s \in found : TRUE
  IN  [rows |-> IF found = {} THEN Register(f.rows, r) ELSE f.rows,
       line |-> IF r.box = "EndOfLine" THEN r.end ELSE r.line,
       offset |-> r.end,
       given |-> Append(f.given, r)]

(* Rows are not empty, so there are no more of them than characters and    *)
(* the end of the document.                                                *)
MaxRows == Len(text) + 1

(* Mutant of Reach: a row that ends at p is taken.                         *)
ReachEarly(f, p) == While(LAMBDA g : p > g.offset, NextRow, NextRow(f), MaxRows)

(* The rows from where f is up to the one p is in.                         *)
Reach(f, p) == While(LAMBDA g : p >= g.offset, NextRow, NextRow(f), MaxRows)

RowsUpTo(rs, p) == Reach(Formatter(rs, LineStart(text, p), LineStart(text, p)), p)

(* The first loop of Format: rows until the view or the text is full.      *)
Fill(f) ==
  While(LAMBDA g : 2 * Len(g.given) < Height /\ g.offset <= Len(text), NextRow,
        NextRow(f), MaxRows)

(* The second loop of Format: scroll until p is shown.                     *)
ScrollTo(f, p) ==
  While(LAMBDA g : g.offset < Len(text) /\ p > Head(g.given).end,
        LAMBDA g : NextRow([g EXCEPT !.given = Tail(@)]), f, MaxRows)

Format(rs, p) == ScrollTo(Fill(Formatter(rs, LineStart(text, p), LineStart(text, p))), p)

(* What a view shows of a cache: the rows, the offset they start at, and    *)
(* whether the last operation has scrolled.                                *)
Shown(rs, v, start, did) == [rows |-> rs, view |-> v, start |-> start, did |-> did]

(* What the view shows when it has been formatted.                         *)
ShownFrom(f) == Shown(f.rows, f.given, Head(f.given).start, FALSE)

(* FormatIfNeeded.                                                         *)
Formatted(l) ==
  IF l.view = << >> \/ \E i \in DOMAIN l.view : FindLine(l.rows, l.view[i].start) # {l.view[i]}
  THEN ShownFrom(Format(l.rows, l.start))
  ELSE [l EXCEPT !.did = FALSE]

(* IsShowEndOfDocument.                                                    *)
ShowsEnd(v) == Last(v).box = "EndOfDocument" /\ 2 * Len(v) <= Height

(* The loop of ScrollUp: the first row goes, and more as long as the view   *)
(* does not show the last row of the document completely.                  *)
DropFirst(v) ==
  SubSeq(v, IF Last(v).box = "EndOfDocument" THEN Len(v) + 1 - Height \div 2 ELSE 2, Len(v))

(* Prepend, and DiscardLastLine while there are more rows than have room.  *)
Prepended(l, g) ==
  LET v == <<Last(g.given)>> \o l.view
  IN  Shown(g.rows, SubSeq(v, 1, Min({Len(v), (Height + 1) \div 2})), Head(v).start, TRUE)

(* ScrollDown: the row above comes into view.                              *)
DownOne(l) == IF l.start = 0 THEN l ELSE Prepended(l, RowsUpTo(l.rows, l.start - 1))

ScrolledDown(l) == DownOne(Formatted(l))

(* ScrollUp: the first row goes out of view, the next one comes.           *)
Advanced(l, rest, g) ==
  Shown(g.rows, rest \o g.given, Head(rest).start, TRUE)

UpOne(l) ==
  LET last == Last(l.view)
      line == IF last.box = "EndOfLine" THEN last.end ELSE last.line
  IN  IF ShowsEnd(l.view) THEN l
      ELSE Advanced(l, DropFirst(l.view),
                    IF last.box = "EndOfDocument" THEN Formatter(l.rows, line, last.end)
                    ELSE NextRow(Formatter(l.rows, line, last.end)))

ScrolledUp(l) == UpOne(Formatted(l))

(* IsFullyVisibleTextPosition.                                             *)
FullyVisible(v, p) ==
  Head(v).start <= p /\ p < v[Min({Len(v), Height \div 2})].end

Scrolled(l, up) == IF up THEN ScrolledUp(l) ELSE ScrolledDown(l)

(* A row towards p after n rows, and whether ScrollToPosition returns.     *)
OneTowards(l, p, up, n) ==
  LET k == Scrolled(l, up)
  IN  [layout |-> IF k.did THEN k ELSE [k EXCEPT !.did = n > 0], scrolled |-> n + 1,
       over |-> ~k.did \/ FullyVisible(k.view, p)]

(* Mutant of Towards: one row is taken to be enough.                       *)
TowardsBlind(l, p) == [OneTowards(l, p, p > l.start, 0) EXCEPT !.over = TRUE]

(* The first loops of ScrollToPosition: up to half a view row by row, to   *)
(* show p.                                                                 *)
Towards(l, p) ==
  While(LAMBDA t : ~t.over /\ 4 * t.scrolled < Height,
        LAMBDA t : OneTowards(t.layout, p, p > l.start, t.scrolled),
        [layout |-> l, scrolled |-> 0, over |-> FALSE], Height)

(* Scroll up until p is visible; each row that goes was not empty.         *)
UpTo(l, p) ==
  While(LAMBDA k : k.did /\ ~FullyVisible(k.view, p), ScrolledUp,
        [l EXCEPT !.did = TRUE], MaxRows)

(* Scroll down as long as the end of the buffer is visible, and back once. *)
Downmost(l) ==
  LET k == While(LAMBDA m : m.did /\ FullyVisible(m.view, Len(text)), ScrolledDown,
                 [l EXCEPT !.did = TRUE], MaxRows)
  IN  IF k.did THEN ScrolledUp(k) ELSE k

(* Scroll down until the row that is n rows below the top is in the middle *)
(* of the view.                                                            *)
Centered(l, n) ==
  While(LAMBDA t : t.layout.did /\ 4 * t.scrolled < Height,
        LAMBDA t : [layout |-> ScrolledDown(t.layout), scrolled |-> t.scrolled + 1],
        [layout |-> [l EXCEPT !.did = TRUE], scrolled |-> n], Height).layout

(* The rest of ScrollToPosition, for p more than half a view away.  Its    *)
(* last loop, for a position below the middle, does nothing: what it       *)
(* compares with half of the view is more than that.                       *)
Placed(m, p) ==
  IF ~m.did THEN m
  ELSE IF Last(m.view).end >= Len(text) THEN Downmost(m)
  ELSE Centered(m, Cardinality({i \in DOMAIN m.view : m.view[i].end <= p}))

JumpedTo(t, p) ==
  IF t.over THEN t.layout
  ELSE Placed(UpTo(ShownFrom(Format(t.layout.rows, p)), p), p)

(* ScrollToPosition.                                                       *)
MovedTo(l, p) == IF FullyVisible(l.view, p) THEN l ELSE JumpedTo(Towards(l, p), p)

ScrolledTo(l, p) == MovedTo(Formatted(l), p)

-----------------------------------------------------------------------------
LayoutInit ==
  /\ Init
  /\ text = << >>
  /\ size \in Sizes
  /\ cacheSize = [columns |-> 0, zoom |-> 0]
  /\ rows = {} /\ view = << >> /\ viewStart = 0

(* What every reader of the layout leaves.                                 *)
Show(rs, v, start) ==
  /\ rows' = rs
  /\ view' = v
  /\ viewStart' = start
  /\ cacheSize' = size
  /\ UNCHANGED <<vars, text, size>>

Current == Shown(Validated, view, viewStart, FALSE)

ShowOf(l) == Show(l.rows, l.view, l.start)

(* ComputeStartOfLine, ComputeEndOfLine and MapPointXToOffset of a         *)
(* position, by the script.                                                *)
ComputeLine(p) ==
  Show(IF FindLine(Validated, p) = {} THEN RowsUpTo(Validated, p).rows ELSE Validated,
       view, viewStart)

(* The view reformats, scrolls, or moves to a position; FormatIfNeeded is  *)
(* also what painting does first.                                          *)
FormatIfNeeded == ShowOf(Formatted(Current))

ScrollDown == ShowOf(ScrolledDown(Current))

ScrollUp == ShowOf(ScrolledUp(Current))

(* TextView::Update with a caret that has moved.                           *)
ScrollToPosition(p) == ShowOf(ScrolledTo(Current, p))

(* SetBounds and SetZoom, which mark the view dirty.                       *)
Resize(new) ==
  /\ new # size
  /\ size' = new
  /\ view' = << >>
  /\ UNCHANGED <<vars, text, cacheSize, rows, viewStart>>

(* Mutant of Observe: the view keeps its rows.                             *)
ObserveLazily(rs, start) ==
  /\ rows' = rs
  /\ view' = view
  /\ viewStart' = start
  /\ UNCHANGED <<size, cacheSize>>

(* What cache and view leave of an edit: the view forgets its rows.        *)
Observe(rs, start) ==
  /\ rows' = rs
  /\ view' = << >>
  /\ viewStart' = start
  /\ UNCHANGED <<size, cacheSize>>

(* view_start_ after a deletion.                                           *)
StartAfterDelete(start, end) ==
  IF viewStart <= start THEN viewStart
  ELSE IF viewStart <= end THEN start ELSE viewStart - (end - start)

InsertBefore(p, s) ==
  /\ DidInsertBefore(p, Len(s))
  /\ text' = Inserted(text, p, s)
  /\ Observe(RowsAfterInsert(rows, p, Len(s)),
             IF viewStart <= p THEN viewStart ELSE viewStart + Len(s))

Delete(start, end) ==
  /\ DidDeleteAt(start, end)
  /\ text' = Removed(text, start, end)
  /\ Observe(RowsAfterDelete(rows, start, end), StartAfterDelete(start, end))

(* DidChangeMarker, and DidChangeStyle of the buffer for its own sets.     *)
SetMarker(start, end, type) ==
  /\ InsertMarker(start, end, type)
  /\ text' = text
  /\ IF notified' = {} THEN UNCHANGED layoutVars
     ELSE Observe({r \in rows : \A p \in notified' : r \in RemoveRows(rows, p, p + 1)},
                  viewStart)

LayoutNext ==
  \/ \E p \in 0..length :
       \/ ComputeLine(p)
       \/ ScrollToPosition(p)
       \/ \E s \in Texts : InsertBefore(p, s)
  \/ \E start, end \in 0..length :
       \/ Delete(start, end)
       \/ \E type \in Type \cup {NoType} : SetMarker(start, end, type)
  \/ \E new \in Sizes : Resize(new)
  \/ FormatIfNeeded \/ ScrollDown \/ ScrollUp

LayoutSpec == LayoutInit /\ [][LayoutNext]_allVars

-----------------------------------------------------------------------------
(* Properties                                                              *)

(* Types; rows are not empty and are inside the text.                      *)
LayoutTypeOK ==
  /\ text \in Seq(Char) /\ Len(text) = length
  /\ viewStart \in 0..length
  /\ \A r \in rows : r.line <= r.start /\ r.start < r.end /\ r.end <= length + 1

(* No two cached rows overlap, or the map by end offset would lose a row   *)
(* the view still points to (the DCHECKs of RootInlineBoxCache::Insert).   *)
(* A cached row shows the text and the sticky colors that are there now,   *)
(* it ends with the box of a newline or of the end of the text exactly     *)
(* when one is there and it is not wrapped, and it knows the line it is    *)
(* part of (the DCHECK of TextFormatter).                                  *)
RowsShowText ==
  /\ LayoutTypeOK
  /\ \A r, s \in rows : r # s => r.end <= s.start \/ s.end <= r.start
  /\ \A r \in rows :
      LET after == r.start + Len(r.cells)
      IN  /\ after <= length
          /\ IF kind = "Sticky" THEN r.cells = Cells(r.start, Len(r.cells))
             ELSE \A i \in DOMAIN r.cells : r.cells[i][1] = text[r.start + i]
          /\ r.box = "EndOfLine" => r.end = after + 1 /\ text[r.end] = Newline
          /\ r.box = "EndOfDocument" => after = length
          /\ r.box = "LineWrap" => r.end = after
          /\ r.line = LineStart(text, r.start)

(* The view's pointers to rows are to rows the cache still owns, whatever  *)
(* edits, queries and scrolls drop or replace rows of the cache.           *)
ViewOwned == Range(view) \subseteq rows

(* The view shows one stretch of text from view_start_ on: each row begins *)
(* where the row above ends (the DCHECK of Append).                        *)
ViewUnbroken ==
  /\ \A i \in 2..Len(view) : view[i].start = view[i - 1].end
  /\ view # << >> => Head(view).start = viewStart

(* TextView::Update shows the caret: in whatever state cache and view are, *)
(* ScrollToPosition ends with the position in a row that is fully visible. *)
CaretShown == \A p \in 0..length : FullyVisible(ScrolledTo(Current, p).view, p)

(* Where the text ends there is no end of a line: it does not end with a   *)
(* newline, and no row of the cache, wrapped when there was more text,     *)
(* ends there.                                                             *)
EndsMarked ==
  /\ length > 0 => text[length] # Newline
  /\ \A r \in Validated : r.end # length

(* It does so in a view of whole rows, when a row that ends where the text *)
(* ends is the last row of the document.  With a part of a row at the      *)
(* bottom, what ScrollToPosition does to show the end of the text can      *)
(* scroll the position out of view again.                                  *)
CaretShownInText == Height % 2 = 0 /\ EndsMarked => CaretShown
=============================================================================
