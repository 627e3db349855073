--------------------------- MODULE BlockFlowProofs ---------------------------
(***************************************************************************)
(* Proofs about MarkerSet, for any set of types and buffers of any length, *)
(* and about BlockFlow, which composes it with the rows of text a view     *)
(* shows, for any texts, sizes and heights.                                *)
(*                                                                         *)
(* Markers.  MarkersApart is inductive as it stands.  The lemmas say of    *)
(* each part of the algorithm that it keeps a set of markers apart:        *)
(* cutting also makes room, which is what inserting needs; merging         *)
(* replaces neighbours by one marker that covers just them; and an edit    *)
(* moves all ends by a function that keeps their order (Moves).  Because   *)
(* they are apart, a character has the type of the one marker that covers  *)
(* it (ColorCovered).  What each operation does to that color gives the    *)
(* notifications and the refinement of MarkerColors.                       *)
(*                                                                         *)
(* Layout.  A row that is in the cache shows its text (ShowsText), does    *)
(* not overlap another one, and, when it continues a wrapped line, has the *)
(* row in front of it in the cache too (Led): that is what RemoveRows and  *)
(* Relocate rely on when they keep the rows behind an edit, and what makes *)
(* the row a formatter gives next fit between those there are.  The view   *)
(* is a stretch of cached rows (Stretch) that starts at view_start_ and is *)
(* full or reaches the end of the text (FullView), without which ScrollUp  *)
(* would discard the last row it has.  LayoutInv says so of every state;   *)
(* Formatters and Layouts say it of a formatter and of a view while an     *)
(* operation runs, and the rounds of every loop stay among them (Looped).  *)
(*                                                                         *)
(* The caret.  In a view of whole rows ScrollToPosition shows p when p is  *)
(* from the start of the view up to the end of its last row (Seen).  A row *)
(* towards p does not pass it (TowardsSees); scrolling up a row at a time  *)
(* gets to it, as the last row ends further down each time (UpToSees);     *)
(* scrolling down until the end of the text is out of view stops before p  *)
(* is (AtEnd), and centering pushes the row p is in down by one row each   *)
(* time, no further than to the middle (RowWith, CenteredSees).            *)
(***************************************************************************)
EXTENDS BlockFlow, SequenceTheorems, FiniteSetTheorems, WellFoundedInduction, TLAPS

(* MarkersApart of a set of markers in a buffer of n characters.           *)
Apart(ms, n) ==
  /\ ms \subseteq Marker
  /\ \A m \in ms : m.start < m.end /\ m.end <= n
  /\ \A m, k \in ms : m # k => m.end <= k.start \/ k.end <= m.start

(* No marker reaches into [start, end).                                    *)
Clear(ms, start, end) == \A m \in ms : m.end <= start \/ end <= m.start

LEMMA MarkerFields ==
  ASSUME NEW m \in Marker
  PROVE  m.start \in Nat /\ m.end \in Nat /\ m.type \in Type
BY DEF Marker

LEMMA SameFields ==
  ASSUME NEW m \in Marker, NEW k \in Marker,
         m.start = k.start, m.end = k.end, m.type = k.type
  PROVE  m = k
BY DEF Marker

LEMMA WithEnds ==
  ASSUME NEW m \in Marker, NEW a \in Nat, NEW b \in Nat
  PROVE  [m EXCEPT !.start = a, !.end = b] = [start |-> a, end |-> b, type |-> m.type]
<1> DEFINE c == [m EXCEPT !.start = a, !.end = b]
           d == [start |-> a, end |-> b, type |-> m.type]
<1>1. c \in Marker /\ c.start = a /\ c.end = b /\ c.type = m.type
  BY DEF Marker
<1>2. d \in Marker /\ d.start = a /\ d.end = b /\ d.type = m.type
  BY MarkerFields DEF Marker
<1> HIDE DEF c, d
<1>3. c = d
  BY <1>1, <1>2, SameFields
<1>4. QED
  BY <1>3 DEF c, d

(* What remains after a cut is apart and leaves the range free.            *)
LEMMA CutApart ==
  ASSUME NEW n \in Nat, NEW ms, Apart(ms, n),
         NEW start \in 0..n, NEW end \in 0..n, start < end
  PROVE  Apart(Cut(ms, start, end), n) /\ Clear(Cut(ms, start, end), start, end)
<1> DEFINE hit == Overlapping(ms, start, end)
           left(m) == [start |-> m.start, end |-> start, type |-> m.type]
           right(m) == [start |-> end, end |-> m.end, type |-> m.type]
           outside == ms \ hit
           lefts == {left(m) : m \in {h \in hit : h.start < start}}
           rights == {right(m) : m \in {h \in hit : h.end > end}}
           cut == outside \cup lefts \cup rights
<1>1. Cut(ms, start, end) = cut
  BY DEF Cut
<1>2. ASSUME NEW m \in ms
      PROVE  /\ m.start \in Nat /\ m.end \in Nat /\ m.type \in Type
             /\ m.start < m.end /\ m.end <= n
  BY <1>2, MarkerFields DEF Apart
<1>3. ASSUME NEW c \in cut
      PROVE  /\ c \in Marker /\ c.start < c.end /\ c.end <= n
             /\ c.end <= start \/ end <= c.start
             /\ \E m \in ms : /\ m.start <= c.start /\ c.end <= m.end
                              /\ \/ c = m
                                 \/ m \in hit /\ c = left(m)
                                 \/ m \in hit /\ c = right(m)
  <2>1. CASE c \in outside
    <3>1. c \in ms /\ c \notin hit
      BY <2>1
    <3>2. c.end <= start \/ end <= c.start
      BY <1>2, <3>1 DEF Overlapping
    <3>3. c \in Marker
      BY <3>1 DEF Apart
    <3>4. QED
      BY <1>2, <3>1, <3>2, <3>3
  <2>2. CASE c \in lefts
    <3>1. PICK m \in hit : m.start < start /\ c = left(m)
      BY <2>2
    <3>2. m \in ms /\ m.end > start
      BY <3>1 DEF Overlapping
    <3>3. c.start = m.start /\ c.end = start /\ c \in Marker
      BY <1>2, <3>1, <3>2 DEF Marker
    <3>4. QED
      BY <1>2, <3>1, <3>2, <3>3
  <2>3. CASE c \in rights
    <3>1. PICK m \in hit : m.end > end /\ c = right(m)
      BY <2>3
    <3>2. m \in ms /\ m.start < end
      BY <3>1 DEF Overlapping
    <3>3. c.start = end /\ c.end = m.end /\ c \in Marker
      BY <1>2, <3>1, <3>2 DEF Marker
    <3>4. QED
      BY <1>2, <3>1, <3>2, <3>3
  <2>4. QED
    BY <1>3, <2>1, <2>2, <2>3
<1>4. ASSUME NEW c \in cut, NEW d \in cut, c # d
      PROVE  c.end <= d.start \/ d.end <= c.start
  <2>1. PICK m \in ms : /\ m.start <= c.start /\ c.end <= m.end
                        /\ c = m \/ (m \in hit /\ c = left(m)) \/ (m \in hit /\ c = right(m))
    BY <1>3
  <2>2. PICK k \in ms : /\ k.start <= d.start /\ d.end <= k.end
                        /\ d = k \/ (k \in hit /\ d = left(k)) \/ (k \in hit /\ d = right(k))
    BY <1>3
  <2>3. /\ c.start \in Nat /\ c.end \in Nat /\ c.start < c.end
        /\ d.start \in Nat /\ d.end \in Nat /\ d.start < d.end
        /\ c.end <= start \/ end <= c.start
        /\ d.end <= start \/ end <= d.start
    BY <1>3, MarkerFields
  <2>4. m.start \in Nat /\ m.end \in Nat /\ k.start \in Nat /\ k.end \in Nat
    BY <1>2
  <2>5. CASE m # k
    <3>1. m.end <= k.start \/ k.end <= m.start
      BY <2>5 DEF Apart
    <3>2. QED
      BY <2>1, <2>2, <2>3, <2>4, <3>1
  <2>6. CASE m = k
    <3>1. ASSUME m \in hit PROVE c # m /\ d # m
      <4>1. m.end > start /\ m.start < end
        BY <3>1 DEF Overlapping
      <4>2. QED
        BY <2>3, <2>4, <4>1
    <3>2. (c = left(m) /\ d = right(m)) \/ (c = right(m) /\ d = left(m))
      BY <1>4, <2>1, <2>2, <2>6, <3>1
    <3>3. QED
      BY <3>2
  <2>7. QED
    BY <2>5, <2>6
<1>5. QED
  BY <1>1, <1>3, <1>4 DEF Apart, Clear

(* A marker put into a free range stays apart from the others, with the    *)
(* neighbours of its type merged into it.                                  *)
LEMMA InsertOrMergeApart ==
  ASSUME NEW n \in Nat, NEW ms, Apart(ms, n), NEW type \in Type,
         NEW start \in 0..n, NEW end \in 0..n, start < end, Clear(ms, start, end)
  PROVE  Apart(InsertOrMerge(ms, start, end, type), n)
<1> DEFINE before == {m \in ms : m.end = start /\ m.type = type}
           after == {m \in ms : m.start = end /\ m.type = type}
           from == IF before = {} THEN start ELSE (CHOOSE m \in before : TRUE).start
           to == IF after = {} THEN end ELSE (CHOOSE m \in after : TRUE).end
           new == [start |-> from, end |-> to, type |-> type]
           rest == ms \ (before \cup after)
<1>1. ASSUME NEW m \in ms
      PROVE  /\ m.start \in Nat /\ m.end \in Nat /\ m.start < m.end /\ m.end <= n
             /\ m.end <= start \/ end <= m.start
  BY <1>1, MarkerFields DEF Apart, Clear
<1>2. /\ from \in Nat /\ from <= start
      /\ \A m \in rest : m.end <= start => m.end <= from
  <2>1. CASE before = {}
    BY <2>1
  <2>2. CASE before # {}
    <3> DEFINE b == CHOOSE m \in before : TRUE
    <3>1. b \in before
      BY <2>2
    <3>2. from = b.start /\ b \in ms /\ b.end = start
      BY <2>2, <3>1
    <3>3. b.start \in Nat /\ b.start < b.end
      BY <1>1, <3>2
    <3>4. ASSUME NEW m \in rest, m.end <= start PROVE m.end <= b.start
      <4>1. m \in ms /\ m # b
        BY <3>1
      <4>2. m.end <= b.start \/ b.end <= m.start
        BY <3>2, <4>1 DEF Apart
      <4>3. m.start \in Nat /\ m.end \in Nat /\ m.start < m.end
        BY <1>1, <4>1
      <4> HIDE DEF b
      <4>4. QED
        BY <3>2, <3>3, <3>4, <4>2, <4>3
    <3> HIDE DEF b, from, rest, before
    <3>5. QED
      BY <3>2, <3>3, <3>4
  <2>3. QED
    BY <2>1, <2>2
<1>3. /\ to \in Nat /\ end <= to /\ to <= n
      /\ \A m \in rest : end <= m.start => to <= m.start
  <2>1. CASE after = {}
    BY <2>1
  <2>2. CASE after # {}
    <3> DEFINE a == CHOOSE m \in after : TRUE
    <3>1. a \in after
      BY <2>2
    <3>2. to = a.end /\ a \in ms /\ a.start = end
      BY <2>2, <3>1
    <3>3. a.end \in Nat /\ a.start < a.end /\ a.end <= n
      BY <1>1, <3>2
    <3>4. ASSUME NEW m \in rest, end <= m.start PROVE a.end <= m.start
      <4>1. m \in ms /\ m # a
        BY <3>1
      <4>2. m.end <= a.start \/ a.end <= m.start
        BY <3>2, <4>1 DEF Apart
      <4>3. m.start \in Nat /\ m.end \in Nat /\ m.start < m.end
        BY <1>1, <4>1
      <4> HIDE DEF a
      <4>4. QED
        BY <3>2, <3>3, <3>4, <4>2, <4>3
    <3> HIDE DEF a, to, rest, after
    <3>5. QED
      BY <3>2, <3>3, <3>4
  <2>3. QED
    BY <2>1, <2>2
<1> HIDE DEF from, to
<1>4. new \in Marker /\ new.start = from /\ new.end = to
  BY <1>2, <1>3 DEF Marker
<1>5. \A m \in rest : m.end <= new.start \/ new.end <= m.start
  BY <1>1, <1>2, <1>3, <1>4
<1>6. new.start < new.end /\ new.end <= n
  BY <1>2, <1>3, <1>4
<1>7. InsertOrMerge(ms, start, end, type) = rest \cup {new}
  BY DEF InsertOrMerge, from, to
<1> HIDE DEF new
<1>8. QED
  BY <1>4, <1>5, <1>6, <1>7 DEF Apart

LEMMA NewMarkersApart ==
  ASSUME NEW n \in Nat, NEW ms, Apart(ms, n), NEW type \in Type \cup {NoType},
         NEW start \in 0..n, NEW end \in 0..n, start < end
  PROVE  Apart(NewMarkers(ms, start, end, type), n)
<1> DEFINE cut == Cut(ms, start, end)
           new == [start |-> start, end |-> end, type |-> type]
<1>1. Apart(cut, n) /\ Clear(cut, start, end)
  BY CutApart
<1>2. CASE NoChange(ms, start, end, type) \/ type = NoType
  BY <1>1, <1>2 DEF NewMarkers
<1>3. CASE ~NoChange(ms, start, end, type) /\ type # NoType
  <2>1. type \in Type
    BY <1>3
  <2>2. Apart(cut \cup {new}, n)
    <3>1. new \in Marker /\ new.start = start /\ new.end = end
      BY <2>1 DEF Marker
    <3> HIDE DEF new, cut
    <3>2. QED
      BY <1>1, <3>1 DEF Apart, Clear
  <2>3. Apart(InsertOrMerge(cut, start, end, type), n)
    BY <1>1, <2>1, InsertOrMergeApart
  <2>4. QED
    BY <1>3, <2>2, <2>3 DEF NewMarkers
<1>4. QED
  BY <1>2, <1>3

(* Fewer markers are apart, also in a buffer of another length when none   *)
(* of them ends behind it.                                                 *)
LEMMA FewerApart ==
  ASSUME NEW n \in Nat, NEW ms, Apart(ms, n), NEW l \in Nat,
         NEW some \in SUBSET ms, \A m \in some : m.end <= l
  PROVE  Apart(some, l)
BY DEF Apart

-----------------------------------------------------------------------------
(* Edits of a sticky set move both ends of every marker by one function    *)
(* that keeps the order of offsets.                                        *)
Moves(ms, to) ==
  NonEmpty({[start |-> to[m.start], end |-> to[m.end], type |-> m.type] : m \in ms})

Monotone(to) == to \in [Nat -> Nat] /\ \A a, b \in Nat : a <= b => to[a] <= to[b]

DeleteMove(start, end) ==
  [o \in Nat |-> IF o <= start THEN o ELSE IF o < end THEN start ELSE o - (end - start)]

InsertMove(p, n) == [o \in Nat |-> IF o < p THEN o ELSE o + n]

LEMMA MoveFields ==
  ASSUME NEW ms \in SUBSET Marker, NEW to, Monotone(to), NEW c \in Moves(ms, to)
  PROVE  /\ c \in Marker /\ c.start < c.end
         /\ \E m \in ms : /\ c = [start |-> to[m.start], end |-> to[m.end], type |-> m.type]
                          /\ c.start = to[m.start] /\ c.end = to[m.end] /\ c.type = m.type
<1>1. PICK m \in ms : c = [start |-> to[m.start], end |-> to[m.end], type |-> m.type]
  BY DEF Moves, NonEmpty
<1>2. c.start = to[m.start] /\ c.end = to[m.end] /\ c.type = m.type
  BY <1>1
<1>3. to[m.start] \in Nat /\ to[m.end] \in Nat /\ m.type \in Type
  BY MarkerFields DEF Monotone
<1>4. c \in Marker
  BY <1>1, <1>3 DEF Marker
<1>5. c.start < c.end
  BY DEF Moves, NonEmpty
<1>6. QED
  BY <1>1, <1>2, <1>4, <1>5

(* Markers moved that way stay apart, once those that became empty are     *)
(* gone.                                                                   *)
LEMMA MovesApart ==
  ASSUME NEW n \in Nat, NEW ms, Apart(ms, n), NEW l \in Nat,
         NEW to, Monotone(to), to[n] <= l
  PROVE  Apart(Moves(ms, to), l)
<1>0. ms \in SUBSET Marker
  BY DEF Apart
<1>1. ASSUME NEW c \in Moves(ms, to)
      PROVE  c \in Marker /\ c.start < c.end /\ c.end <= l
  <2>1. PICK m \in ms : c.end = to[m.end]
    BY <1>0, MoveFields
  <2>2. m.end \in Nat /\ m.end <= n
    BY <1>0, MarkerFields DEF Apart
  <2>3. to[m.end] <= to[n] /\ to[m.end] \in Nat /\ to[n] \in Nat
    BY <2>2 DEF Monotone
  <2>4. QED
    BY <1>0, <2>1, <2>3, MoveFields
<1>2. ASSUME NEW c \in Moves(ms, to), NEW d \in Moves(ms, to), c # d
      PROVE  c.end <= d.start \/ d.end <= c.start
  <2>1. PICK m \in ms : /\ c = [start |-> to[m.start], end |-> to[m.end], type |-> m.type]
                        /\ c.start = to[m.start] /\ c.end = to[m.end]
    BY <1>0, MoveFields
  <2>2. PICK k \in ms : /\ d = [start |-> to[k.start], end |-> to[k.end], type |-> k.type]
                        /\ d.start = to[k.start] /\ d.end = to[k.end]
    BY <1>0, MoveFields
  <2>3. m # k
    BY <1>2, <2>1, <2>2
  <2>4. m.end <= k.start \/ k.end <= m.start
    BY <2>3 DEF Apart
  <2>5. m.start \in Nat /\ m.end \in Nat /\ k.start \in Nat /\ k.end \in Nat
    BY <1>0, MarkerFields
  <2>6. QED
    BY <2>1, <2>2, <2>4, <2>5 DEF Monotone
<1>3. QED
  BY <1>1, <1>2 DEF Apart

LEMMA DeleteMoves ==
  ASSUME NEW ms \in SUBSET Marker, NEW start \in Nat, NEW end \in Nat, start < end,
         kind # "Fragile"
  PROVE  /\ AfterDelete(ms, start, end) = Moves(ms, DeleteMove(start, end))
         /\ Monotone(DeleteMove(start, end))
<1> DEFINE to == DeleteMove(start, end)
           Move(m) == [m EXCEPT !.start = IF @ <= start THEN @
                                          ELSE IF @ < end THEN start ELSE @ - (end - start),
                                !.end = IF @ <= start THEN @
                                        ELSE IF @ > end THEN @ - (end - start) ELSE start]
           Image(m) == [start |-> to[m.start], end |-> to[m.end], type |-> m.type]
<1>1. ASSUME NEW m \in ms PROVE Move(m) = Image(m)
  <2>1. m \in Marker /\ m.start \in Nat /\ m.end \in Nat
    BY MarkerFields
  <2>2. Move(m) = [m EXCEPT !.start = to[m.start], !.end = to[m.end]]
    <3>1. to[m.start] = IF m.start <= start THEN m.start
                        ELSE IF m.start < end THEN start ELSE m.start - (end - start)
      BY <2>1 DEF DeleteMove
    <3>2. to[m.end] = IF m.end <= start THEN m.end
                      ELSE IF m.end > end THEN m.end - (end - start) ELSE start
      BY <2>1 DEF DeleteMove
    <3> HIDE DEF to
    <3>3. QED
      BY <2>1, <3>1, <3>2 DEF Marker
  <2>3. to[m.start] \in Nat /\ to[m.end] \in Nat
    BY <2>1 DEF DeleteMove
  <2> HIDE DEF to, Move
  <2>4. [m EXCEPT !.start = to[m.start], !.end = to[m.end]] = Image(m)
    BY <2>1, <2>3, WithEnds
  <2>5. QED
    BY <2>2, <2>4
<1>2. AfterDelete(ms, start, end) = NonEmpty({Move(m) : m \in ms})
  BY DEF AfterDelete
<1>3. Monotone(to)
  BY DEF Monotone, DeleteMove
<1>4. Moves(ms, to) = NonEmpty({Image(m) : m \in ms})
  BY DEF Moves
<1> HIDE DEF to, Move, Image
<1>5. {Move(m) : m \in ms} = {Image(m) : m \in ms}
  BY <1>1
<1>6. AfterDelete(ms, start, end) = Moves(ms, to)
  BY <1>2, <1>4, <1>5
<1>7. QED
  BY <1>3, <1>6 DEF to

LEMMA InsertMoves ==
  ASSUME NEW ms \in SUBSET Marker, NEW p \in Nat, NEW n \in Nat, kind # "Fragile"
  PROVE  /\ AfterInsert(ms, p, n) = Moves(ms, InsertMove(p, n))
         /\ Monotone(InsertMove(p, n))
<1> DEFINE to == InsertMove(p, n)
           Move(m) == [m EXCEPT !.start = IF @ < p THEN @ ELSE @ + n,
                                !.end = IF @ < p THEN @ ELSE @ + n]
           Image(m) == [start |-> to[m.start], end |-> to[m.end], type |-> m.type]
<1>1. ASSUME NEW m \in ms PROVE Move(m) = Image(m)
  <2>1. m \in Marker /\ m.start \in Nat /\ m.end \in Nat
    BY MarkerFields
  <2>2. Move(m) = [m EXCEPT !.start = to[m.start], !.end = to[m.end]]
    BY <2>1 DEF Marker, InsertMove
  <2>3. to[m.start] \in Nat /\ to[m.end] \in Nat
    BY <2>1 DEF InsertMove
  <2> HIDE DEF to, Move
  <2>4. [m EXCEPT !.start = to[m.start], !.end = to[m.end]] = Image(m)
    BY <2>1, <2>3, WithEnds
  <2>5. QED
    BY <2>2, <2>4
<1>2. AfterInsert(ms, p, n) = NonEmpty({Move(m) : m \in ms})
  BY DEF AfterInsert
<1>3. Monotone(to)
  BY DEF Monotone, InsertMove
<1>4. Moves(ms, to) = NonEmpty({Image(m) : m \in ms})
  BY DEF Moves
<1> HIDE DEF to, Move, Image
<1>5. {Move(m) : m \in ms} = {Image(m) : m \in ms}
  BY <1>1
<1>6. AfterInsert(ms, p, n) = Moves(ms, to)
  BY <1>2, <1>4, <1>5
<1>7. QED
  BY <1>3, <1>6 DEF to

LEMMA AfterDeleteApart ==
  ASSUME NEW n \in Nat, NEW ms, Apart(ms, n),
         NEW start \in 0..n, NEW end \in 0..n, start < end
  PROVE  Apart(AfterDelete(ms, start, end), n - (end - start))
<1>1. n - (end - start) \in Nat /\ ms \in SUBSET Marker
  BY DEF Apart
<1>2. CASE kind = "Fragile"
  <2>1. AfterDelete(ms, start, end) = {m \in ms : m.end <= start}
    BY <1>2 DEF AfterDelete
  <2>2. \A m \in {k \in ms : k.end <= start} : m.end <= n - (end - start)
    BY <1>1, MarkerFields
  <2>3. QED
    BY <1>1, <2>1, <2>2, FewerApart
<1>3. CASE kind # "Fragile"
  <2>1. DeleteMove(start, end)[n] <= n - (end - start)
    BY DEF DeleteMove
  <2>2. QED
    BY <1>1, <1>3, <2>1, DeleteMoves, MovesApart
<1>4. QED
  BY <1>2, <1>3

LEMMA AfterInsertApart ==
  ASSUME NEW l \in Nat, NEW ms, Apart(ms, l), NEW p \in 0..l, NEW n \in Nat
  PROVE  Apart(AfterInsert(ms, p, n), l + n)
<1>1. l + n \in Nat /\ ms \in SUBSET Marker
  BY DEF Apart
<1>2. CASE kind = "Fragile"
  <2>1. AfterInsert(ms, p, n) = {m \in ms : m.end < p}
    BY <1>2 DEF AfterInsert
  <2>2. \A m \in {k \in ms : k.end < p} : m.end <= l + n
    BY <1>1, MarkerFields
  <2>3. QED
    BY <1>1, <2>1, <2>2, FewerApart
<1>3. CASE kind # "Fragile"
  <2>1. InsertMove(p, n)[l] <= l + n
    BY DEF InsertMove
  <2>2. QED
    BY <1>1, <1>3, <2>1, InsertMoves, MovesApart
<1>4. QED
  BY <1>2, <1>3

-----------------------------------------------------------------------------
LEMMA InitApart == Init => MarkersApart
BY MaxLengthAssumption DEF Init, MarkersApart, TypeOK

LEMMA NextApart == MarkersApart /\ [Next]_vars => MarkersApart'
<1> SUFFICES ASSUME MarkersApart, [Next]_vars PROVE MarkersApart'
  OBVIOUS
<1>1. length \in Nat /\ length <= MaxLength /\ Apart(markers, length)
  BY MaxLengthAssumption DEF MarkersApart, TypeOK, Apart
<1>2. ASSUME TypeOK', Apart(markers', length') PROVE MarkersApart'
  BY <1>2 DEF MarkersApart, Apart
<1>3. ASSUME NEW start \in 0..length, NEW end \in 0..length,
             NEW type \in Type \cup {NoType}, InsertMarker(start, end, type)
      PROVE  MarkersApart'
  <2>1. Apart(markers', length')
    BY <1>1, <1>3, NewMarkersApart DEF InsertMarker
  <2>2. Changes(markers, start, end, type) \subseteq 0..MaxLength
    BY <1>1, MaxLengthAssumption DEF Changes
  <2>3. TypeOK'
    BY <1>3, <2>1, <2>2 DEF InsertMarker, MarkersApart, TypeOK, Apart
  <2>4. QED
    BY <1>2, <2>1, <2>3
<1>4. ASSUME NEW start \in 0..length, NEW end \in 0..length, DidDeleteAt(start, end)
      PROVE  MarkersApart'
  <2>1. Apart(markers', length')
    BY <1>1, <1>4, AfterDeleteApart DEF DidDeleteAt
  <2>2. length' \in 0..MaxLength
    BY <1>1, <1>4, MaxLengthAssumption DEF DidDeleteAt
  <2>3. TypeOK'
    BY <1>4, <2>1, <2>2 DEF DidDeleteAt, MarkersApart, TypeOK, Apart
  <2>4. QED
    BY <1>2, <2>1, <2>3
<1>5. ASSUME NEW p \in 0..length, NEW n \in 1..MaxLength, DidInsertBefore(p, n)
      PROVE  MarkersApart'
  <2>0. n \in Nat
    BY MaxLengthAssumption
  <2>1. Apart(markers', length')
    BY <1>1, <1>5, <2>0, AfterInsertApart DEF DidInsertBefore
  <2>2. length' \in 0..MaxLength
    BY <1>1, <1>5, <2>0, MaxLengthAssumption DEF DidInsertBefore
  <2>3. TypeOK'
    BY <1>5, <2>1, <2>2 DEF DidInsertBefore, MarkersApart, TypeOK, Apart
  <2>4. QED
    BY <1>2, <2>1, <2>3
<1>6. CASE UNCHANGED vars
  BY <1>6 DEF vars, MarkersApart, TypeOK
<1>7. QED
  BY <1>3, <1>4, <1>5, <1>6 DEF Next

(* Whatever is assigned, split, merged, moved, cut and removed, markers    *)
(* never overlap and none is empty or reaches behind the buffer            *)
(* (MarkerSet::InsertMarker, DidDeleteAt, DidInsertBefore and the map by   *)
(* end offset that they edit).                                             *)
THEOREM MarkersStayApart == Spec => []MarkersApart
BY InitApart, NextApart, PTL DEF Spec

-----------------------------------------------------------------------------
(* Colors: the character at p has the type of the one marker that covers   *)
(* it.  The search by end offset of GetLowerBoundMarker finds that marker  *)
(* because the markers are apart.                                          *)
Covers(m, p) == m.start <= p /\ p < m.end

LEMMA ColorCovered ==
  ASSUME NEW n \in Nat, NEW ms, Apart(ms, n), NEW p \in Nat, NEW m \in ms, Covers(m, p)
  PROVE  ColorOf(ms, p) = m.type
<1>1. ASSUME NEW k \in ms, k # m PROVE k.end <= m.start \/ m.end <= k.start
  BY <1>1 DEF Apart
<1>2. ASSUME NEW k \in ms PROVE k.start \in Nat /\ k.end \in Nat /\ k.start < k.end
  BY MarkerFields DEF Apart
<1>3. ASSUME NEW k \in ms, k.end > p PROVE m.end <= k.end
  BY <1>1, <1>2, <1>3 DEF Covers
<1>4. ASSUME NEW k \in ms, k.end > p, k.end <= m.end PROVE k = m
  BY <1>1, <1>2, <1>4 DEF Covers
<1>5. LowerBound(ms, p) = {m}
  BY <1>2, <1>3, <1>4 DEF LowerBound, Covers
<1>6. MarkerAt(ms, p) = {m}
  BY <1>5 DEF MarkerAt, Covers
<1>7. QED
  BY <1>6 DEF ColorOf

LEMMA ColorFree ==
  ASSUME NEW ms, NEW p, \A m \in ms : ~Covers(m, p)
  PROVE  ColorOf(ms, p) = NoType
BY DEF ColorOf, MarkerAt, LowerBound, Covers

(* Two characters, of two sets, have the same color when the markers that  *)
(* cover them have the same type.                                          *)
LEMMA SameColor ==
  ASSUME NEW n \in Nat, NEW ms, Apart(ms, n), NEW p \in Nat,
         NEW l \in Nat, NEW ks, Apart(ks, l), NEW q \in Nat,
         \A m \in ms : Covers(m, p) => \E k \in ks : Covers(k, q) /\ k.type = m.type,
         \A k \in ks : Covers(k, q) => \E m \in ms : Covers(m, p)
  PROVE  ColorOf(ms, p) = ColorOf(ks, q)
<1>1. CASE \E m \in ms : Covers(m, p)
  <2>1. PICK m \in ms : Covers(m, p)
    BY <1>1
  <2>2. PICK k \in ks : Covers(k, q) /\ k.type = m.type
    BY <2>1
  <2>3. QED
    BY <2>1, <2>2, ColorCovered
<1>2. CASE ~ \E m \in ms : Covers(m, p)
  BY <1>2, ColorFree
<1>3. QED
  BY <1>1, <1>2

(* An assignment gives the range its type and nothing else another.        *)
LEMMA CutColor ==
  ASSUME NEW n \in Nat, NEW ms, Apart(ms, n), NEW p \in Nat,
         NEW start \in 0..n, NEW end \in 0..n, start < end, ~(start <= p /\ p < end)
  PROVE  ColorOf(Cut(ms, start, end), p) = ColorOf(ms, p)
<1> DEFINE cut == Cut(ms, start, end)
           hit == Overlapping(ms, start, end)
<1>1. Apart(cut, n)
  BY CutApart
<1>2. ASSUME NEW m \in ms
      PROVE  m.start \in Nat /\ m.end \in Nat
  BY MarkerFields DEF Apart
<1>3. ASSUME NEW m \in ms, Covers(m, p)
      PROVE  \E c \in cut : Covers(c, p) /\ c.type = m.type
  <2>1. CASE m \notin hit
    BY <1>3, <2>1 DEF Cut
  <2>2. CASE m \in hit /\ p < start
    <3> DEFINE c == [start |-> m.start, end |-> start, type |-> m.type]
    <3>1. m.start < start
      BY <1>2, <1>3, <2>2 DEF Covers
    <3>2. c \in cut
      BY <2>2, <3>1 DEF Cut
    <3>3. c.start = m.start /\ c.end = start /\ c.type = m.type
      OBVIOUS
    <3> HIDE DEF c, cut
    <3>4. QED
      BY <1>3, <2>2, <3>2, <3>3 DEF Covers
  <2>3. CASE m \in hit /\ end <= p
    <3> DEFINE c == [start |-> end, end |-> m.end, type |-> m.type]
    <3>1. m.end > end
      BY <1>2, <1>3, <2>3 DEF Covers
    <3>2. c \in cut
      BY <2>3, <3>1 DEF Cut
    <3>3. c.start = end /\ c.end = m.end /\ c.type = m.type
      OBVIOUS
    <3> HIDE DEF c, cut
    <3>4. QED
      BY <1>3, <2>3, <3>2, <3>3 DEF Covers
  <2>4. QED
    BY <2>1, <2>2, <2>3
<1>4. ASSUME NEW c \in cut, Covers(c, p)
      PROVE  \E m \in ms : Covers(m, p)
  <2>1. CASE c \in ms
    BY <1>4, <2>1
  <2>2. CASE \E m \in hit : c = [start |-> m.start, end |-> start, type |-> m.type]
    <3>1. PICK m \in hit : c = [start |-> m.start, end |-> start, type |-> m.type]
      BY <2>2
    <3>2. m \in ms /\ m.end > start /\ c.start = m.start /\ c.end = start
      BY <3>1 DEF Overlapping
    <3>3. QED
      BY <1>2, <1>4, <3>2 DEF Covers
  <2>3. CASE \E m \in hit : c = [start |-> end, end |-> m.end, type |-> m.type]
    <3>1. PICK m \in hit : c = [start |-> end, end |-> m.end, type |-> m.type]
      BY <2>3
    <3>2. m \in ms /\ m.start < end /\ c.start = end /\ c.end = m.end
      BY <3>1 DEF Overlapping
    <3>3. QED
      BY <1>2, <1>4, <3>2 DEF Covers
  <2>4. QED
    BY <1>4, <2>1, <2>2, <2>3 DEF Cut
<1> HIDE DEF cut
<1>5. QED
  BY <1>1, <1>3, <1>4, SameColor DEF cut

(* The type of the assignment in a free range.                             *)
LEMMA PutColor ==
  ASSUME NEW n \in Nat, NEW ms, Apart(ms, n), NEW type \in Type, NEW p \in Nat,
         NEW start \in 0..n, NEW end \in 0..n, start < end, Clear(ms, start, end),
         NEW new, new = [start |-> start, end |-> end, type |-> type]
  PROVE  /\ Apart(ms \cup {new}, n)
         /\ ColorOf(ms \cup {new}, p) =
              IF start <= p /\ p < end THEN type ELSE ColorOf(ms, p)
<1>1. new \in Marker /\ new.start = start /\ new.end = end /\ new.type = type
  BY DEF Marker
<1>2. Apart(ms \cup {new}, n)
  BY <1>1 DEF Apart, Clear
<1>3. CASE start <= p /\ p < end
  BY <1>1, <1>2, <1>3, ColorCovered DEF Covers
<1>4. CASE ~(start <= p /\ p < end)
  <2>1. ~Covers(new, p)
    BY <1>1, <1>4 DEF Covers
  <2>2. ColorOf(ms \cup {new}, p) = ColorOf(ms, p)
    BY <1>2, <2>1, SameColor
  <2>3. QED
    BY <1>2, <1>4, <2>2
<1>5. QED
  BY <1>3, <1>4

(* Merging with the neighbours changes no color.                           *)
LEMMA MergeColor ==
  ASSUME NEW n \in Nat, NEW ms, Apart(ms, n), NEW type \in Type, NEW p \in Nat,
         NEW start \in 0..n, NEW end \in 0..n, start < end, Clear(ms, start, end)
  PROVE  ColorOf(InsertOrMerge(ms, start, end, type), p) =
           IF start <= p /\ p < end THEN type ELSE ColorOf(ms, p)
<1> DEFINE put == [start |-> start, end |-> end, type |-> type]
           all == ms \cup {put}
           merged == InsertOrMerge(ms, start, end, type)
           before == {m \in ms : m.end = start /\ m.type = type}
           after == {m \in ms : m.start = end /\ m.type = type}
           b == CHOOSE m \in before : TRUE
           a == CHOOSE m \in after : TRUE
           from == IF before = {} THEN start ELSE b.start
           to == IF after = {} THEN end ELSE a.end
           new == [start |-> from, end |-> to, type |-> type]
           rest == ms \ (before \cup after)
<1>1. merged = rest \cup {new}
  BY DEF InsertOrMerge
<1>2. Apart(merged, n)
  BY InsertOrMergeApart
<1>3. ASSUME NEW m \in ms PROVE m.start \in Nat /\ m.end \in Nat /\ m.start < m.end
  BY MarkerFields DEF Apart
<1>4. \A m \in before : m = b
  <2> SUFFICES ASSUME NEW m \in before PROVE m = b
    OBVIOUS
  <2>1. b \in before
    OBVIOUS
  <2>2. m \in ms /\ b \in ms /\ m.end = start /\ b.end = start
    BY <2>1
  <2> HIDE DEF b, before
  <2>3. QED
    BY <1>3, <2>2 DEF Apart
<1>5. \A m \in after : m = a
  <2> SUFFICES ASSUME NEW m \in after PROVE m = a
    OBVIOUS
  <2>1. a \in after
    OBVIOUS
  <2>2. m \in ms /\ a \in ms /\ m.start = end /\ a.start = end
    BY <2>1
  <2> HIDE DEF a, after
  <2>3. QED
    BY <1>3, <2>2 DEF Apart
<1>6. /\ before # {} => b \in before /\ b \in ms /\ b.end = start /\ b.type = type /\ from = b.start
      /\ before = {} => from = start
  OBVIOUS
<1>7. /\ after # {} => a \in after /\ a \in ms /\ a.start = end /\ a.type = type /\ to = a.end
      /\ after = {} => to = end
  OBVIOUS
<1>8. new.start = from /\ new.end = to /\ new.type = type
  OBVIOUS
<1>9. put.start = start /\ put.end = end /\ put.type = type /\ put \in all
  OBVIOUS
<1>10. put = [start |-> start, end |-> end, type |-> type] /\ all = ms \cup {put}
  OBVIOUS
<1>11. all = rest \cup before \cup after \cup {put}
  OBVIOUS
<1>12. /\ \A m \in before : m.type = type
       /\ \A m \in after : m.type = type
       /\ rest \subseteq ms /\ before \subseteq ms /\ after \subseteq ms
  OBVIOUS
<1> HIDE DEF b, a, from, to, before, after, rest, new, put, all, merged
<1>13. Apart(all, n) /\ ColorOf(all, p) = IF start <= p /\ p < end THEN type ELSE ColorOf(ms, p)
  BY <1>10, PutColor
<1>14. /\ from \in Nat /\ from <= start /\ to \in Nat /\ end <= to
  BY <1>3, <1>6, <1>7
<1>15. ASSUME NEW m \in all, Covers(m, p)
       PROVE  \E k \in merged : Covers(k, p) /\ k.type = m.type
  <2>1. CASE m \in rest
    BY <1>1, <1>15, <2>1
  <2>2. CASE m = put
    <3>1. Covers(new, p)
      BY <1>8, <1>9, <1>14, <1>15, <2>2 DEF Covers
    <3>2. QED
      BY <1>1, <1>8, <1>9, <2>2, <3>1
  <2>3. CASE m \in before
    <3>1. m = b /\ b \in ms /\ b.end = start /\ from = b.start /\ m.type = type
      BY <1>4, <1>6, <2>3
    <3>2. Covers(new, p)
      BY <1>8, <1>14, <1>15, <3>1 DEF Covers
    <3>3. QED
      BY <1>1, <1>8, <3>1, <3>2
  <2>4. CASE m \in after
    <3>1. m = a /\ a \in ms /\ a.start = end /\ to = a.end /\ m.type = type
      BY <1>5, <1>7, <2>4
    <3>2. Covers(new, p)
      BY <1>8, <1>14, <1>15, <3>1 DEF Covers
    <3>3. QED
      BY <1>1, <1>8, <3>1, <3>2
  <2>5. QED
    BY <1>11, <1>15, <2>1, <2>2, <2>3, <2>4
<1>16. ASSUME NEW k \in merged, Covers(k, p)
       PROVE  \E m \in all : Covers(m, p)
  <2>1. CASE k \in rest
    BY <1>11, <1>16, <2>1
  <2>2. CASE k = new
    <3>1. from <= p /\ p < to
      BY <1>8, <1>16, <2>2 DEF Covers
    <3>2. CASE p < start
      <4>1. before # {}
        BY <1>6, <1>14, <3>1, <3>2
      <4>2. b \in all /\ Covers(b, p)
        BY <1>6, <1>11, <3>1, <3>2, <4>1 DEF Covers
      <4>3. QED
        BY <4>2
    <3>3. CASE end <= p
      <4>1. after # {}
        BY <1>7, <1>14, <3>1, <3>3
      <4>2. a \in all /\ Covers(a, p)
        BY <1>7, <1>11, <3>1, <3>3, <4>1 DEF Covers
      <4>3. QED
        BY <4>2
    <3>4. CASE start <= p /\ p < end
      BY <1>9, <3>4 DEF Covers
    <3>5. QED
      BY <3>2, <3>3, <3>4
  <2>3. QED
    BY <1>1, <1>16, <2>1, <2>2
<1>17. ColorOf(all, p) = ColorOf(merged, p)
  BY <1>2, <1>13, <1>15, <1>16, SameColor
<1>18. QED
  BY <1>13, <1>17 DEF merged

LEMMA AssignColor ==
  ASSUME NEW n \in Nat, NEW ms, Apart(ms, n), NEW type \in Type \cup {NoType}, NEW p \in Nat,
         NEW start \in 0..n, NEW end \in 0..n, start < end
  PROVE  ColorOf(NewMarkers(ms, start, end, type), p) =
           IF start <= p /\ p < end THEN type ELSE ColorOf(ms, p)
<1> DEFINE cut == Cut(ms, start, end)
           inside == start <= p /\ p < end
<1>1. Apart(cut, n) /\ Clear(cut, start, end)
  BY CutApart
<1>2. ~inside => ColorOf(cut, p) = ColorOf(ms, p)
  BY CutColor
<1>3. ASSUME NEW m \in ms PROVE m.start \in Nat /\ m.end \in Nat
  BY MarkerFields DEF Apart
<1>4. CASE NoChange(ms, start, end, type)
  <2>1. NewMarkers(ms, start, end, type) = ms
    BY <1>4 DEF NewMarkers
  <2>2. CASE type = NoType /\ Overlapping(ms, start, end) = {}
    <3>1. ASSUME inside, NEW m \in ms PROVE ~Covers(m, p)
      <4>1. ~(m.end > start /\ m.start < end)
        BY <2>2 DEF Overlapping
      <4>2. QED
        BY <1>3, <3>1, <4>1 DEF Covers
    <3>2. inside => ColorOf(ms, p) = NoType
      BY <3>1, ColorFree
    <3>3. QED
      BY <2>1, <2>2, <3>2
  <2>3. CASE \E m \in ms : m.type = type /\ m.start <= start /\ end <= m.end
    <3>1. PICK m \in ms : m.type = type /\ m.start <= start /\ end <= m.end
      BY <2>3
    <3>2. inside => Covers(m, p)
      BY <1>3, <3>1 DEF Covers
    <3>3. inside => ColorOf(ms, p) = type
      BY <3>1, <3>2, ColorCovered
    <3>4. QED
      BY <2>1, <3>3
  <2>4. QED
    BY <1>4, <2>2, <2>3 DEF NoChange
<1>5. CASE ~NoChange(ms, start, end, type) /\ type = NoType
  <2>1. NewMarkers(ms, start, end, type) = cut
    BY <1>5 DEF NewMarkers
  <2> HIDE DEF cut
  <2>2. ASSUME inside, NEW c \in cut PROVE ~Covers(c, p)
    <3>1. c.end <= start \/ end <= c.start
      BY <1>1 DEF Clear
    <3>2. c.start \in Nat /\ c.end \in Nat
      BY <1>1, MarkerFields DEF Apart
    <3>3. QED
      BY <2>2, <3>1, <3>2 DEF Covers
  <2>3. inside => ColorOf(cut, p) = NoType
    BY <2>2, ColorFree
  <2>4. QED
    BY <1>2, <1>5, <2>1, <2>3
<1>6. CASE ~NoChange(ms, start, end, type) /\ type # NoType
  <2>1. type \in Type
    BY <1>6
  <2> DEFINE new == [start |-> start, end |-> end, type |-> type]
  <2>2. \/ NewMarkers(ms, start, end, type) = cut \cup {new}
        \/ NewMarkers(ms, start, end, type) = InsertOrMerge(cut, start, end, type)
    BY <1>6 DEF NewMarkers
  <2>3. new = [start |-> start, end |-> end, type |-> type]
    OBVIOUS
  <2> HIDE DEF cut, new
  <2>4. ColorOf(NewMarkers(ms, start, end, type), p) = IF inside THEN type ELSE ColorOf(cut, p)
    BY <1>1, <2>1, <2>2, <2>3, PutColor, MergeColor
  <2>5. QED
    BY <1>2, <2>4
<1>7. QED
  BY <1>4, <1>5, <1>6

LEMMA ChangesCovered ==
  ASSUME NEW n \in Nat, NEW ms, Apart(ms, n), NEW type \in Type \cup {NoType},
         NEW start \in 0..n, NEW end \in 0..n, start < end,
         NEW p \in start..(end - 1), p \notin Changes(ms, start, end, type)
  PROVE  ColorOf(ms, p) = type
<1>1. ASSUME NEW m \in ms, Covers(m, p) PROVE m \in Overlapping(ms, start, end)
  <2>1. m.start \in Nat /\ m.end \in Nat
    BY MarkerFields DEF Apart
  <2>2. QED
    BY <1>1, <2>1 DEF Covers, Overlapping
<1>2. CASE \E m \in ms : Covers(m, p)
  <2>1. PICK m \in ms : Covers(m, p)
    BY <1>2
  <2>2. m.type = type
    BY <1>1, <2>1 DEF Changes, Covers
  <2>3. QED
    BY <2>1, <2>2, ColorCovered
<1>3. CASE \A m \in ms : ~Covers(m, p)
  <2>1. type = NoType
    BY <1>3 DEF Changes, Covers, Overlapping
  <2>2. QED
    BY <1>3, <2>1, ColorFree
<1>4. QED
  BY <1>2, <1>3

(* An assignment tells the observers, the cache of lines and the view, of  *)
(* every character whose color it changes (MarkerSet::InsertMarker and its *)
(* calls of NotifyChange).                                                 *)
THEOREM EveryChangeNotified == Spec => ChangesNotified
<1>1. ASSUME MarkersApart, [Next]_vars, length' = length, NEW p \in 0..(length - 1),
             ColorOf(markers', p) # ColorOf(markers, p)
      PROVE  p \in notified'
  <2>1. length \in Nat /\ Apart(markers, length) /\ p \in Nat
    BY <1>1, MaxLengthAssumption DEF MarkersApart, TypeOK, Apart
  <2>2. ASSUME NEW start \in 0..length, NEW end \in 0..length,
               NEW type \in Type \cup {NoType}, InsertMarker(start, end, type)
        PROVE  p \in notified'
    <3>1. start < end /\ markers' = NewMarkers(markers, start, end, type)
      BY <2>2 DEF InsertMarker
    <3>2. ColorOf(markers', p) = IF start <= p /\ p < end THEN type ELSE ColorOf(markers, p)
      BY <2>1, <3>1, AssignColor
    <3>3. start <= p /\ p < end /\ ColorOf(markers, p) # type
      BY <1>1, <3>2
    <3>4. p \in start..(end - 1)
      BY <2>1, <3>3
    <3>5. p \in Changes(markers, start, end, type)
      BY <2>1, <3>1, <3>3, <3>4, ChangesCovered
    <3>6. ~NoChange(markers, start, end, type)
      BY <1>1, <3>1 DEF NewMarkers
    <3>7. QED
      BY <2>2, <3>5, <3>6 DEF InsertMarker
  <2>3. ~ \E start, end \in 0..length : DidDeleteAt(start, end)
    BY <1>1, <2>1 DEF DidDeleteAt
  <2>4. ~ \E q \in 0..length, n \in 1..MaxLength : DidInsertBefore(q, n)
    BY <1>1, <2>1, MaxLengthAssumption DEF DidInsertBefore
  <2>5. ~UNCHANGED vars
    BY <1>1 DEF vars
  <2>6. QED
    BY <1>1, <2>2, <2>3, <2>4, <2>5 DEF Next
<1>2. MarkersApart /\ [Next]_vars
        => [length' = length =>
              \A p \in 0..(length - 1) :
                ColorOf(markers', p) # ColorOf(markers, p) => p \in notified']_vars
  BY <1>1
<1>3. QED
  BY <1>2, MarkersStayApart, PTL DEF Spec, ChangesNotified

-----------------------------------------------------------------------------
(* Refinement of MarkerColors: what an edit does to the colors.            *)

(* A character of a sticky set has, after an edit, the color of the one    *)
(* that the same markers covered before it.                                *)
LEMMA MovesColor ==
  ASSUME NEW n \in Nat, NEW ms, Apart(ms, n), NEW l \in Nat,
         NEW to, Monotone(to), to[n] <= l, NEW p \in Nat, NEW q \in Nat,
         \A m \in ms : Covers(m, p) <=> to[m.start] <= q /\ q < to[m.end]
  PROVE  ColorOf(Moves(ms, to), q) = ColorOf(ms, p)
<1>1. Apart(Moves(ms, to), l) /\ ms \in SUBSET Marker
  BY MovesApart DEF Apart
<1>2. ASSUME NEW m \in ms, Covers(m, p)
      PROVE  \E k \in Moves(ms, to) : Covers(k, q) /\ k.type = m.type
  <2> DEFINE k == [start |-> to[m.start], end |-> to[m.end], type |-> m.type]
  <2>1. k.start = to[m.start] /\ k.end = to[m.end] /\ k.type = m.type
    OBVIOUS
  <2>2. to[m.start] \in Nat /\ to[m.end] \in Nat
    BY <1>1, MarkerFields DEF Monotone
  <2>3. k.start <= q /\ q < k.end
    BY <1>2, <2>1
  <2>4. k \in Moves(ms, to)
    BY <2>1, <2>2, <2>3 DEF Moves, NonEmpty
  <2>5. QED
    BY <2>1, <2>3, <2>4 DEF Covers
<1>3. ASSUME NEW k \in Moves(ms, to), Covers(k, q) PROVE \E m \in ms : Covers(m, p)
  <2>1. PICK m \in ms : k.start = to[m.start] /\ k.end = to[m.end]
    BY <1>1, MoveFields
  <2>2. QED
    BY <1>3, <2>1 DEF Covers
<1>4. QED
  BY <1>1, <1>2, <1>3, SameColor

LEMMA StickyDeleteColor ==
  ASSUME NEW n \in Nat, NEW ms, Apart(ms, n), kind # "Fragile",
         NEW start \in 0..n, NEW end \in 0..n, start < end, NEW q \in Nat
  PROVE  ColorOf(AfterDelete(ms, start, end), q) =
           ColorOf(ms, IF q < start THEN q ELSE q + (end - start))
<1> DEFINE to == DeleteMove(start, end)
           p == IF q < start THEN q ELSE q + (end - start)
           l == n - (end - start)
<1>1. ms \in SUBSET Marker /\ p \in Nat /\ l \in Nat
  BY DEF Apart
<1>2. AfterDelete(ms, start, end) = Moves(ms, to) /\ Monotone(to)
  BY <1>1, DeleteMoves
<1>3. to[n] <= l
  BY DEF DeleteMove
<1>4. ASSUME NEW m \in ms PROVE Covers(m, p) <=> to[m.start] <= q /\ q < to[m.end]
  <2>1. m.start \in Nat /\ m.end \in Nat
    BY <1>1, MarkerFields
  <2>2. to[m.start] = IF m.start <= start THEN m.start
                      ELSE IF m.start < end THEN start ELSE m.start - (end - start)
    BY <2>1 DEF DeleteMove
  <2>3. to[m.end] = IF m.end <= start THEN m.end
                    ELSE IF m.end < end THEN start ELSE m.end - (end - start)
    BY <2>1 DEF DeleteMove
  <2>4. m.start < m.end
    BY DEF Apart
  <2> HIDE DEF to
  <2>5. QED
    BY <2>1, <2>2, <2>3, <2>4 DEF Covers
<1> HIDE DEF to, p, l
<1>5. ColorOf(Moves(ms, to), q) = ColorOf(ms, p)
  BY <1>1, <1>2, <1>3, <1>4, MovesColor
<1>6. QED
  BY <1>2, <1>5 DEF p

(* Typed text gets the color in front of it.                               *)
LEMMA StickyInsertColor ==
  ASSUME NEW l \in Nat, NEW ms, Apart(ms, l), kind # "Fragile",
         NEW p \in 0..l, NEW n \in Nat, NEW q \in Nat
  PROVE  ColorOf(AfterInsert(ms, p, n), q) =
           IF q < p THEN ColorOf(ms, q)
           ELSE IF q >= p + n THEN ColorOf(ms, q - n)
           ELSE IF p = 0 THEN NoType ELSE ColorOf(ms, p - 1)
<1> DEFINE to == InsertMove(p, n)
           r == IF q < p THEN q ELSE IF q >= p + n THEN q - n ELSE p - 1
<1>1. ms \in SUBSET Marker
  BY DEF Apart
<1>2. AfterInsert(ms, p, n) = Moves(ms, to) /\ Monotone(to)
  BY <1>1, InsertMoves
<1>3. to[l] <= l + n /\ l + n \in Nat
  BY DEF InsertMove
<1>4. ASSUME NEW m \in ms
      PROVE  /\ m.start \in Nat /\ m.end \in Nat /\ m.start < m.end
             /\ to[m.start] = IF m.start < p THEN m.start ELSE m.start + n
             /\ to[m.end] = IF m.end < p THEN m.end ELSE m.end + n
  BY <1>1, MarkerFields DEF Apart, InsertMove
<1> HIDE DEF to
<1>5. CASE q < p \/ q >= p + n \/ p # 0
  <2>1. r \in Nat
    BY <1>5
  <2>2. ASSUME NEW m \in ms PROVE Covers(m, r) <=> to[m.start] <= q /\ q < to[m.end]
    BY <1>4, <1>5 DEF Covers
  <2> HIDE DEF r
  <2>3. ColorOf(Moves(ms, to), q) = ColorOf(ms, r)
    BY <1>2, <1>3, <2>1, <2>2, MovesColor
  <2>4. QED
    BY <1>2, <1>5, <2>3 DEF r
<1>6. CASE ~(q < p \/ q >= p + n \/ p # 0)
  <2>1. ASSUME NEW k \in Moves(ms, to) PROVE ~Covers(k, q)
    <3>1. PICK m \in ms : k.start = to[m.start]
      BY <1>1, <1>2, MoveFields
    <3>2. QED
      BY <1>4, <1>6, <3>1 DEF Covers
  <2>2. ColorOf(Moves(ms, to), q) = NoType
    BY <2>1, ColorFree
  <2>3. QED
    BY <1>2, <1>6, <2>2
<1>7. QED
  BY <1>5, <1>6

(* What an edit at p of a fragile set does to the colors in front of it:   *)
(* those from `cut` on, of one type, go.                                   *)
CutsAt(ms, kept, p, cut) ==
  /\ \A q \in cut..(p - 1) : ColorOf(ms, q) = ColorOf(ms, p - 1) /\ ColorOf(ms, q) # NoType
  /\ \A q \in Nat : ColorOf(kept, q) = IF q < cut THEN ColorOf(ms, q) ELSE NoType

(* An edit at p of a fragile set keeps the markers in front of p; the one  *)
(* it removes from there is the stretch of one type that p touches.        *)
LEMMA FragileColor ==
  ASSUME NEW n \in Nat, NEW ms, Apart(ms, n), NEW p \in 0..n, NEW kept \in SUBSET ms,
         \A m \in kept : m.end <= p,
         \A m \in ms : m.end < p => m \in kept
  PROVE  \E cut \in 0..p : CutsAt(ms, kept, p, cut)
<1>1. ASSUME NEW m \in ms
      PROVE  m.start \in Nat /\ m.end \in Nat /\ m.start < m.end /\ m.type # NoType
  BY MarkerFields, NoTypeAssumption DEF Apart
<1>2. Apart(kept, n)
  BY DEF Apart
<1>3. CASE \E m \in ms \ kept : m.start < p
  <2>1. PICK m \in ms \ kept : m.start < p
    BY <1>3
  <2>2. m.start \in 0..p /\ m.end >= p
    BY <1>1, <2>1
  <2>3. ASSUME NEW q \in m.start..(p - 1) PROVE ColorOf(ms, q) = m.type
    <3>1. Covers(m, q) /\ q \in Nat
      BY <1>1, <2>2 DEF Covers
    <3>2. QED
      BY <3>1, ColorCovered
  <2>4. ASSUME NEW q \in m.start..(p - 1)
        PROVE  ColorOf(ms, q) = ColorOf(ms, p - 1) /\ ColorOf(ms, q) # NoType
    <3>1. p - 1 \in m.start..(p - 1)
      BY <1>1, <2>1
    <3>2. QED
      BY <1>1, <2>3, <3>1
  <2>5. ASSUME NEW q \in Nat, q < m.start PROVE ColorOf(kept, q) = ColorOf(ms, q)
    <3>1. ASSUME NEW k \in ms, Covers(k, q) PROVE k \in kept
      <4>1. k # m
        BY <1>1, <2>5, <3>1 DEF Covers
      <4>2. k.end <= m.start \/ m.end <= k.start
        BY <4>1 DEF Apart
      <4>3. k.end < p
        BY <1>1, <2>1, <2>5, <3>1, <4>2 DEF Covers
      <4>4. QED
        BY <4>3
    <3>2. QED
      BY <1>2, <3>1, SameColor
  <2>6. ASSUME NEW q \in Nat, q >= m.start PROVE ColorOf(kept, q) = NoType
    <3>1. ASSUME NEW k \in kept PROVE ~Covers(k, q)
      <4>1. k \in ms /\ k # m /\ k.end <= p
        OBVIOUS
      <4>2. k.end <= m.start \/ m.end <= k.start
        BY <4>1 DEF Apart
      <4>3. QED
        BY <1>1, <2>2, <2>6, <4>1, <4>2 DEF Covers
    <3>2. QED
      BY <3>1, ColorFree
  <2>7. m.start \in 0..p
    BY <2>2
  <2> USE <2>7
  <2>8. WITNESS m.start \in 0..p
  <2>9. QED
    BY <1>1, <2>4, <2>5, <2>6 DEF CutsAt
<1>4. CASE \A m \in ms \ kept : ~(m.start < p)
  <2>1. ASSUME NEW q \in Nat, q < p PROVE ColorOf(kept, q) = ColorOf(ms, q)
    <3>1. ASSUME NEW k \in ms, Covers(k, q) PROVE k \in kept
      BY <1>1, <1>4, <2>1, <3>1 DEF Covers
    <3>2. QED
      BY <1>2, <3>1, SameColor
  <2>2. ASSUME NEW q \in Nat, q >= p PROVE ColorOf(kept, q) = NoType
    <3>1. ASSUME NEW k \in kept PROVE ~Covers(k, q)
      BY <1>1, <2>2 DEF Covers
    <3>2. QED
      BY <3>1, ColorFree
  <2>3. WITNESS p \in 0..p
  <2>4. QED
    BY <2>1, <2>2 DEF CutsAt
<1>5. QED
  BY <1>3, <1>4

(* The refinement mapping as a sequence.                                   *)
ColorSequence(ms, n) == [i \in 1..n |-> ColorOf(ms, i - 1)]

LEMMA ColorSequenceLen ==
  ASSUME NEW n \in Nat, NEW ms
  PROVE  /\ Len(ColorSequence(ms, n)) = n
         /\ DOMAIN ColorSequence(ms, n) = 1..n
         /\ \A i \in 1..n : ColorSequence(ms, n)[i] = ColorOf(ms, i - 1)
BY DEF ColorSequence

LEMMA AssignRefines ==
  ASSUME MarkersApart, NEW start \in 0..length, NEW end \in 0..length,
         NEW type \in Type \cup {NoType}, InsertMarker(start, end, type)
  PROVE  Colors!Next
<1> DEFINE color == ColorSequence(markers, length)
           color2 == ColorSequence(markers', length')
<1>1. length \in Nat /\ Apart(markers, length)
  BY DEF MarkersApart, TypeOK, Apart
<1>2. /\ start < end /\ markers' = NewMarkers(markers, start, end, type)
      /\ length' = length /\ kind' = kind
  BY DEF InsertMarker
<1>3. color2 = [i \in 1..length |-> IF start < i /\ i <= end THEN type ELSE color[i]]
  <2>1. ASSUME NEW i \in 1..length
        PROVE  ColorOf(markers', i - 1) = IF start < i /\ i <= end THEN type ELSE color[i]
    <3>1. i - 1 \in Nat /\ color[i] = ColorOf(markers, i - 1)
      BY <1>1, ColorSequenceLen
    <3>2. ColorOf(markers', i - 1) =
            IF start <= i - 1 /\ i - 1 < end THEN type ELSE ColorOf(markers, i - 1)
      BY <1>1, <1>2, <3>1, AssignColor
    <3>3. QED
      BY <1>1, <3>1, <3>2
  <2>2. QED
    BY <1>2, <2>1 DEF ColorSequence
<1>4. DOMAIN color = 1..length /\ Len(color) = length
  BY <1>1, ColorSequenceLen
<1>5. Colors!Assign(start, end, type)
  BY <1>2, <1>3, <1>4 DEF Colors!Assign, ColorSequence
<1>6. QED
  BY <1>2, <1>4, <1>5 DEF Colors!Next, ColorSequence

LEMMA DeleteRefines ==
  ASSUME MarkersApart, NEW start \in 0..length, NEW end \in 0..length,
         DidDeleteAt(start, end)
  PROVE  Colors!Next
<1> DEFINE color == ColorSequence(markers, length)
           color2 == ColorSequence(markers', length')
           l == length - (end - start)
<1>1. length \in Nat /\ Apart(markers, length) /\ kind \in {"Sticky", "Fragile"}
  BY DEF MarkersApart, TypeOK, Apart
<1>2. /\ start < end /\ markers' = AfterDelete(markers, start, end)
      /\ length' = l /\ kind' = kind
  BY DEF DidDeleteAt
<1>3. l \in Nat /\ start <= l
  BY <1>1, <1>2
<1>4. /\ DOMAIN color = 1..length /\ Len(color) = length
      /\ \A i \in 1..length : color[i] = ColorOf(markers, i - 1)
  BY <1>1, ColorSequenceLen
<1>5. CASE kind = "Sticky"
  <2>1. ASSUME NEW i \in 1..l
        PROVE  ColorOf(markers', i - 1) =
                 IF i <= start THEN color[i] ELSE color[i + (end - start)]
    <3>1. i - 1 \in Nat /\ i \in 1..length /\ i + (end - start) \in 1..length
      BY <1>1, <1>2
    <3>2. ColorOf(markers', i - 1) =
            ColorOf(markers, IF i - 1 < start THEN i - 1 ELSE i - 1 + (end - start))
      BY <1>1, <1>2, <1>5, <3>1, StickyDeleteColor
    <3>3. CASE i <= start
      BY <1>4, <3>1, <3>2, <3>3
    <3>4. CASE ~(i <= start)
      <4>1. i - 1 + (end - start) = i + (end - start) - 1 /\ ~(i - 1 < start)
        BY <3>1, <3>4
      <4>2. QED
        BY <1>4, <3>1, <3>2, <3>4, <4>1
    <3>5. QED
      BY <3>3, <3>4
  <2>2. color2 = Colors!Removed(color, start, end)
    BY <1>2, <1>4, <2>1 DEF ColorSequence, Colors!Removed
  <2>3. Colors!StickyDelete(start, end)
    BY <1>2, <1>5, <2>2 DEF Colors!StickyDelete, ColorSequence
  <2>4. QED
    BY <1>2, <1>4, <2>3 DEF Colors!Next, ColorSequence
<1>6. CASE kind = "Fragile"
  <2>1. markers' = {m \in markers : m.end <= start}
    BY <1>2, <1>6 DEF AfterDelete
  <2>2. /\ markers' \in SUBSET markers
        /\ \A m \in markers' : m.end <= start
        /\ \A m \in markers : m.end < start => m \in markers'
    BY <1>1, <2>1, MarkerFields DEF Apart
  <2>3. PICK cut \in 0..start : CutsAt(markers, markers', start, cut)
    BY <1>1, <2>2, FragileColor
  <2>4. ASSUME NEW i \in (cut + 1)..start PROVE color[i] = color[start] /\ color[i] # NoType
    <3>1. i - 1 \in cut..(start - 1) /\ i \in 1..length /\ start \in 1..length
      BY <1>1
    <3>2. QED
      BY <1>4, <2>3, <3>1 DEF CutsAt
  <2>5. ASSUME NEW i \in 1..l
        PROVE  ColorOf(markers', i - 1) = IF i <= cut THEN color[i] ELSE NoType
    <3>1. i - 1 \in Nat /\ i \in 1..length
      BY <1>1, <1>2
    <3>2. QED
      BY <1>4, <2>3, <3>1 DEF CutsAt
  <2>6. color2 = [i \in 1..l |-> IF i <= cut THEN color[i] ELSE NoType]
    BY <1>2, <2>5 DEF ColorSequence
  <2>7. Colors!FragileEdit(start, l)
    BY <1>2, <1>6, <2>4, <2>6 DEF Colors!FragileEdit, ColorSequence
  <2>8. QED
    BY <1>2, <1>4, <2>7 DEF Colors!Next, ColorSequence
<1>7. QED
  BY <1>1, <1>5, <1>6

LEMMA InsertRefines ==
  ASSUME MarkersApart, NEW p \in 0..length, NEW n \in 1..MaxLength, DidInsertBefore(p, n)
  PROVE  Colors!Next
<1> DEFINE color == ColorSequence(markers, length)
           color2 == ColorSequence(markers', length')
           l == length + n
           typed == [i \in 1..n |-> IF p = 0 THEN NoType ELSE color[p]]
<1>1. length \in Nat /\ Apart(markers, length) /\ kind \in {"Sticky", "Fragile"} /\ n \in Nat
  BY DEF MarkersApart, TypeOK, Apart
<1>2. /\ markers' = AfterInsert(markers, p, n)
      /\ length' = l /\ l <= MaxLength /\ kind' = kind
  BY DEF DidInsertBefore
<1>3. l \in Nat /\ n \in 1..(MaxLength - length)
  BY <1>1, <1>2, MaxLengthAssumption
<1>4. /\ DOMAIN color = 1..length /\ Len(color) = length
      /\ \A i \in 1..length : color[i] = ColorOf(markers, i - 1)
  BY <1>1, ColorSequenceLen
<1>5. CASE kind = "Sticky"
  <2>0. Len(typed) = n /\ \A i \in 1..n : typed[i] = IF p = 0 THEN NoType ELSE color[p]
    BY <1>1
  <2> HIDE DEF typed
  <2>1. ASSUME NEW i \in 1..l
        PROVE  ColorOf(markers', i - 1) =
                 IF i <= p THEN color[i] ELSE IF i <= p + n THEN typed[i - p] ELSE color[i - n]
    <3>1. ColorOf(markers', i - 1) =
            IF i - 1 < p THEN ColorOf(markers, i - 1)
            ELSE IF i - 1 >= p + n THEN ColorOf(markers, i - 1 - n)
            ELSE IF p = 0 THEN NoType ELSE ColorOf(markers, p - 1)
      <4>1. i - 1 \in Nat
        BY <1>1
      <4>2. QED
        BY <1>1, <1>2, <1>5, <4>1, StickyInsertColor
    <3>2. CASE i <= p
      BY <1>1, <1>4, <3>1, <3>2
    <3>3. CASE i > p /\ i <= p + n
      <4>1. i - p \in 1..n /\ (p # 0 => p \in 1..length)
        BY <1>1, <3>3
      <4>2. QED
        BY <1>1, <1>4, <2>0, <3>1, <3>3, <4>1
    <3>4. CASE i > p + n
      <4>1. i - n \in 1..length /\ i - 1 - n = (i - n) - 1
        BY <1>1, <3>4
      <4>2. QED
        BY <1>1, <1>4, <3>1, <3>4, <4>1
    <3>5. QED
      BY <1>1, <3>2, <3>3, <3>4
  <2>2. color2 = Colors!Inserted(color, p, typed)
    BY <1>2, <1>4, <2>0, <2>1 DEF ColorSequence, Colors!Inserted
  <2>3. Colors!StickyInsert(p, n)
    BY <1>2, <1>5, <2>2 DEF Colors!StickyInsert, ColorSequence, typed
  <2>4. QED
    BY <1>3, <1>4, <2>3 DEF Colors!Next, ColorSequence
<1>6. CASE kind = "Fragile"
  <2>1. markers' = {m \in markers : m.end < p}
    BY <1>2, <1>6 DEF AfterInsert
  <2>2. /\ markers' \in SUBSET markers
        /\ \A m \in markers' : m.end <= p
        /\ \A m \in markers : m.end < p => m \in markers'
    BY <1>1, <2>1, MarkerFields DEF Apart
  <2>3. PICK cut \in 0..p : CutsAt(markers, markers', p, cut)
    BY <1>1, <2>2, FragileColor
  <2>4. ASSUME NEW i \in (cut + 1)..p PROVE color[i] = color[p] /\ color[i] # NoType
    <3>1. i - 1 \in cut..(p - 1) /\ i \in 1..length /\ p \in 1..length
      BY <1>1
    <3>2. QED
      BY <1>4, <2>3, <3>1 DEF CutsAt
  <2>5. ASSUME NEW i \in 1..l
        PROVE  ColorOf(markers', i - 1) = IF i <= cut THEN color[i] ELSE NoType
    <3>1. i - 1 \in Nat /\ (i <= cut => i \in 1..length)
      BY <1>1
    <3>2. QED
      BY <1>4, <2>3, <3>1 DEF CutsAt
  <2>6. color2 = [i \in 1..l |-> IF i <= cut THEN color[i] ELSE NoType]
    BY <1>2, <2>5 DEF ColorSequence
  <2>7. Colors!FragileEdit(p, l)
    BY <1>2, <1>6, <2>4, <2>6 DEF Colors!FragileEdit, ColorSequence
  <2>8. QED
    BY <1>3, <1>4, <2>7 DEF Colors!Next, ColorSequence
<1>7. QED
  BY <1>1, <1>5, <1>6

(* The set of markers implements a color for each character, of which an   *)
(* assignment changes just those of its range and which travel with their  *)
(* characters in a sticky set (MarkerSet::InsertMarker, DidDeleteAt and    *)
(* DidInsertBefore as seen by GetMarkerAt).                                *)
THEOREM MarkersImplementColors == Spec => ImplementsColors
<1>1. Init => Colors!Init
  <2> SUFFICES ASSUME Init PROVE Colors!Init
    OBVIOUS
  <2>1. [i \in 1..length |-> ColorOf(markers, i - 1)] = << >>
    BY DEF Init
  <2>2. QED
    BY <2>1 DEF Init, Colors!Init
<1>2. MarkersApart /\ [Next]_vars => [Colors!Next]_(Colors!vars)
  <2> SUFFICES ASSUME MarkersApart, [Next]_vars PROVE [Colors!Next]_(Colors!vars)
    OBVIOUS
  <2>1. CASE Next
    BY <2>1, AssignRefines, DeleteRefines, InsertRefines DEF Next
  <2>2. CASE UNCHANGED vars
    BY <2>2 DEF vars, Colors!vars, ColorOf, MarkerAt, LowerBound
  <2>3. QED
    BY <2>1, <2>2
<1>3. QED
  BY <1>1, <1>2, MarkersStayApart, PTL DEF Spec, ImplementsColors, Colors!Spec

-----------------------------------------------------------------------------
(* A row as the formatter makes it.                                        *)
Color == Type \cup {NoType}

Row == [line : Nat, start : Nat, cells : Seq(Char \X Color), end : Nat,
        box : {"LineWrap", "EndOfLine", "EndOfDocument"}]

(* What RowsShowText says of one row; no character of a row is a newline.  *)
ShowsText(r) ==
  LET after == r.start + Len(r.cells)
  IN  /\ r.start < r.end /\ after <= length
      /\ \A i \in 1..Len(r.cells) :
           r.cells[i][1] = text[r.start + i] /\ text[r.start + i] # Newline
      /\ kind = "Sticky" =>
           \A i \in 1..Len(r.cells) : r.cells[i][2] = ColorOf(markers, r.start + i - 1)
      /\ r.box = "EndOfLine" => after < length /\ r.end = after + 1 /\ text[r.end] = Newline
      /\ r.box = "EndOfDocument" => after = length /\ r.end = length + 1
      /\ r.box = "LineWrap" => r.end = after
      /\ r.line = LineStart(text, r.start)

RowsApart(rs) == \A r, s \in rs : r # s => r.end <= s.start \/ s.end <= r.start

(* A row that continues another one is in the cache with it.               *)
Led(rs) == \A r \in rs : IsContinued(r) => \E s \in rs : s.end = r.start

GoodRows(rs) ==
  /\ rs \subseteq Row
  /\ \A r \in rs : ShowsText(r)
  /\ RowsApart(rs)
  /\ Led(rs)

(* What EndsMarked says of the cache of a view while an operation runs.    *)
Marked(rs) == EndsMarked => \A r \in rs : r.end # length

(* Rows of the cache, each where the one above ends.                       *)
Stretch(rs, v) ==
  /\ v \in Seq(Row)
  /\ \A i \in 1..Len(v) : v[i] \in rs
  /\ \A i \in 2..Len(v) : v[i].start = v[i - 1].end

(* As many rows as have room, or all up to the end of the text.            *)
FullView(v) ==
  /\ 2 * Len(v) <= Height + 1
  /\ 2 * Len(v) >= Height \/ v[Len(v)].box = "EndOfDocument"

GoodView(rs, v, start) ==
  /\ Stretch(rs, v)
  /\ v # << >> => v[1].start = start /\ FullView(v)

(* The buffer that is shown, and the view it is shown in.                  *)
BufferOK ==
  /\ MarkersApart
  /\ text \in Seq(Char) /\ Len(text) = length
  /\ size \in Sizes

LayoutInv ==
  /\ BufferOK
  /\ viewStart \in 0..length
  /\ GoodRows(rows)
  /\ GoodView(rows, view, viewStart)
  /\ view # << >> => cacheSize = size

-----------------------------------------------------------------------------
(* Numbers                                                                 *)
LEMMA LeastOf ==
  ASSUME NEW T \in SUBSET Nat, T # {}
  PROVE  Min(T) \in T /\ \A y \in T : Min(T) <= y
<1> DEFINE R == {ss \in Nat \X Nat : ss[1] < ss[2]}
<1>1. IsWellFoundedOn(R, Nat)
  BY NatLessThanWellFounded, Zenon DEF OpToRel
<1>2. T \subseteq Nat
  OBVIOUS
<1> HIDE DEF R
<1>3. PICK x \in T : \A y \in T : <<y, x>> \notin R
  BY <1>1, <1>2, WFMin, Zenon
<1>4. ASSUME NEW y \in T PROVE x <= y
  <2>1. ~(y < x)
    BY <1>3 DEF R
  <2>2. QED
    BY <2>1
<1>5. QED
  BY <1>4 DEF Min

LEMMA GreatestOf ==
  ASSUME NEW n \in Nat, NEW T \in SUBSET (0..n), T # {}
  PROVE  Max(T) \in T /\ \A y \in T : y <= Max(T)
<1> DEFINE D == {d \in Nat : n - d \in T}
           x == n - Min(D)
<1>1. D \in SUBSET Nat
  OBVIOUS
<1>2. D # {}
  <2>1. PICK y \in T : TRUE
    OBVIOUS
  <2>2. n - y \in Nat /\ n - (n - y) = y
    OBVIOUS
  <2>3. n - y \in D
    BY <2>1, <2>2
  <2>4. QED
    BY <2>3
<1>3. Min(D) \in D /\ \A d \in D : Min(D) <= d
  <2> HIDE DEF D
  <2>1. QED
    BY <1>1, <1>2, LeastOf
<1>4. x \in T
  BY <1>3
<1>5. ASSUME NEW y \in T PROVE y <= x
  <2>1. n - y \in Nat /\ n - (n - y) = y
    OBVIOUS
  <2>2. n - y \in D
    BY <2>1
  <2>3. Min(D) <= n - y /\ Min(D) \in Nat
    BY <1>3, <2>2
  <2> HIDE DEF D
  <2>4. QED
    BY <2>3
<1> HIDE DEF x
<1>6. QED
  BY <1>4, <1>5 DEF Max

(* What every round of a loop keeps.                                       *)
LEMMA EveryRound ==
  ASSUME NEW n \in Nat, NEW T, 0 \in T, \A i \in 0..(n - 1) : i \in T => i + 1 \in T
  PROVE  \A i \in 0..n : i \in T
<1> SUFFICES ASSUME NEW j \in 0..n, j \notin T PROVE FALSE
  OBVIOUS
<1> DEFINE D == {i \in 0..n : i \notin T}
<1>1. j \in D /\ D \in SUBSET Nat
  BY SMT
<1>2. Min(D) \in D /\ \A y \in D : Min(D) <= y
  <2> HIDE DEF D
  <2>1. QED
    BY <1>1, LeastOf
<1> DEFINE x == Min(D)
<1>3. x # 0 /\ x \in 0..n /\ x \notin T
  BY <1>2
<1>4. \A y \in D : x <= y
  BY <1>2
<1> HIDE DEF x
<1>5. x - 1 \in 0..(n - 1) /\ x - 1 \notin D
  BY <1>3, <1>4
<1>6. x - 1 \in T
  BY <1>5
<1>7. x - 1 + 1 = x
  BY <1>3
<1>8. QED
  BY <1>3, <1>5, <1>6, <1>7

-----------------------------------------------------------------------------
(* The start of a line                                                     *)
LEMMA StartOfLine ==
  ASSUME NEW t, NEW p \in Nat
  PROVE  /\ LineStart(t, p) \in 0..p
         /\ LineStart(t, p) # 0 => t[LineStart(t, p)] = Newline
         /\ \A k \in 1..p : t[k] = Newline => k <= LineStart(t, p)
<1> DEFINE T == {0} \cup {k \in 1..p : t[k] = Newline}
<1>1. T \in SUBSET (0..p) /\ T # {}
  OBVIOUS
<1>2. Max(T) \in T /\ \A y \in T : y <= Max(T)
  <2> HIDE DEF T
  <2>1. QED
    BY <1>1, GreatestOf
<1>3. LineStart(t, p) = Max(T)
  BY DEF LineStart
<1>4. QED
  BY <1>2, <1>3

LEMMA LineStartIs ==
  ASSUME NEW t, NEW p \in Nat, NEW l \in 0..p, l # 0 => t[l] = Newline,
         \A k \in (l + 1)..p : t[k] # Newline
  PROVE  LineStart(t, p) = l
<1> DEFINE s == LineStart(t, p)
<1>1. /\ s \in 0..p
      /\ s # 0 => t[s] = Newline
      /\ \A k \in 1..p : t[k] = Newline => k <= s
  BY StartOfLine
<1> HIDE DEF s
<1>2. s <= l
  <2>1. s > l => s \in (l + 1)..p /\ s # 0
    BY <1>1
  <2>2. QED
    BY <1>1, <2>1
<1>3. l <= s
  <2>1. l # 0 => l \in 1..p
    OBVIOUS
  <2>2. QED
    BY <1>1, <2>1
<1>4. QED
  BY <1>1, <1>2, <1>3 DEF s

(* A line goes on behind characters that are no newlines, and a new one    *)
(* starts behind a newline.                                                *)
LEMMA LineGoesOn ==
  ASSUME NEW t, NEW p \in Nat, NEW q \in Nat, p <= q, \A k \in (p + 1)..q : t[k] # Newline
  PROVE  LineStart(t, q) = LineStart(t, p)
<1> DEFINE s == LineStart(t, p)
<1>1. /\ s \in 0..p
      /\ s # 0 => t[s] = Newline
      /\ \A k \in 1..p : t[k] = Newline => k <= s
  BY StartOfLine
<1> HIDE DEF s
<1>2. s \in 0..q /\ \A k \in (s + 1)..q : t[k] # Newline
  BY <1>1
<1>3. QED
  BY <1>1, <1>2, LineStartIs DEF s

LEMMA LineBegins ==
  ASSUME NEW t, NEW p \in Nat
  PROVE  LineStart(t, p) = p <=> p = 0 \/ t[p] = Newline
<1>1. ASSUME p = 0 \/ t[p] = Newline PROVE LineStart(t, p) = p
  <2>1. p \in 0..p /\ \A k \in (p + 1)..p : t[k] # Newline
    OBVIOUS
  <2>2. QED
    BY <1>1, <2>1, LineStartIs
<1>2. QED
  BY <1>1, StartOfLine

(* The start of a line is the start of its line.                           *)
LEMMA LineStartTwice ==
  ASSUME NEW t, NEW p \in Nat
  PROVE  LineStart(t, LineStart(t, p)) = LineStart(t, p)
<1>1. LineStart(t, p) \in Nat
  BY StartOfLine
<1>2. QED
  BY <1>1, StartOfLine, LineBegins

-----------------------------------------------------------------------------
(* Rows                                                                    *)
LEMMA RowFields ==
  ASSUME NEW r \in Row
  PROVE  /\ r.line \in Nat /\ r.start \in Nat /\ r.end \in Nat
         /\ r.cells \in Seq(Char \X Color) /\ Len(r.cells) \in Nat
         /\ r.box \in {"LineWrap", "EndOfLine", "EndOfDocument"}
<1>1. r.cells \in Seq(Char \X Color)
  BY DEF Row
<1>2. QED
  BY <1>1, LenProperties DEF Row

LEMMA BufferFacts ==
  ASSUME BufferOK
  PROVE  /\ length \in Nat /\ text \in Seq(Char) /\ Len(text) = length
         /\ Apart(markers, length) /\ markers \subseteq Marker
         /\ size.columns \in Nat /\ size.columns > 0
         /\ kind \in {"Sticky", "Fragile"}
<1>1. length \in Nat /\ Apart(markers, length) /\ markers \subseteq Marker
      /\ kind \in {"Sticky", "Fragile"}
  BY MaxLengthAssumption DEF BufferOK, MarkersApart, TypeOK, Apart
<1>2. QED
  BY <1>1, SizesAssumption DEF BufferOK

LEMMA TextChar ==
  ASSUME BufferOK, NEW k \in 1..length
  PROVE  text[k] \in Char
<1>1. text \in Seq(Char) /\ Len(text) = length
  BY DEF BufferOK
<1>2. QED
  BY <1>1, ElementOfSeq

LEMMA ColorTyped ==
  ASSUME NEW ms \in SUBSET Marker, NEW p
  PROVE  ColorOf(ms, p) \in Color
<1>1. MarkerAt(ms, p) \subseteq ms
  BY DEF MarkerAt, LowerBound
<1>2. CASE MarkerAt(ms, p) = {}
  BY <1>2 DEF ColorOf, Color
<1>3. CASE MarkerAt(ms, p) # {}
  <2>1. (CHOOSE m \in MarkerAt(ms, p) : TRUE) \in Marker
    BY <1>1, <1>3
  <2>2. QED
    BY <1>3, <2>1, MarkerFields DEF ColorOf, Color
<1>4. QED
  BY <1>2, <1>3

LEMMA CellsTyped ==
  ASSUME BufferOK, NEW p \in Nat, NEW n \in Nat, p + n <= length
  PROVE  /\ Cells(p, n) \in Seq(Char \X Color)
         /\ Len(Cells(p, n)) = n
         /\ \A i \in 1..n : /\ Cells(p, n)[i][1] = text[p + i]
                            /\ Cells(p, n)[i][2] = ColorOf(markers, p + i - 1)
<1>1. ASSUME NEW i \in 1..n
      PROVE  <<text[p + i], ColorOf(markers, p + i - 1)>> \in Char \X Color
  <2>1. p + i \in 1..length
    BY BufferFacts
  <2>2. text[p + i] \in Char /\ ColorOf(markers, p + i - 1) \in Color
    BY <2>1, TextChar, ColorTyped, BufferFacts
  <2>3. QED
    BY <2>2
<1>2. Cells(p, n) = [i \in 1..n |-> <<text[p + i], ColorOf(markers, p + i - 1)>>]
  BY DEF Cells
<1>3. Cells(p, n) \in [1..n -> Char \X Color]
  BY <1>1, <1>2
<1>4. Cells(p, n) \in Seq(Char \X Color) /\ Len(Cells(p, n)) = n
  BY <1>3
<1>5. ASSUME NEW i \in 1..n
      PROVE  Cells(p, n)[i][1] = text[p + i] /\ Cells(p, n)[i][2] = ColorOf(markers, p + i - 1)
  <2>1. Cells(p, n)[i] = <<text[p + i], ColorOf(markers, p + i - 1)>>
    BY <1>2
  <2>2. QED
    BY <2>1
<1>6. QED
  BY <1>4, <1>5

(* A new row: as long as there is room and no end of line or text.         *)
LEMMA NewRow ==
  ASSUME BufferOK, NEW p \in 0..length
  PROVE  LET r == FormatRow(LineStart(text, p), p)
         IN  /\ r \in Row /\ ShowsText(r) /\ r.start = p /\ r.line = LineStart(text, p)
             /\ EndsMarked => r.end # length
<1> DEFINE line == LineStart(text, p)
           room == Min({size.columns, length - p})
           stops == {k \in 0..room : p + k = length \/ text[p + k + 1] = Newline}
           n == IF stops = {} THEN size.columns ELSE Min(stops)
           box == IF stops = {} THEN "LineWrap"
                  ELSE IF p + n = length THEN "EndOfDocument" ELSE "EndOfLine"
           end == IF stops = {} THEN p + n ELSE p + n + 1
           r == [line |-> line, start |-> p, cells |-> Cells(p, n), end |-> end, box |-> box]
<1>1. /\ length \in Nat /\ Len(text) = length
      /\ size.columns \in Nat /\ size.columns > 0
  BY BufferFacts
<1>2. FormatRow(line, p) = r
  BY <1>1 DEF FormatRow
<1>3. line \in 0..p
  BY StartOfLine
<1>4. room \in Nat /\ room <= size.columns /\ room <= length - p
      /\ (room = size.columns \/ room = length - p)
  <2>1. {size.columns, length - p} \in SUBSET Nat
    BY <1>1
  <2>2. QED
    BY <2>1, LeastOf
<1> HIDE DEF room
<1>5. stops # {} => n \in stops /\ \A k \in stops : n <= k
  <2>1. stops \in SUBSET Nat
    BY <1>4
  <2>2. stops # {} => Min(stops) \in stops /\ \A k \in stops : Min(stops) <= k
    <3> HIDE DEF stops
    <3>1. QED
      BY <2>1, LeastOf
  <2>3. QED
    BY <2>2
<1>6. stops = {} => room = size.columns
  <2>1. room = length - p => room \in stops
    BY <1>1, <1>4
  <2>2. QED
    BY <1>4, <2>1
<1>7. n \in 0..room
  BY <1>1, <1>4, <1>5, <1>6
<1>8. ASSUME NEW k \in 0..(n - 1)
      PROVE  p + k # length /\ text[p + k + 1] # Newline
  <2>1. k \notin stops
    <3>1. n \in Nat /\ ~(n <= k)
      BY <1>7
    <3> HIDE DEF stops
    <3>2. QED
      BY <1>5, <3>1
  <2>2. k \in 0..room
    BY <1>4, <1>7
  <2>3. QED
    BY <2>1, <2>2
<1>9. stops # {} => p + n = length \/ text[p + n + 1] = Newline
  BY <1>5
<1>10. stops = {} => n > 0
  BY <1>1
<1>19. stops = {} => p + n # length
  <2>1. stops = {} => n = room
    BY <1>6
  <2>2. p + room = length => room \in stops
    BY <1>4
  <2>3. QED
    BY <2>1, <2>2
<1> HIDE DEF stops, n
<1>11. n \in Nat /\ p \in Nat /\ p + n <= length
  BY <1>1, <1>4, <1>7
<1>12. /\ Cells(p, n) \in Seq(Char \X Color) /\ Len(Cells(p, n)) = n
       /\ \A i \in 1..n : /\ Cells(p, n)[i][1] = text[p + i]
                          /\ Cells(p, n)[i][2] = ColorOf(markers, p + i - 1)
  BY <1>11, CellsTyped
<1>13. ASSUME NEW i \in 1..n PROVE text[p + i] # Newline
  <2>1. i - 1 \in 0..(n - 1) /\ p + (i - 1) + 1 = p + i
    BY <1>11
  <2>2. QED
    BY <1>8, <2>1
<1>14. r \in Row
  BY <1>3, <1>11, <1>12 DEF Row
<1>15. /\ r.line = line /\ r.start = p /\ r.cells = Cells(p, n) /\ r.end = end /\ r.box = box
  OBVIOUS
<1>16. /\ box = "EndOfLine" => p + n < length /\ end = p + n + 1 /\ text[end] = Newline
       /\ box = "EndOfDocument" => p + n = length /\ end = length + 1
       /\ box = "LineWrap" => end = p + n
       /\ end \in Nat /\ p < end
  BY <1>1, <1>9, <1>10, <1>11
<1>20. EndsMarked => end # length
  <2>1. EndsMarked => length = 0 \/ text[length] # Newline
    BY <1>1 DEF EndsMarked
  <2>2. QED
    BY <1>1, <1>9, <1>11, <1>19, <2>1
<1> HIDE DEF r, line, end, box
<1>17. ShowsText(r)
  BY <1>11, <1>12, <1>13, <1>15, <1>16 DEF ShowsText, line
<1>18. QED
  BY <1>2, <1>14, <1>15, <1>17, <1>20 DEF line

-----------------------------------------------------------------------------
(* The cache                                                               *)
LEMMA GoodRow ==
  ASSUME BufferOK, NEW rs, GoodRows(rs), NEW r \in rs
  PROVE  /\ r \in Row /\ ShowsText(r)
         /\ r.line \in Nat /\ r.start \in Nat /\ r.end \in Nat /\ Len(r.cells) \in Nat
         /\ r.start < r.end /\ r.start + Len(r.cells) <= length
         /\ r.start + Len(r.cells) <= r.end /\ r.end <= r.start + Len(r.cells) + 1
         /\ r.end <= length + 1
         /\ \A k \in (r.start + 1)..(r.end - 1) : text[k] # Newline
         /\ r.line = LineStart(text, r.start)
<1>1. r \in Row /\ ShowsText(r) /\ length \in Nat
  BY BufferFacts DEF GoodRows
<1>2. /\ r.line \in Nat /\ r.start \in Nat /\ r.end \in Nat /\ Len(r.cells) \in Nat
      /\ r.box \in {"LineWrap", "EndOfLine", "EndOfDocument"}
  BY <1>1, RowFields
<1>3. /\ r.start < r.end /\ r.start + Len(r.cells) <= length
      /\ r.box = "EndOfLine" => r.end = r.start + Len(r.cells) + 1
      /\ r.box = "EndOfDocument" => r.start + Len(r.cells) = length /\ r.end = length + 1
      /\ r.box = "LineWrap" => r.end = r.start + Len(r.cells)
      /\ \A i \in 1..Len(r.cells) : text[r.start + i] # Newline
      /\ r.line = LineStart(text, r.start)
  BY <1>1 DEF ShowsText
<1>4. r.start + Len(r.cells) <= r.end /\ r.end <= r.start + Len(r.cells) + 1
  BY <1>1, <1>2, <1>3
<1>5. ASSUME NEW k \in (r.start + 1)..(r.end - 1) PROVE text[k] # Newline
  <2>1. k - r.start \in 1..Len(r.cells) /\ r.start + (k - r.start) = k
    BY <1>2, <1>4
  <2>2. QED
    BY <1>3, <2>1
<1>6. QED
  BY <1>1, <1>2, <1>3, <1>4, <1>5

LEMMA Disjoint ==
  ASSUME NEW rs, GoodRows(rs), NEW r \in rs, NEW s \in rs, r # s
  PROVE  r.end <= s.start \/ s.end <= r.start
BY DEF GoodRows, RowsApart

(* A row that starts where no line starts is led by another one.           *)
LEMMA Leader ==
  ASSUME BufferOK, NEW rs, GoodRows(rs), NEW r \in rs, r.start # 0, text[r.start] # Newline
  PROVE  \E s \in rs : s.end = r.start
<1>1. r.line = LineStart(text, r.start) /\ r.start \in Nat
  BY GoodRow
<1>2. IsContinued(r)
  BY <1>1, LineBegins DEF IsContinued
<1>3. QED
  BY <1>2 DEF GoodRows, Led

(* Where the next row of a line has to start: at the start of a line, or   *)
(* where a row ends.                                                       *)
RowMayStart(rs, p) == p = LineStart(text, p) \/ \E s \in rs : s.end = p

(* A row that is found there starts there.                                 *)
LEMMA FoundRow ==
  ASSUME BufferOK, NEW rs, GoodRows(rs), NEW p \in 0..length, RowMayStart(rs, p),
         NEW r \in FindLine(rs, p)
  PROVE  r \in rs /\ r.start = p
<1>1. r \in rs /\ r.start <= p /\ p < r.end
  BY BufferFacts DEF FindLine, GoodRows, Row
<1>2. /\ r.start \in Nat /\ r.end \in Nat
      /\ \A k \in (r.start + 1)..(r.end - 1) : text[k] # Newline
  BY <1>1, GoodRow
<1>3. CASE \E s \in rs : s.end = p
  <2>1. PICK s \in rs : s.end = p
    BY <1>3
  <2>2. s.start \in Nat /\ s.start < s.end /\ s # r
    BY <1>1, <1>2, <2>1, GoodRow
  <2>3. r.end <= s.start \/ s.end <= r.start
    BY <1>1, <2>2, Disjoint
  <2>4. QED
    BY <1>1, <1>2, <2>1, <2>2, <2>3
<1>4. CASE p = LineStart(text, p)
  <2>1. p = 0 \/ text[p] = Newline
    BY <1>4, LineBegins
  <2>2. p \notin (r.start + 1)..(r.end - 1) \/ p = 0
    BY <1>2, <2>1
  <2>3. QED
    BY <1>1, <1>2, <2>2
<1>5. QED
  BY <1>3, <1>4 DEF RowMayStart

LEMMA NothingFound ==
  ASSUME BufferOK, NEW rs, GoodRows(rs), NEW p \in 0..length, FindLine(rs, p) = {},
         NEW r \in rs
  PROVE  p < r.start \/ r.end <= p
<1> SUFFICES ASSUME r.start <= p, p < r.end PROVE FALSE
  BY GoodRow
<1>1. ASSUME NEW s \in rs, s.end > p PROVE r.end <= s.end
  <2>1. r.start \in Nat /\ r.end \in Nat /\ s.start \in Nat /\ s.end \in Nat /\ s.start < s.end
    BY GoodRow
  <2>2. CASE s # r
    <3>1. r.end <= s.start \/ s.end <= r.start
      BY <2>2, Disjoint
    <3>2. QED
      BY <1>1, <2>1, <3>1
  <2>3. QED
    BY <2>1, <2>2
<1>2. r.end > p
  BY GoodRow
<1>3. r \in FindLine(rs, p)
  BY <1>1, <1>2 DEF FindLine
<1>4. QED
  BY <1>3

(* A new row at a place that no row covers does not reach into any other   *)
(* row: the first of those would be continued, and the row it continues    *)
(* would cover the place.                                                  *)
LEMMA NewRowApart ==
  ASSUME BufferOK, NEW rs, GoodRows(rs), NEW p \in 0..length,
         \A r \in rs : p < r.start \/ r.end <= p,
         NEW new \in Row, ShowsText(new), new.start = p,
         NEW s \in rs
  PROVE  s.end <= p \/ new.end <= s.start
<1> SUFFICES ASSUME ~(s.end <= p), ~(new.end <= s.start) PROVE FALSE
  OBVIOUS
<1>1. ASSUME NEW r \in rs PROVE r.start \in Nat /\ r.end \in Nat /\ r.start < r.end
  BY GoodRow
<1>2. new.end \in Nat /\ Len(new.cells) \in Nat
  BY RowFields
<1>3. /\ new.end <= p + Len(new.cells) + 1
      /\ \A i \in 1..Len(new.cells) : text[p + i] # Newline
  <2>1. new.box \in {"LineWrap", "EndOfLine", "EndOfDocument"}
    BY RowFields
  <2>2. QED
    BY <1>2, <2>1, BufferFacts DEF ShowsText
<1> DEFINE T == {k \in Nat : p < k /\ k < new.end /\ \E t \in rs : t.start = k}
<1>4. s.start \in T
  BY <1>1, <1>2
<1>5. Min(T) \in T /\ \A k \in T : Min(T) <= k
  <2>1. T \in SUBSET Nat
    OBVIOUS
  <2> HIDE DEF T
  <2>2. QED
    BY <1>4, <2>1, LeastOf
<1>6. PICK t \in rs : t.start = Min(T)
  BY <1>5
<1>7. t.start \in Nat /\ p < t.start /\ t.start < new.end /\ \A k \in T : t.start <= k
  BY <1>5, <1>6
<1>8. text[t.start] # Newline
  <2>1. t.start - p \in 1..Len(new.cells) /\ p + (t.start - p) = t.start
    BY <1>2, <1>3, <1>7
  <2>2. QED
    BY <1>3, <2>1
<1>9. PICK u \in rs : u.end = t.start
  BY <1>7, <1>8, Leader
<1>10. u.start \in Nat /\ u.start < t.start
  BY <1>1, <1>9
<1>11. p < u.start
  BY <1>7, <1>9, <1>10
<1>12. u.start \in T
  BY <1>2, <1>7, <1>10, <1>11
<1>13. QED
  BY <1>7, <1>10, <1>12

(* Adding such a row drops no other one and keeps the cache good.          *)
LEMMA Registered ==
  ASSUME BufferOK, NEW rs, GoodRows(rs), NEW p \in 0..length, RowMayStart(rs, p),
         FindLine(rs, p) = {}, NEW new \in Row, ShowsText(new), new.start = p
  PROVE  Register(rs, new) = rs \cup {new} /\ GoodRows(rs \cup {new})
<1>1. ASSUME NEW s \in rs PROVE s.end <= p \/ new.end <= s.start
  BY NothingFound, NewRowApart
<1>2. ASSUME NEW s \in rs PROVE s.start \in Nat /\ s.end \in Nat /\ s.start < s.end
  BY GoodRow
<1>3. new.end \in Nat /\ p < new.end
  BY RowFields DEF ShowsText
<1>4. ASSUME NEW s \in rs PROVE s.end # new.end
  BY <1>1, <1>2, <1>3
<1>5. Register(rs, new) = rs \cup {new}
  BY <1>4 DEF Register
<1>6. RowsApart(rs \cup {new})
  <2>1. RowsApart(rs)
    BY DEF GoodRows
  <2>2. QED
    BY <1>1, <2>1 DEF RowsApart
<1>7. Led(rs \cup {new})
  <2>1. Led(rs)
    BY DEF GoodRows
  <2>2. IsContinued(new) => \E s \in rs : s.end = new.start
    BY DEF IsContinued, RowMayStart, ShowsText
  <2>3. QED
    BY <2>1, <2>2 DEF Led
<1>8. QED
  BY <1>5, <1>6, <1>7 DEF GoodRows

-----------------------------------------------------------------------------
(* A formatter at work                                                     *)

(* A formatter on a cache that still has the rows of R: it goes on where   *)
(* the rows it has given end, and knows the line it is in.                 *)
Formatters(R) ==
  {f \in [rows : SUBSET Row, line : Nat, offset : Nat, given : Seq(Row)] :
     /\ R \subseteq f.rows /\ GoodRows(f.rows) /\ Marked(f.rows)
     /\ Stretch(f.rows, f.given)
     /\ f.offset <= length + 1
     /\ f.given # << >> => f.given[Len(f.given)].end = f.offset
     /\ f.offset <= length =>
          f.line = LineStart(text, f.offset) /\ RowMayStart(f.rows, f.offset)}

LEMMA FormatterFacts ==
  ASSUME NEW R, NEW f \in Formatters(R)
  PROVE  /\ f.rows \subseteq Row /\ f.line \in Nat /\ f.offset \in Nat /\ f.given \in Seq(Row)
         /\ Len(f.given) \in Nat /\ (Len(f.given) # 0 <=> f.given # << >>)
         /\ R \subseteq f.rows /\ GoodRows(f.rows) /\ Stretch(f.rows, f.given)
         /\ Marked(f.rows)
         /\ f.offset <= length + 1
         /\ f.given # << >> => f.given[Len(f.given)].end = f.offset
         /\ f.offset <= length =>
              f.line = LineStart(text, f.offset) /\ RowMayStart(f.rows, f.offset)
<1>1. f.given \in Seq(Row)
  BY DEF Formatters
<1>2. Len(f.given) \in Nat /\ (Len(f.given) # 0 <=> f.given # << >>)
  BY <1>1, EmptySeq, LenProperties
<1>3. QED
  BY <1>1, <1>2 DEF Formatters

(* The row a formatter gives next, from a cache that it leaves as rs2.     *)
Given(rs, p, r, rs2) ==
  /\ rs \subseteq rs2 /\ GoodRows(rs2) /\ Marked(rs2) /\ r \in rs2 /\ r.start = p

LEMMA RowGiven ==
  ASSUME BufferOK, NEW rs, GoodRows(rs), Marked(rs), NEW p \in 0..length,
         RowMayStart(rs, p)
  PROVE  LET found == FindLine(rs, p)
             r == IF found = {} THEN FormatRow(LineStart(text, p), p)
                  ELSE CHOOSE s \in found : TRUE
         IN  Given(rs, p, r, IF found = {} THEN Register(rs, r) ELSE rs)
<1>1. CASE FindLine(rs, p) = {}
  <2> DEFINE new == FormatRow(LineStart(text, p), p)
  <2>1. new \in Row /\ ShowsText(new) /\ new.start = p /\ (EndsMarked => new.end # length)
    BY NewRow
  <2> HIDE DEF new
  <2>2. Register(rs, new) = rs \cup {new} /\ GoodRows(rs \cup {new})
    BY <1>1, <2>1, Registered
  <2>3. Given(rs, p, new, Register(rs, new))
    BY <2>1, <2>2 DEF Given, Marked
  <2>4. QED
    BY <1>1, <2>3 DEF new
<1>2. CASE FindLine(rs, p) # {}
  <2> DEFINE r == CHOOSE s \in FindLine(rs, p) : TRUE
  <2>1. r \in FindLine(rs, p)
    BY <1>2
  <2> HIDE DEF r
  <2>2. r \in rs /\ r.start = p
    BY <2>1, FoundRow
  <2>3. Given(rs, p, r, rs)
    BY <2>2 DEF Given
  <2>4. QED
    BY <1>2, <2>3 DEF r
<1>3. QED
  BY <1>1, <1>2

(* Behind a row the line goes on, or the next one starts.                  *)
LEMMA LineBehind ==
  ASSUME BufferOK, NEW rs, GoodRows(rs), NEW r \in rs
  PROVE  /\ r.box = "EndOfDocument" <=> r.end = length + 1
         /\ r.end <= length =>
              (IF r.box = "EndOfLine" THEN r.end ELSE r.line) = LineStart(text, r.end)
<1>1. /\ r \in Row /\ ShowsText(r) /\ length \in Nat
      /\ r.start \in Nat /\ r.end \in Nat /\ r.start < r.end
      /\ r.line = LineStart(text, r.start)
      /\ \A k \in (r.start + 1)..(r.end - 1) : text[k] # Newline
  BY GoodRow, BufferFacts
<1>2. r.box \in {"LineWrap", "EndOfLine", "EndOfDocument"} /\ Len(r.cells) \in Nat
  BY <1>1, RowFields
<1>3. /\ r.start + Len(r.cells) <= length
      /\ r.box = "EndOfLine" =>
           /\ r.start + Len(r.cells) < length
           /\ r.end = r.start + Len(r.cells) + 1 /\ text[r.end] = Newline
      /\ r.box = "EndOfDocument" => r.end = length + 1
      /\ r.box = "LineWrap" => r.end = r.start + Len(r.cells)
      /\ \A i \in 1..Len(r.cells) : text[r.start + i] # Newline
  BY <1>1 DEF ShowsText
<1>4. CASE r.box = "EndOfLine"
  <2>1. r.end <= length
    BY <1>1, <1>2, <1>3, <1>4
  <2>2. QED
    BY <1>1, <1>3, <1>4, <2>1, LineBegins
<1>5. CASE r.box = "LineWrap"
  <2>1. r.end <= length /\ r.end = r.start + Len(r.cells)
    BY <1>3, <1>5
  <2>2. ASSUME NEW k \in (r.start + 1)..r.end PROVE text[k] # Newline
    <3>1. k - r.start \in 1..Len(r.cells) /\ r.start + (k - r.start) = k
      BY <1>1, <1>2, <2>1
    <3>2. QED
      BY <1>3, <3>1
  <2>3. LineStart(text, r.end) = LineStart(text, r.start)
    BY <1>1, <2>2, LineGoesOn
  <2>4. QED
    BY <1>1, <1>5, <2>1, <2>3
<1>6. CASE r.box = "EndOfDocument"
  BY <1>1, <1>3, <1>6
<1>7. QED
  BY <1>2, <1>4, <1>5, <1>6

LEMMA Appended ==
  ASSUME NEW rs, NEW v, Stretch(rs, v), NEW rs2, rs \subseteq rs2,
         NEW r \in Row, r \in rs2, v # << >> => r.start = v[Len(v)].end
  PROVE  /\ Stretch(rs2, Append(v, r))
         /\ Append(v, r) # << >>
         /\ Len(Append(v, r)) = Len(v) + 1 /\ Append(v, r)[Len(v) + 1] = r
         /\ \A i \in 1..Len(v) : Append(v, r)[i] = v[i]
<1> DEFINE w == Append(v, r)
<1>1. /\ v \in Seq(Row) /\ Len(v) \in Nat /\ (v # << >> <=> Len(v) # 0)
      /\ \A i \in 1..Len(v) : v[i] \in rs
      /\ \A i \in 2..Len(v) : v[i].start = v[i - 1].end
  BY EmptySeq, LenProperties DEF Stretch
<1>2. /\ w \in Seq(Row) /\ w # << >> /\ Len(w) = Len(v) + 1 /\ w[Len(v) + 1] = r
      /\ \A i \in 1..Len(v) : w[i] = v[i]
  BY <1>1, AppendProperties
<1> HIDE DEF w
<1>3. ASSUME NEW i \in 1..Len(w) PROVE w[i] \in rs2
  <2>1. i \in 1..Len(v) \/ i = Len(v) + 1
    BY <1>1, <1>2
  <2>2. QED
    BY <1>1, <1>2, <2>1
<1>4. ASSUME NEW i \in 2..Len(w) PROVE w[i].start = w[i - 1].end
  <2>1. CASE i \in 2..Len(v)
    <3>1. i \in 1..Len(v) /\ i - 1 \in 1..Len(v)
      BY <2>1
    <3>2. QED
      BY <1>1, <1>2, <2>1, <3>1
  <2>2. CASE i = Len(v) + 1
    <3>1. Len(v) \in 1..Len(v) /\ i - 1 = Len(v)
      BY <1>1, <2>2
    <3>2. QED
      BY <1>1, <1>2, <2>2, <3>1
  <2>3. QED
    BY <1>1, <1>2, <2>1, <2>2
<1>5. QED
  BY <1>2, <1>3, <1>4 DEF Stretch, w

(* BlockFlow::FormatLine gives the row that starts where the formatter is  *)
(* and goes on behind it; the cache keeps all its rows.                    *)
NextOf(f, g) ==
  /\ f.rows \subseteq g.rows /\ f.offset < g.offset
  /\ Len(g.given) = Len(f.given) + 1
  /\ \A i \in 1..Len(f.given) : g.given[i] = f.given[i]
  /\ g.given[Len(g.given)].start = f.offset
  /\ g.given[Len(g.given)].box = "EndOfDocument" <=> g.offset = length + 1

LEMMA NextRowGiven ==
  ASSUME BufferOK, NEW R, NEW f \in Formatters(R), f.offset <= length
  PROVE  NextRow(f) \in Formatters(R) /\ NextOf(f, NextRow(f))
<1> DEFINE found == FindLine(f.rows, f.offset)
           r == IF found = {} THEN FormatRow(f.line, f.offset) ELSE CHOOSE s \in found : TRUE
           rs2 == IF found = {} THEN Register(f.rows, r) ELSE f.rows
           line == IF r.box = "EndOfLine" THEN r.end ELSE r.line
           given == Append(f.given, r)
           g == [rows |-> rs2, line |-> line, offset |-> r.end, given |-> given]
<1>1. NextRow(f) = g
  BY DEF NextRow
<1>2. /\ f.offset \in 0..length /\ f.given \in Seq(Row) /\ Len(f.given) \in Nat
      /\ R \subseteq f.rows /\ GoodRows(f.rows) /\ Stretch(f.rows, f.given) /\ Marked(f.rows)
      /\ f.given # << >> => f.given[Len(f.given)].end = f.offset
      /\ f.line = LineStart(text, f.offset) /\ RowMayStart(f.rows, f.offset)
      /\ length \in Nat
  BY FormatterFacts, BufferFacts
<1>3. Given(f.rows, f.offset, r, rs2)
  BY <1>2, RowGiven
<1> HIDE DEF r, rs2
<1>4. f.rows \subseteq rs2 /\ GoodRows(rs2) /\ Marked(rs2) /\ r \in rs2 /\ r.start = f.offset
  BY <1>3 DEF Given
<1>5. /\ r \in Row /\ r.line \in Nat /\ r.end \in Nat /\ f.offset < r.end /\ r.end <= length + 1
      /\ rs2 \subseteq Row
  BY <1>4, GoodRow DEF GoodRows
<1>6. /\ r.box = "EndOfDocument" <=> r.end = length + 1
      /\ r.end <= length => line = LineStart(text, r.end)
  BY <1>4, LineBehind
<1>7. RowMayStart(rs2, r.end)
  BY <1>4 DEF RowMayStart
<1>8. /\ Stretch(rs2, given) /\ given # << >> /\ Len(given) = Len(f.given) + 1
      /\ given[Len(f.given) + 1] = r /\ \A i \in 1..Len(f.given) : given[i] = f.given[i]
  BY <1>2, <1>4, <1>5, Appended
<1>9. given \in Seq(Row)
  BY <1>8 DEF Stretch
<1>10. line \in Nat
  BY <1>5
<1> HIDE DEF line, given
<1>11. /\ g.rows = rs2 /\ g.line = line /\ g.offset = r.end /\ g.given = given
  OBVIOUS
<1>12. g \in [rows : SUBSET Row, line : Nat, offset : Nat, given : Seq(Row)]
  BY <1>5, <1>9, <1>10
<1> HIDE DEF g
<1>13. g \in Formatters(R)
  BY <1>2, <1>4, <1>5, <1>6, <1>7, <1>8, <1>11, <1>12 DEF Formatters
<1>14. NextOf(f, g)
  BY <1>2, <1>4, <1>5, <1>6, <1>8, <1>11 DEF NextOf
<1>15. QED
  BY <1>1, <1>13, <1>14

(* FormatContextFor: a formatter starts at the start of a line.            *)
LEMMA FormatterStarts ==
  ASSUME BufferOK, NEW rs, GoodRows(rs), Marked(rs), NEW p \in 0..length
  PROVE  LET l == LineStart(text, p)
         IN  /\ Formatter(rs, l, l) \in Formatters(rs)
             /\ Formatter(rs, l, l).offset = l /\ l \in 0..p
             /\ Formatter(rs, l, l).given = << >>
<1> DEFINE l == LineStart(text, p)
           f == [rows |-> rs, line |-> l, offset |-> l, given |-> << >>]
<1>1. l \in 0..p /\ LineStart(text, l) = l /\ length \in Nat
  BY StartOfLine, LineStartTwice, BufferFacts
<1>2. RowMayStart(rs, l)
  BY <1>1 DEF RowMayStart
<1>3. << >> \in Seq(Row) /\ Len(<< >>) = 0 /\ rs \subseteq Row
  BY EmptySeq DEF GoodRows
<1>4. Stretch(rs, << >>)
  BY <1>3 DEF Stretch
<1> HIDE DEF l
<1>5. f \in [rows : SUBSET Row, line : Nat, offset : Nat, given : Seq(Row)]
  BY <1>1, <1>3
<1>6. f.rows = rs /\ f.line = l /\ f.offset = l /\ f.given = << >>
  OBVIOUS
<1> HIDE DEF f
<1>7. f \in Formatters(rs)
  BY <1>1, <1>2, <1>4, <1>5, <1>6 DEF Formatters
<1>8. QED
  BY <1>1, <1>6, <1>7 DEF Formatter, f, l

-----------------------------------------------------------------------------
(* Loops                                                                   *)

Iterates(it, S, st, x, n) ==
  /\ it \in [0..n -> S]
  /\ it = [i \in 0..n |-> IF i = 0 THEN x ELSE st[it[i - 1]]]

(* A step on the members of a set can be taken any number of times.        *)
LEMMA Rounds ==
  ASSUME NEW S, NEW st \in [S -> S], NEW x \in S, NEW n \in Nat
  PROVE  \E it : Iterates(it, S, st, x, n)
<1> DEFINE Runs(it, k) == /\ it \in [0..k -> S] /\ it[0] = x
                          /\ \A i \in 0..(k - 1) : it[i + 1] = st[it[i]]
           T == {k \in 0..n : \E it : Runs(it, k)}
<1>1. 0 \in T
  <2> DEFINE it == [i \in 0..0 |-> x]
  <2>1. it \in [0..0 -> S] /\ it[0] = x
    OBVIOUS
  <2>2. Runs(it, 0) /\ 0 \in 0..n
    BY <2>1
  <2> HIDE DEF Runs
  <2>3. QED
    BY <2>2
<1>2. ASSUME NEW k \in 0..(n - 1), k \in T PROVE k + 1 \in T
  <2>1. PICK it : Runs(it, k)
    BY <1>2
  <2> DEFINE jt == [i \in 0..(k + 1) |-> IF i = k + 1 THEN st[it[k]] ELSE it[i]]
  <2>2. it[k] \in S /\ st[it[k]] \in S
    BY <2>1
  <2>3. jt \in [0..(k + 1) -> S]
    BY <2>1, <2>2
  <2>4. jt[0] = x
    BY <2>1
  <2>5. ASSUME NEW i \in 0..k PROVE jt[i + 1] = st[jt[i]]
    <3>1. jt[i] = it[i]
      OBVIOUS
    <3>2. CASE i = k
      BY <3>1, <3>2
    <3>3. CASE i # k
      <4>1. i \in 0..(k - 1) /\ i + 1 \in 0..(k + 1) /\ i + 1 # k + 1
        BY <3>3
      <4>2. jt[i + 1] = it[i + 1]
        BY <4>1
      <4>3. QED
        BY <2>1, <3>1, <4>1, <4>2
    <3>4. QED
      BY <3>2, <3>3
  <2>6. k + 1 - 1 = k /\ k + 1 \in 0..n
    OBVIOUS
  <2> HIDE DEF jt
  <2>7. Runs(jt, k + 1)
    BY <2>3, <2>4, <2>5, <2>6
  <2>8. QED
    BY <2>6, <2>7
<1>3. n \in T
  <2> HIDE DEF T
  <2>1. QED
    BY <1>1, <1>2, EveryRound
<1>4. PICK it : Runs(it, n)
  BY <1>3
<1>5. ASSUME NEW i \in 0..n PROVE it[i] = IF i = 0 THEN x ELSE st[it[i - 1]]
  <2>1. CASE i # 0
    <3>1. i - 1 \in 0..(n - 1) /\ i - 1 + 1 = i
      BY <2>1
    <3>2. QED
      BY <1>4, <2>1, <3>1
  <2>2. QED
    BY <1>4, <2>1
<1>6. it = [i \in 0..n |-> IF i = 0 THEN x ELSE st[it[i - 1]]]
  BY <1>4, <1>5
<1>7. Iterates(it, S, st, x, n)
  BY <1>4, <1>6 DEF Iterates
<1>8. QED
  BY <1>7

(* The rounds of a loop that stays in S: what each of them does.           *)
Looped(S, st, x, n, round) ==
  /\ round[0] = x
  /\ \A i \in 0..n : round[i] \in S
  /\ \A i \in 0..(n - 1) : round[i + 1] = st[round[i]]

LEMMA LoopRounds ==
  ASSUME NEW S, NEW st \in [S -> S], NEW x \in S, NEW n \in Nat, NEW round,
         round = [i \in 0..n |-> round[i]], round[0] = x,
         \A i \in 0..(n - 1) : round[i] \in S => round[i + 1] = st[round[i]]
  PROVE  Looped(S, st, x, n, round)
<1> DEFINE T == {i \in 0..n : round[i] \in S}
<1>1. 0 \in T
  OBVIOUS
<1>2. ASSUME NEW i \in 0..(n - 1), i \in T PROVE i + 1 \in T
  <2>1. i + 1 \in 0..n /\ round[i + 1] = st[round[i]] /\ round[i] \in S
    BY <1>2
  <2>2. QED
    BY <2>1
<1>3. \A i \in 0..n : i \in T
  <2> HIDE DEF T
  <2>1. QED
    BY <1>1, <1>2, EveryRound
<1>4. ASSUME NEW i \in 0..n PROVE round[i] \in S
  BY <1>3
<1>5. ASSUME NEW i \in 0..(n - 1) PROVE round[i + 1] = st[round[i]]
  BY <1>4
<1>6. QED
  BY <1>4, <1>5 DEF Looped

(* One round of each loop of the formatter.                                *)
ReachTurn(p, g) == IF p >= g.offset THEN NextRow(g) ELSE g

FillTurn(g) ==
  IF 2 * Len(g.given) < Height /\ g.offset <= Len(text) THEN NextRow(g) ELSE g

ScrollTurn(p, g) ==
  IF g.offset < Len(text) /\ p > Head(g.given).end
  THEN NextRow([g EXCEPT !.given = Tail(@)]) ELSE g

LEMMA ReachRounds ==
  ASSUME BufferOK, NEW f, NEW p, NEW S, NextRow(f) \in S,
         \A g \in S : ReachTurn(p, g) \in S
  PROVE  \E round : /\ Looped(S, [g \in S |-> ReachTurn(p, g)], NextRow(f), MaxRows, round)
                    /\ Reach(f, p) = round[MaxRows]
<1> DEFINE x == NextRow(f)
           Turn(g) == ReachTurn(p, g)
           st == [g \in S |-> Turn(g)]
           n == MaxRows
           Is(r) == r = [i \in 0..n |-> IF i = 0 THEN x ELSE Turn(r[i - 1])]
           round == CHOOSE r : Is(r)
<1>1. n \in Nat
  BY BufferFacts DEF MaxRows
<1>2. st \in [S -> S] /\ x \in S
  OBVIOUS
<1>3. Reach(f, p) = round[n]
  BY DEF Reach, While, ReachTurn
<1> HIDE DEF x, n
<1>4. PICK it : Iterates(it, S, st, x, n)
  <2> HIDE DEF st
  <2>1. QED
    BY <1>1, <1>2, Rounds
<1>5. ASSUME NEW i \in 0..n, i # 0 PROVE st[it[i - 1]] = Turn(it[i - 1])
  <2>1. it \in [0..n -> S]
    BY <1>4 DEF Iterates
  <2>2. i - 1 \in 0..n
    BY <1>1, <1>5
  <2>3. it[i - 1] \in S
    BY <2>1, <2>2
  <2> HIDE DEF Turn
  <2>4. QED
    BY <2>3
<1>6. Is(it)
  <2> HIDE DEF Turn, st
  <2>1. QED
    BY <1>4, <1>5 DEF Iterates
<1>7. Is(round)
  <2> HIDE DEF Is
  <2>1. QED
    BY <1>6
<1> HIDE DEF round
<1>8. /\ round[0] = x /\ round = [i \in 0..n |-> round[i]]
      /\ \A i \in 0..n : i # 0 => round[i] = Turn(round[i - 1])
  <2> HIDE DEF Turn
  <2>1. QED
    BY <1>1, <1>7
<1>9. ASSUME NEW i \in 0..(n - 1), round[i] \in S PROVE round[i + 1] = st[round[i]]
  <2> DEFINE j == i + 1
  <2>1. j \in 0..n /\ j # 0 /\ j - 1 = i
    BY <1>1
  <2> HIDE DEF j, Turn
  <2>2. round[j] = st[round[i]]
    BY <1>8, <1>9, <2>1
  <2>3. QED
    BY <2>2 DEF j
<1>10. Looped(S, st, x, n, round)
  <2> HIDE DEF st
  <2>1. QED
    BY <1>1, <1>2, <1>8, <1>9, LoopRounds
<1>11. QED
  BY <1>3, <1>10 DEF x, n

LEMMA FillRounds ==
  ASSUME BufferOK, NEW f, NEW S, NextRow(f) \in S,
         \A g \in S : FillTurn(g) \in S
  PROVE  \E round : /\ Looped(S, [g \in S |-> FillTurn(g)], NextRow(f), MaxRows, round)
                    /\ Fill(f) = round[MaxRows]
<1> DEFINE x == NextRow(f)
           Turn(g) == FillTurn(g)
           st == [g \in S |-> Turn(g)]
           n == MaxRows
           Is(r) == r = [i \in 0..n |-> IF i = 0 THEN x ELSE Turn(r[i - 1])]
           round == CHOOSE r : Is(r)
<1>1. n \in Nat
  BY BufferFacts DEF MaxRows
<1>2. st \in [S -> S] /\ x \in S
  OBVIOUS
<1>3. Fill(f) = round[n]
  BY DEF Fill, While, FillTurn
<1> HIDE DEF x, n
<1>4. PICK it : Iterates(it, S, st, x, n)
  <2> HIDE DEF st
  <2>1. QED
    BY <1>1, <1>2, Rounds
<1>5. ASSUME NEW i \in 0..n, i # 0 PROVE st[it[i - 1]] = Turn(it[i - 1])
  <2>1. it \in [0..n -> S]
    BY <1>4 DEF Iterates
  <2>2. i - 1 \in 0..n
    BY <1>1, <1>5
  <2>3. it[i - 1] \in S
    BY <2>1, <2>2
  <2> HIDE DEF Turn
  <2>4. QED
    BY <2>3
<1>6. Is(it)
  <2> HIDE DEF Turn, st
  <2>1. QED
    BY <1>4, <1>5 DEF Iterates
<1>7. Is(round)
  <2> HIDE DEF Is
  <2>1. QED
    BY <1>6
<1> HIDE DEF round
<1>8. /\ round[0] = x /\ round = [i \in 0..n |-> round[i]]
      /\ \A i \in 0..n : i # 0 => round[i] = Turn(round[i - 1])
  <2> HIDE DEF Turn
  <2>1. QED
    BY <1>1, <1>7
<1>9. ASSUME NEW i \in 0..(n - 1), round[i] \in S PROVE round[i + 1] = st[round[i]]
  <2> DEFINE j == i + 1
  <2>1. j \in 0..n /\ j # 0 /\ j - 1 = i
    BY <1>1
  <2> HIDE DEF j, Turn
  <2>2. round[j] = st[round[i]]
    BY <1>8, <1>9, <2>1
  <2>3. QED
    BY <2>2 DEF j
<1>10. Looped(S, st, x, n, round)
  <2> HIDE DEF st
  <2>1. QED
    BY <1>1, <1>2, <1>8, <1>9, LoopRounds
<1>11. QED
  BY <1>3, <1>10 DEF x, n

LEMMA ScrollRounds ==
  ASSUME BufferOK, NEW p, NEW f, NEW S, f \in S,
         \A g \in S : ScrollTurn(p, g) \in S
  PROVE  \E round : /\ Looped(S, [g \in S |-> ScrollTurn(p, g)], f, MaxRows, round)
                    /\ ScrollTo(f, p) = round[MaxRows]
<1> DEFINE x == f
           Turn(g) == ScrollTurn(p, g)
           st == [g \in S |-> Turn(g)]
           n == MaxRows
           Is(r) == r = [i \in 0..n |-> IF i = 0 THEN x ELSE Turn(r[i - 1])]
           round == CHOOSE r : Is(r)
<1>1. n \in Nat
  BY BufferFacts DEF MaxRows
<1>2. st \in [S -> S] /\ x \in S
  OBVIOUS
<1>3. ScrollTo(f, p) = round[n]
  BY DEF ScrollTo, While, ScrollTurn
<1> HIDE DEF x, n
<1>4. PICK it : Iterates(it, S, st, x, n)
  <2> HIDE DEF st
  <2>1. QED
    BY <1>1, <1>2, Rounds
<1>5. ASSUME NEW i \in 0..n, i # 0 PROVE st[it[i - 1]] = Turn(it[i - 1])
  <2>1. it \in [0..n -> S]
    BY <1>4 DEF Iterates
  <2>2. i - 1 \in 0..n
    BY <1>1, <1>5
  <2>3. it[i - 1] \in S
    BY <2>1, <2>2
  <2> HIDE DEF Turn
  <2>4. QED
    BY <2>3
<1>6. Is(it)
  <2> HIDE DEF Turn, st
  <2>1. QED
    BY <1>4, <1>5 DEF Iterates
<1>7. Is(round)
  <2> HIDE DEF Is
  <2>1. QED
    BY <1>6
<1> HIDE DEF round
<1>8. /\ round[0] = x /\ round = [i \in 0..n |-> round[i]]
      /\ \A i \in 0..n : i # 0 => round[i] = Turn(round[i - 1])
  <2> HIDE DEF Turn
  <2>1. QED
    BY <1>1, <1>7
<1>9. ASSUME NEW i \in 0..(n - 1), round[i] \in S PROVE round[i + 1] = st[round[i]]
  <2> DEFINE j == i + 1
  <2>1. j \in 0..n /\ j # 0 /\ j - 1 = i
    BY <1>1
  <2> HIDE DEF j, Turn
  <2>2. round[j] = st[round[i]]
    BY <1>8, <1>9, <2>1
  <2>3. QED
    BY <2>2 DEF j
<1>10. Looped(S, st, x, n, round)
  <2> HIDE DEF st
  <2>1. QED
    BY <1>1, <1>2, <1>8, <1>9, LoopRounds
<1>11. QED
  BY <1>3, <1>10 DEF x, n

(* RowsUpTo: the last row given has p in it.                               *)
Reached(R, p, g) ==
  /\ g \in Formatters(R) /\ g.given # << >>
  /\ g.given[Len(g.given)].start <= p /\ p < g.offset

LEMMA NextGiven ==
  ASSUME BufferOK, NEW R, NEW f \in Formatters(R), f.offset <= length
  PROVE  /\ NextRow(f) \in Formatters(R) /\ NextRow(f).given # << >>
         /\ f.offset < NextRow(f).offset
         /\ NextRow(f).given[Len(NextRow(f).given)].start = f.offset
<1>1. NextRow(f) \in Formatters(R) /\ NextOf(f, NextRow(f))
  BY NextRowGiven
<1>2. Len(NextRow(f).given) = Len(f.given) + 1 /\ Len(f.given) \in Nat
  BY <1>1, FormatterFacts DEF NextOf
<1>3. NextRow(f).given # << >>
  BY <1>1, <1>2, FormatterFacts
<1>4. QED
  BY <1>1, <1>3 DEF NextOf

LEMMA RowsReached ==
  ASSUME BufferOK, NEW rs, GoodRows(rs), Marked(rs), NEW p \in 0..length
  PROVE  Reached(rs, p, RowsUpTo(rs, p))
<1> DEFINE l == LineStart(text, p)
           f == Formatter(rs, l, l)
           S == {g \in Formatters(rs) : g.given # << >> /\ g.given[Len(g.given)].start <= p}
           n == MaxRows
<1>1. f \in Formatters(rs) /\ f.offset = l /\ l \in 0..p
  BY FormatterStarts
<1>2. RowsUpTo(rs, p) = Reach(f, p) /\ length \in Nat /\ n = length + 1
  BY BufferFacts DEF RowsUpTo, MaxRows
<1> HIDE DEF f, l, n
<1>3. NextRow(f) \in S /\ NextRow(f).offset > 0
  <2>1. f.offset <= length /\ f.offset \in Nat
    BY <1>1, <1>2
  <2>2. /\ NextRow(f) \in Formatters(rs) /\ NextRow(f).given # << >>
        /\ f.offset < NextRow(f).offset
        /\ NextRow(f).given[Len(NextRow(f).given)].start = f.offset
    BY <1>1, <2>1, NextGiven
  <2>3. NextRow(f).offset \in Nat
    BY <2>2, FormatterFacts
  <2>4. QED
    BY <1>1, <2>1, <2>2, <2>3
<1>4. ASSUME NEW g \in S
      PROVE  /\ ReachTurn(p, g) \in S
             /\ p >= g.offset => ReachTurn(p, g).offset > g.offset
             /\ p < g.offset => ReachTurn(p, g) = g
  <2>1. g \in Formatters(rs) /\ g.offset \in Nat
    BY FormatterFacts
  <2>2. CASE p >= g.offset
    <3>1. g.offset <= length
      BY <1>2, <2>1, <2>2
    <3>2. /\ NextRow(g) \in Formatters(rs) /\ NextRow(g).given # << >>
          /\ g.offset < NextRow(g).offset
          /\ NextRow(g).given[Len(NextRow(g).given)].start = g.offset
      BY <2>1, <3>1, NextGiven
    <3>3. NextRow(g).offset \in Nat
      BY <3>2, FormatterFacts
    <3>4. ReachTurn(p, g) = NextRow(g)
      BY <2>2 DEF ReachTurn
    <3>5. QED
      BY <2>1, <2>2, <3>2, <3>3, <3>4
  <2>3. CASE p < g.offset
    <3>1. ~(p >= g.offset)
      BY <2>1, <2>3
    <3>2. ReachTurn(p, g) = g
      BY <3>1 DEF ReachTurn
    <3>3. QED
      BY <3>1, <3>2
  <2>4. QED
    BY <2>1, <2>2, <2>3
<1>5. PICK round : /\ Looped(S, [g \in S |-> ReachTurn(p, g)], NextRow(f), n, round)
                   /\ Reach(f, p) = round[n]
  <2> HIDE DEF S
  <2>1. QED
    BY <1>3, <1>4, ReachRounds DEF n
<1>6. /\ round[0] = NextRow(f) /\ \A i \in 0..n : round[i] \in S
      /\ \A i \in 0..(n - 1) : round[i + 1] = ReachTurn(p, round[i])
  <2> HIDE DEF S
  <2>1. n \in Nat
    BY <1>2
  <2>2. \A i \in 0..(n - 1) : i \in 0..n
    BY <2>1
  <2>3. QED
    BY <1>5, <2>2 DEF Looped
<1>7. \A i \in 0..n : round[i].offset \in Nat
  BY <1>6, FormatterFacts
<1> DEFINE T == {i \in 0..n : p < round[i].offset \/ round[i].offset > i}
<1>8. 0 \in T
  BY <1>2, <1>3, <1>6
<1>9. ASSUME NEW i \in 0..(n - 1), i \in T PROVE i + 1 \in T
  <2>1. i \in 0..n /\ i + 1 \in 0..n /\ i \in Nat
    BY <1>2
  <2>2. round[i] \in S /\ round[i + 1] = ReachTurn(p, round[i])
    BY <1>6, <2>1
  <2>3. round[i].offset \in Nat /\ round[i + 1].offset \in Nat
    BY <1>7, <2>1
  <2>4. p < round[i].offset \/ round[i].offset > i
    BY <1>9
  <2> HIDE DEF S
  <2>5. p < round[i + 1].offset \/ round[i + 1].offset > i + 1
    BY <1>4, <2>1, <2>2, <2>3, <2>4
  <2>6. QED
    BY <2>1, <2>5
<1>10. n \in T
  <2> HIDE DEF T, S
  <2>1. n \in Nat
    BY <1>2
  <2>2. QED
    BY <1>8, <1>9, <2>1, EveryRound
<1>11. round[n] \in S /\ round[n].offset \in Nat /\ round[n].offset <= length + 1
  <2>1. n \in 0..n
    BY <1>2
  <2>2. QED
    BY <1>6, <2>1, FormatterFacts
<1>12. p < round[n].offset
  <2>1. p < round[n].offset \/ round[n].offset > n
    BY <1>10
  <2>2. QED
    BY <1>2, <1>11, <2>1
<1>13. QED
  BY <1>2, <1>5, <1>11, <1>12 DEF Reached

(* The first loop of Format ends with a view that is full.                 *)
Filled(R) == {f \in Formatters(R) : f.given # << >> /\ FullView(f.given)}

LEMMA LastGiven ==
  ASSUME BufferOK, NEW R, NEW f \in Formatters(R), f.given # << >>
  PROVE  f.given[Len(f.given)].box = "EndOfDocument" <=> f.offset = length + 1
<1> DEFINE r == f.given[Len(f.given)]
<1>1. /\ Stretch(f.rows, f.given) /\ GoodRows(f.rows) /\ Len(f.given) \in 1..Len(f.given)
      /\ r.end = f.offset
  BY FormatterFacts
<1>2. r \in f.rows
  BY <1>1 DEF Stretch
<1> HIDE DEF r
<1>3. r.box = "EndOfDocument" <=> r.end = length + 1
  BY <1>1, <1>2, LineBehind
<1>4. QED
  BY <1>1, <1>3 DEF r

LEMMA FillFills ==
  ASSUME BufferOK, NEW R, NEW f \in Formatters(R), f.offset <= length, f.given = << >>
  PROVE  Fill(f) \in Filled(R) /\ Fill(f).given[1].start = f.offset
<1> DEFINE S == {g \in Formatters(R) :
                   /\ g.given # << >> /\ g.given[1].start = f.offset
                   /\ 2 * Len(g.given) < Height + 2}
           n == MaxRows
           Done(g) == ~(2 * Len(g.given) < Height /\ g.offset <= length)
<1>1. length \in Nat /\ n = length + 1 /\ Len(text) = length /\ f.offset \in Nat
  BY BufferFacts, FormatterFacts DEF MaxRows
<1> HIDE DEF n
<1>2. NextRow(f) \in S /\ NextRow(f).offset > 0
  <2>1. /\ NextRow(f) \in Formatters(R) /\ NextRow(f).given # << >>
        /\ f.offset < NextRow(f).offset
    BY NextGiven
  <2>2. NextRow(f).offset \in Nat
    BY <2>1, FormatterFacts
  <2>3. Len(NextRow(f).given) = 1 /\ NextRow(f).given[1].start = f.offset
    <3>1. Len(f.given) = 0
      BY EmptySeq
    <3>2. /\ Len(NextRow(f).given) = Len(f.given) + 1
          /\ NextRow(f).given[Len(NextRow(f).given)].start = f.offset
      BY NextRowGiven DEF NextOf
    <3>3. Len(NextRow(f).given) = 1
      BY <3>1, <3>2
    <3>4. QED
      BY <3>2, <3>3
  <2>4. 2 * Len(NextRow(f).given) < Height + 2
    BY <2>3, HeightAssumption
  <2>5. NextRow(f) \in S
    BY <2>1, <2>3, <2>4
  <2>6. QED
    BY <1>1, <2>1, <2>2, <2>5
<1>3. ASSUME NEW g \in S
      PROVE  /\ FillTurn(g) \in S
             /\ ~Done(g) => FillTurn(g).offset > g.offset
             /\ Done(g) => FillTurn(g) = g
  <2>1. CASE ~Done(g)
    <3>1. NextRow(g) \in S /\ NextRow(g).offset > g.offset
      <4>1. /\ NextRow(g) \in Formatters(R) /\ NextRow(g).given # << >>
            /\ g.offset < NextRow(g).offset
        BY <2>1, NextGiven
      <4>2. NextRow(g).offset \in Nat /\ g.offset \in Nat
        BY <4>1, FormatterFacts
      <4>3. /\ Len(NextRow(g).given) = Len(g.given) + 1
            /\ \A i \in 1..Len(g.given) : NextRow(g).given[i] = g.given[i]
        BY <2>1, NextRowGiven DEF NextOf
      <4>4. Len(g.given) \in Nat /\ Len(g.given) # 0 /\ 1 \in 1..Len(g.given)
        BY FormatterFacts
      <4>5. 2 * Len(NextRow(g).given) < Height + 2
        BY <2>1, <4>3, <4>4, HeightAssumption
      <4>6. NextRow(g).given[1].start = f.offset
        BY <4>3, <4>4
      <4>7. QED
        BY <4>1, <4>2, <4>5, <4>6
    <3>2. FillTurn(g) = NextRow(g)
      BY <1>1, <2>1 DEF FillTurn
    <3>3. QED
      BY <2>1, <3>1, <3>2
  <2>2. CASE Done(g)
    <3>1. FillTurn(g) = g
      BY <1>1, <2>2 DEF FillTurn
    <3>2. QED
      BY <2>2, <3>1
  <2>3. QED
    BY <2>1, <2>2
<1>4. PICK round : /\ Looped(S, [g \in S |-> FillTurn(g)], NextRow(f), n, round)
                   /\ Fill(f) = round[n]
  <2> HIDE DEF S
  <2>1. QED
    BY <1>2, <1>3, FillRounds DEF n
<1>5. /\ round[0] = NextRow(f) /\ \A i \in 0..n : round[i] \in S
      /\ \A i \in 0..(n - 1) : round[i + 1] = FillTurn(round[i])
  <2> HIDE DEF S
  <2>1. \A i \in 0..(n - 1) : i \in 0..n
    BY <1>1
  <2>2. QED
    BY <1>4, <2>1 DEF Looped
<1>6. \A i \in 0..n : round[i].offset \in Nat
  BY <1>5, FormatterFacts
<1> DEFINE T == {i \in 0..n : Done(round[i]) \/ round[i].offset > i}
<1>7. 0 \in T
  BY <1>1, <1>2, <1>5
<1>8. ASSUME NEW i \in 0..(n - 1), i \in T PROVE i + 1 \in T
  <2>1. i \in 0..n /\ i + 1 \in 0..n /\ i \in Nat
    BY <1>1
  <2>2. round[i] \in S /\ round[i + 1] = FillTurn(round[i])
    BY <1>5, <2>1
  <2>3. round[i].offset \in Nat /\ round[i + 1].offset \in Nat
    BY <1>6, <2>1
  <2>4. Done(round[i]) \/ round[i].offset > i
    BY <1>8
  <2> HIDE DEF S, Done
  <2>5. Done(round[i + 1]) \/ round[i + 1].offset > i + 1
    BY <1>3, <2>1, <2>2, <2>3, <2>4
  <2>6. QED
    BY <2>1, <2>5
<1>9. n \in T
  <2> HIDE DEF T, S
  <2>1. n \in Nat
    BY <1>1
  <2>2. \A i \in 0..(n - 1) : i \in T => i + 1 \in T
    BY <1>8
  <2>3. \A i \in 0..n : i \in T
    BY <1>7, <2>1, <2>2, EveryRound
  <2>4. n \in 0..n
    BY <2>1
  <2>5. QED
    BY <2>3, <2>4
<1>10. n \in 0..n
  BY <1>1
<1> DEFINE g == round[n]
<1>11. g \in S /\ g.offset \in Nat /\ g.offset <= length + 1 /\ Len(g.given) \in Nat
  BY <1>5, <1>10, FormatterFacts
<1>12. Done(g) \/ g.offset > n
  BY <1>9
<1>15. g.given[1].start = f.offset /\ 2 * Len(g.given) <= Height + 1
  BY <1>11, HeightAssumption
<1> HIDE DEF g
<1>13. FullView(g.given)
  <2>1. CASE 2 * Len(g.given) >= Height
    BY <1>15, <2>1 DEF FullView
  <2>2. CASE ~(2 * Len(g.given) >= Height)
    <3>1. g.offset = length + 1
      BY <1>1, <1>11, <1>12, <2>2, HeightAssumption
    <3>2. QED
      BY <1>11, <1>15, <3>1, LastGiven DEF FullView
  <2>3. QED
    BY <2>1, <2>2
<1>14. QED
  BY <1>4, <1>11, <1>13, <1>15 DEF Filled, g

LEMMA RestOf ==
  ASSUME NEW rs, NEW v, Stretch(rs, v), NEW a \in 1..(Len(v) + 1)
  PROVE  /\ Stretch(rs, SubSeq(v, a, Len(v)))
         /\ Len(SubSeq(v, a, Len(v))) = Len(v) + 1 - a
         /\ a <= Len(v) => /\ SubSeq(v, a, Len(v)) # << >>
                           /\ SubSeq(v, a, Len(v))[1] = v[a]
                           /\ SubSeq(v, a, Len(v))[Len(v) + 1 - a] = v[Len(v)]
<1> DEFINE w == SubSeq(v, a, Len(v))
           n == Len(v) + 1 - a
<1>1. /\ v \in Seq(Row) /\ Len(v) \in Nat
      /\ \A i \in 1..Len(v) : v[i] \in rs /\ v[i] \in Row
      /\ \A i \in 2..Len(v) : v[i].start = v[i - 1].end
  BY LenProperties, ElementOfSeq DEF Stretch
<1>2. \A i \in a..Len(v) : v[i] \in Row
  BY <1>1
<1>3. /\ w \in Seq(Row)
      /\ Len(w) = IF a <= Len(v) THEN Len(v) - a + 1 ELSE 0
      /\ \A i \in 1..(Len(v) - a + 1) : w[i] = v[a + i - 1]
  <2>1. a \in Int /\ Len(v) \in Int
    BY <1>1
  <2>2. QED
    BY <1>2, <2>1, SubSeqProperties
<1>4. Len(v) - a + 1 = n /\ n \in Nat /\ Len(w) = n
  BY <1>1, <1>3
<1>5. \A i \in 1..n : w[i] = v[a + i - 1]
  BY <1>3, <1>4
<1> HIDE DEF w
<1>6. ASSUME NEW i \in 1..n PROVE w[i] \in rs /\ (i > 1 => w[i].start = w[i - 1].end)
  <2>1. a + i - 1 \in 1..Len(v)
    BY <1>1
  <2>2. CASE i > 1
    <3>1. i - 1 \in 1..n /\ a + i - 1 \in 2..Len(v) /\ a + (i - 1) - 1 = (a + i - 1) - 1
      BY <1>1, <2>2
    <3>2. w[i] = v[a + i - 1] /\ w[i - 1] = v[(a + i - 1) - 1]
      BY <1>5, <3>1
    <3>3. QED
      BY <1>1, <2>1, <3>1, <3>2
  <2>3. QED
    BY <1>1, <1>5, <2>1, <2>2
<1>7. Stretch(rs, w)
  BY <1>1, <1>3, <1>4, <1>6 DEF Stretch
<1>8. ASSUME a <= Len(v) PROVE w # << >> /\ w[1] = v[a] /\ w[n] = v[Len(v)]
  <2>1. 1 \in 1..n /\ n \in 1..n /\ a + 1 - 1 = a /\ a + n - 1 = Len(v) /\ n # 0
    BY <1>1, <1>8
  <2>2. w # << >>
    BY <1>3, <1>4, <2>1, EmptySeq
  <2>3. QED
    BY <1>5, <2>1, <2>2
<1>9. QED
  BY <1>4, <1>7, <1>8 DEF w

LEMMA RestRows ==
  ASSUME NEW rs, NEW v, Stretch(rs, v), NEW a \in 1..(Len(v) + 1)
  PROVE  \A i \in 1..(Len(v) + 1 - a) : SubSeq(v, a, Len(v))[i] = v[a + i - 1]
<1>1. v \in Seq(Row) /\ Len(v) \in Nat /\ \A i \in 1..Len(v) : v[i] \in Row
  BY LenProperties, ElementOfSeq DEF Stretch
<1>2. a \in Int /\ Len(v) \in Int /\ \A i \in a..Len(v) : v[i] \in Row
  BY <1>1
<1> DEFINE w == SubSeq(v, a, Len(v))
<1>3. \A i \in 1..(Len(v) - a + 1) : w[i] = v[a + i - 1]
  BY <1>2, SubSeqProperties
<1> HIDE DEF w
<1>4. Len(v) - a + 1 = Len(v) + 1 - a
  BY <1>1
<1>5. \A i \in 1..(Len(v) + 1 - a) : w[i] = v[a + i - 1]
  BY <1>3, <1>4
<1>6. QED
  BY <1>5 DEF w

LEMMA TailIsRest ==
  ASSUME NEW rs, NEW v, Stretch(rs, v), v # << >>
  PROVE  /\ Stretch(rs, Tail(v)) /\ Len(Tail(v)) = Len(v) - 1
         /\ Tail(v) # << >> => Tail(v)[Len(Tail(v))] = v[Len(v)]
<1>1. v \in Seq(Row) /\ Len(v) \in Nat /\ Len(v) # 0
  BY EmptySeq, LenProperties DEF Stretch
<1> DEFINE a == 2
           w == SubSeq(v, a, Len(v))
<1>2. Tail(v) = w
  BY <1>1, TailIsSubSeq
<1>3. a \in 1..(Len(v) + 1) /\ a = 2
  BY <1>1
<1> HIDE DEF a
<1>4. /\ Stretch(rs, w) /\ Len(w) = Len(v) + 1 - a
      /\ a <= Len(v) => w[Len(v) + 1 - a] = v[Len(v)]
  BY <1>3, RestOf
<1> HIDE DEF w
<1>5. Len(v) + 1 - a = Len(v) - 1
  BY <1>1, <1>3
<1>6. w # << >> => Len(w) # 0 /\ Len(w) \in Nat
  BY <1>4, EmptySeq DEF Stretch
<1>7. Len(w) = Len(v) - 1
  BY <1>4, <1>5
<1>8. w # << >> => w[Len(w)] = v[Len(v)]
  <2>1. w # << >> => a <= Len(v)
    BY <1>1, <1>3, <1>6, <1>7
  <2>2. QED
    BY <1>4, <1>5, <1>7, <2>1
<1>9. QED
  BY <1>2, <1>4, <1>7, <1>8

(* One row further, the view stays full, and begins in front of p.         *)
LEMMA ScrollTurnFull ==
  ASSUME BufferOK, NEW R, NEW p, NEW f \in Filled(R)
  PROVE  /\ ScrollTurn(p, f) \in Filled(R)
         /\ p \in Nat /\ f.given[1].start <= p => ScrollTurn(p, f).given[1].start <= p
<1>1. /\ f \in Formatters(R) /\ f.given # << >> /\ FullView(f.given)
      /\ f.offset \in Nat /\ f.line \in Nat /\ f.rows \in SUBSET Row
      /\ Stretch(f.rows, f.given) /\ GoodRows(f.rows) /\ Marked(f.rows)
      /\ f.given \in Seq(Row) /\ Len(f.given) \in Nat /\ Len(f.given) # 0
  BY FormatterFacts DEF Filled
<1>2. CASE f.offset < Len(text) /\ p > Head(f.given).end
  <2> DEFINE e == [f EXCEPT !.given = Tail(f.given)]
             g == NextRow(e)
  <2>1. Stretch(f.rows, Tail(f.given)) /\ Len(Tail(f.given)) = Len(f.given) - 1
        /\ (Tail(f.given) # << >> =>
              Tail(f.given)[Len(Tail(f.given))] = f.given[Len(f.given)])
    BY <1>1, TailIsRest
  <2>2. Tail(f.given) \in Seq(Row)
    BY <2>1 DEF Stretch
  <2>3. f \in [rows : SUBSET Row, line : Nat, offset : Nat, given : Seq(Row)]
    BY <1>1 DEF Formatters
  <2>4. /\ e \in [rows : SUBSET Row, line : Nat, offset : Nat, given : Seq(Row)]
        /\ e.rows = f.rows /\ e.line = f.line /\ e.offset = f.offset /\ e.given = Tail(f.given)
    BY <2>2, <2>3
  <2> HIDE DEF e
  <2>5. e \in Formatters(R)
    BY <1>1, <2>1, <2>4 DEF Formatters
  <2>6. Len(text) = length /\ e.offset <= length /\ length \in Nat
    BY <1>1, <1>2, <2>4, BufferFacts
  <2>7. g \in Formatters(R) /\ NextOf(e, g)
    BY <2>5, <2>6, NextRowGiven
  <2> HIDE DEF g
  <2>8. Len(g.given) = Len(f.given)
    BY <1>1, <2>1, <2>4, <2>7 DEF NextOf
  <2>9. g.given # << >>
    BY <1>1, <2>7, <2>8, FormatterFacts
  <2>10. 2 * Len(f.given) >= Height
    <3>1. f.given[Len(f.given)].box # "EndOfDocument"
      BY <1>1, <1>2, <2>6, LastGiven
    <3>2. QED
      BY <1>1, <3>1 DEF FullView
  <2>11. g \in Filled(R)
    BY <2>7, <2>8, <2>9, <2>10 DEF Filled, FullView
  <2>12. ASSUME p \in Nat PROVE g.given[1].start <= p
    <3>1. Len(f.given) >= 2 /\ 1 \in 1..Len(Tail(f.given))
          /\ 2 \in 2..Len(f.given) /\ 2 - 1 = 1
      BY <1>1, <2>1, <2>10, HeightAssumption
    <3>2. g.given[1] = Tail(f.given)[1]
      BY <2>4, <2>7, <3>1 DEF NextOf
    <3>3. Tail(f.given)[1] = f.given[2]
      BY <1>1, <3>1
    <3>4. f.given[2].start = f.given[1].end
      BY <1>1, <3>1 DEF Stretch
    <3>5. f.given[1].end < p
      BY <1>1, <1>2
    <3>6. f.given[1] \in Row
      BY <1>1, <3>1, ElementOfSeq
    <3>7. f.given[1].end \in Nat
      BY <3>6, RowFields
    <3>8. f.given[1].end <= p
      BY <2>12, <3>5, <3>7
    <3>9. g.given[1].start = f.given[1].end
      BY <3>2, <3>3, <3>4
    <3>10. QED
      BY <3>8, <3>9
  <2>13. QED
    BY <1>2, <2>11, <2>12 DEF ScrollTurn, g, e
<1>3. CASE ~(f.offset < Len(text) /\ p > Head(f.given).end)
  BY <1>3 DEF ScrollTurn
<1>4. QED
  BY <1>2, <1>3

LEMMA FormatFills ==
  ASSUME BufferOK, NEW rs, GoodRows(rs), Marked(rs), NEW p \in 0..length
  PROVE  Format(rs, p) \in Filled(rs) /\ Format(rs, p).given[1].start <= p
<1> DEFINE l == LineStart(text, p)
           f == Formatter(rs, l, l)
           g == Fill(f)
           n == MaxRows
           S == {h \in Filled(rs) : h.given[1].start <= p}
<1>1. f \in Formatters(rs) /\ f.offset = l /\ l \in 0..p /\ f.given = << >>
  BY FormatterStarts
<1>2. Format(rs, p) = ScrollTo(g, p)
  BY DEF Format
<1> HIDE DEF f, l
<1>3. g \in S
  <2>1. f.offset <= length
    BY <1>1, BufferFacts
  <2>2. g \in Filled(rs) /\ g.given[1].start = f.offset
    BY <1>1, <2>1, FillFills
  <2>3. QED
    BY <1>1, <2>2
<1> HIDE DEF g
<1>4. \A h \in S : ScrollTurn(p, h) \in S
  <2>1. p \in Nat
    BY BufferFacts
  <2>2. QED
    BY <2>1, ScrollTurnFull
<1> HIDE DEF S
<1>5. PICK round : /\ Looped(S, [h \in S |-> ScrollTurn(p, h)], g, n, round)
                   /\ ScrollTo(g, p) = round[n]
  BY <1>3, <1>4, ScrollRounds
<1>6. n \in 0..n
  BY BufferFacts DEF MaxRows
<1>7. Format(rs, p) \in S
  BY <1>2, <1>5, <1>6 DEF Looped
<1>8. QED
  BY <1>7 DEF S

-----------------------------------------------------------------------------
(* What the view shows                                                     *)
Layouts ==
  {l \in [rows : SUBSET Row, view : Seq(Row), start : 0..length, did : BOOLEAN] :
     GoodRows(l.rows) /\ Marked(l.rows) /\ GoodView(l.rows, l.view, l.start)}

Views == {l \in Layouts : l.view # << >>}

LEMMA ShownLayout ==
  ASSUME NEW rs, GoodRows(rs), Marked(rs), NEW v, NEW start \in 0..length, NEW did \in BOOLEAN,
         GoodView(rs, v, start)
  PROVE  /\ Shown(rs, v, start, did) \in Layouts
         /\ v # << >> => Shown(rs, v, start, did) \in Views
<1> DEFINE l == [rows |-> rs, view |-> v, start |-> start, did |-> did]
<1>1. rs \in SUBSET Row /\ v \in Seq(Row)
  BY DEF GoodRows, GoodView, Stretch
<1>2. /\ l \in [rows : SUBSET Row, view : Seq(Row), start : 0..length, did : BOOLEAN]
      /\ l.rows = rs /\ l.view = v /\ l.start = start
  BY <1>1
<1> HIDE DEF l
<1>3. l \in Layouts /\ (v # << >> => l \in Views)
  BY <1>2 DEF Layouts, Views
<1>4. QED
  BY <1>3 DEF Shown, l

LEMMA LayoutFacts ==
  ASSUME BufferOK, NEW l \in Layouts
  PROVE  /\ GoodRows(l.rows) /\ Marked(l.rows)
         /\ GoodView(l.rows, l.view, l.start) /\ Stretch(l.rows, l.view)
         /\ l.view \in Seq(Row) /\ Len(l.view) \in Nat /\ (l.view # << >> <=> Len(l.view) # 0)
         /\ l.start \in 0..length /\ l.start \in Nat
         /\ l.view # << >> => /\ l.view[1].start = l.start /\ FullView(l.view)
                              /\ l.view[1] \in l.rows /\ l.view[Len(l.view)] \in l.rows
<1>1. /\ GoodRows(l.rows) /\ Marked(l.rows) /\ GoodView(l.rows, l.view, l.start) /\ Stretch(l.rows, l.view)
      /\ l.start \in 0..length /\ l.start \in Nat /\ l.view \in Seq(Row)
  BY BufferFacts DEF Layouts, GoodView, Stretch
<1>2. Len(l.view) \in Nat /\ (l.view # << >> <=> Len(l.view) # 0)
  BY <1>1, EmptySeq, LenProperties
<1>3. ASSUME l.view # << >>
      PROVE  /\ l.view[1].start = l.start /\ FullView(l.view)
             /\ l.view[1] \in l.rows /\ l.view[Len(l.view)] \in l.rows
  <2>1. 1 \in 1..Len(l.view) /\ Len(l.view) \in 1..Len(l.view)
    BY <1>2, <1>3
  <2>2. QED
    BY <1>1, <1>3, <2>1 DEF GoodView, Stretch
<1>4. QED
  BY <1>1, <1>2, <1>3

LEMMA DidLayout ==
  ASSUME NEW l, NEW did \in BOOLEAN
  PROVE  /\ l \in Layouts => [l EXCEPT !.did = did] \in Layouts
         /\ l \in Views => [l EXCEPT !.did = did] \in Views
<1> SUFFICES ASSUME l \in Layouts
             PROVE  [l EXCEPT !.did = did] \in Layouts
                    /\ [l EXCEPT !.did = did].view = l.view
  BY DEF Views
<1> DEFINE k == [l EXCEPT !.did = did]
<1>1. l \in [rows : SUBSET Row, view : Seq(Row), start : 0..length, did : BOOLEAN]
      /\ GoodRows(l.rows) /\ Marked(l.rows) /\ GoodView(l.rows, l.view, l.start)
  BY DEF Layouts
<1>2. /\ k \in [rows : SUBSET Row, view : Seq(Row), start : 0..length, did : BOOLEAN]
      /\ k.rows = l.rows /\ k.view = l.view /\ k.start = l.start
  BY <1>1
<1> HIDE DEF k
<1>3. k \in Layouts /\ k.view = l.view
  BY <1>1, <1>2 DEF Layouts
<1>4. QED
  BY <1>3 DEF k

(* Format shows a full view.                                               *)
LEMMA FormatShows ==
  ASSUME BufferOK, NEW rs, GoodRows(rs), Marked(rs), NEW p \in 0..length
  PROVE  ShownFrom(Format(rs, p)) \in Views /\ ShownFrom(Format(rs, p)).start <= p
<1> DEFINE f == Format(rs, p)
<1>1. f \in Filled(rs) /\ f.given[1].start <= p
  BY FormatFills
<1> HIDE DEF f
<1>2. /\ GoodRows(f.rows) /\ Marked(f.rows) /\ Stretch(f.rows, f.given) /\ f.given # << >> /\ FullView(f.given)
      /\ Len(f.given) \in Nat /\ Len(f.given) # 0 /\ f.given \in Seq(Row)
  BY <1>1, FormatterFacts DEF Filled
<1>3. f.given[1] \in f.rows /\ Head(f.given) = f.given[1]
  <2>1. 1 \in 1..Len(f.given)
    BY <1>2
  <2>2. QED
    BY <1>2, <2>1 DEF Stretch
<1>4. f.given[1].start \in 0..length
  BY <1>2, <1>3, GoodRow, BufferFacts
<1>5. GoodView(f.rows, f.given, f.given[1].start)
  BY <1>2 DEF GoodView
<1>6. ShownFrom(f) \in Views
  BY <1>2, <1>3, <1>4, <1>5, ShownLayout DEF ShownFrom
<1>7. ShownFrom(f).start <= p
  BY <1>1, <1>3 DEF ShownFrom, Shown
<1>8. QED
  BY <1>6, <1>7 DEF f

LEMMA FormattedShows ==
  ASSUME BufferOK, NEW l \in Layouts
  PROVE  Formatted(l) \in Views
<1> DEFINE dirty == \/ l.view = << >>
                    \/ \E i \in DOMAIN l.view : FindLine(l.rows, l.view[i].start) # {l.view[i]}
<1>1. GoodRows(l.rows) /\ Marked(l.rows) /\ l.start \in 0..length
  BY LayoutFacts
<1>2. CASE dirty
  BY <1>1, <1>2, FormatShows DEF Formatted
<1>3. CASE ~dirty
  <2>1. [l EXCEPT !.did = FALSE] \in Views
    BY <1>3, DidLayout DEF Views
  <2>2. Formatted(l) = [l EXCEPT !.did = FALSE]
    BY <1>3 DEF Formatted
  <2>3. QED
    BY <2>1, <2>2
<1>4. QED
  BY <1>2, <1>3

LEMMA Joined ==
  ASSUME NEW rs, NEW v, Stretch(rs, v), NEW w, Stretch(rs, w), v # << >>, w # << >>,
         w[1].start = v[Len(v)].end
  PROVE  /\ Stretch(rs, v \o w) /\ Len(v \o w) = Len(v) + Len(w) /\ v \o w # << >>
         /\ \A i \in 1..(Len(v) + Len(w)) :
              (v \o w)[i] = IF i <= Len(v) THEN v[i] ELSE w[i - Len(v)]
<1> DEFINE vw == v \o w
<1>1. /\ v \in Seq(Row) /\ Len(v) \in Nat /\ Len(v) # 0
      /\ w \in Seq(Row) /\ Len(w) \in Nat /\ Len(w) # 0
      /\ \A i \in 1..Len(v) : v[i] \in rs
      /\ \A i \in 1..Len(w) : w[i] \in rs
      /\ \A i \in 2..Len(v) : v[i].start = v[i - 1].end
      /\ \A i \in 2..Len(w) : w[i].start = w[i - 1].end
  BY EmptySeq, LenProperties DEF Stretch
<1>2. /\ vw \in Seq(Row) /\ Len(vw) = Len(v) + Len(w)
      /\ \A i \in 1..(Len(v) + Len(w)) : vw[i] = IF i <= Len(v) THEN v[i] ELSE w[i - Len(v)]
  BY <1>1, ConcatProperties
<1> HIDE DEF vw
<1>3. ASSUME NEW i \in 1..Len(vw) PROVE vw[i] \in rs
  <2>1. i \in 1..(Len(v) + Len(w)) /\ (i <= Len(v) => i \in 1..Len(v))
        /\ (~(i <= Len(v)) => i - Len(v) \in 1..Len(w))
    BY <1>1, <1>2
  <2>2. QED
    BY <1>1, <1>2, <2>1
<1>4. ASSUME NEW i \in 2..Len(vw) PROVE vw[i].start = vw[i - 1].end
  <2>1. i \in 1..(Len(v) + Len(w)) /\ i - 1 \in 1..(Len(v) + Len(w))
    BY <1>1, <1>2
  <2>2. CASE i <= Len(v)
    <3>1. i \in 2..Len(v) /\ i - 1 <= Len(v)
      BY <1>1, <2>2
    <3>2. QED
      BY <1>1, <1>2, <2>1, <2>2, <3>1
  <2>3. CASE i = Len(v) + 1
    <3>1. i - 1 = Len(v) /\ i - Len(v) = 1 /\ ~(i <= Len(v)) /\ i - 1 <= Len(v)
      BY <1>1, <2>3
    <3>2. QED
      BY <1>2, <2>1, <3>1
  <2>4. CASE i > Len(v) + 1
    <3>1. /\ i - Len(v) \in 2..Len(w) /\ (i - 1) - Len(v) = (i - Len(v)) - 1
          /\ ~(i <= Len(v)) /\ ~(i - 1 <= Len(v))
      BY <1>1, <1>2, <2>4
    <3>2. vw[i] = w[i - Len(v)] /\ vw[i - 1] = w[(i - Len(v)) - 1]
      BY <1>2, <2>1, <3>1
    <3>3. QED
      BY <1>1, <3>1, <3>2
  <2>5. QED
    BY <1>1, <2>2, <2>3, <2>4
<1>5. vw # << >>
  BY <1>1, <1>2, EmptySeq
<1>6. QED
  BY <1>2, <1>3, <1>4, <1>5 DEF Stretch, vw

LEMMA FirstOf ==
  ASSUME NEW rs, NEW v, Stretch(rs, v), NEW k \in 1..Len(v)
  PROVE  /\ Stretch(rs, SubSeq(v, 1, k)) /\ Len(SubSeq(v, 1, k)) = k
         /\ SubSeq(v, 1, k) # << >>
         /\ \A i \in 1..k : SubSeq(v, 1, k)[i] = v[i]
<1> DEFINE w == SubSeq(v, 1, k)
<1>1. /\ v \in Seq(Row) /\ Len(v) \in Nat
      /\ \A i \in 1..Len(v) : v[i] \in rs /\ v[i] \in Row
      /\ \A i \in 2..Len(v) : v[i].start = v[i - 1].end
  BY LenProperties, ElementOfSeq DEF Stretch
<1>2. \A i \in 1..k : i \in 1..Len(v) /\ v[i] \in Row
  BY <1>1
<1>3. /\ w \in Seq(Row) /\ Len(w) = IF 1 <= k THEN k - 1 + 1 ELSE 0
      /\ \A i \in 1..(k - 1 + 1) : w[i] = v[1 + i - 1]
  BY <1>2, SubSeqProperties
<1>4. Len(w) = k /\ \A i \in 1..k : w[i] = v[i]
  <2>1. k - 1 + 1 = k /\ 1 <= k /\ \A i \in 1..k : 1 + i - 1 = i
    OBVIOUS
  <2> HIDE DEF w
  <2>2. QED
    BY <1>3, <2>1
<1> HIDE DEF w
<1>5. \A i \in 2..k : w[i].start = w[i - 1].end
  <2>1. \A i \in 2..k : i \in 1..k /\ i - 1 \in 1..k /\ i \in 2..Len(v)
    BY <1>1
  <2>2. QED
    BY <1>1, <1>4, <2>1
<1>6. Stretch(rs, w)
  BY <1>1, <1>2, <1>3, <1>4, <1>5 DEF Stretch
<1>7. w # << >>
  BY <1>4, EmptySeq
<1>8. QED
  BY <1>4, <1>6, <1>7 DEF w

LEMMA OneRow ==
  ASSUME NEW rs, rs \subseteq Row, NEW r \in rs
  PROVE  Stretch(rs, <<r>>) /\ Len(<<r>>) = 1 /\ <<r>>[1] = r /\ <<r>> # << >>
BY DEF Stretch

LEMMA MoreRows ==
  ASSUME NEW rs, NEW rs2, rs \subseteq rs2, NEW v, Stretch(rs, v)
  PROVE  Stretch(rs2, v)
BY DEF Stretch

(* k is l scrolled by a row that comes above it.                           *)
OneDown(l, k) ==
  /\ l.rows \subseteq k.rows /\ k.did
  /\ k.view[1].end = l.start /\ k.start < l.start
  /\ Len(k.view) = Len(l.view) + 1 \/ 2 * Len(k.view) >= Height
  /\ Len(k.view) <= Len(l.view) + 1
  /\ \A i \in 2..Len(k.view) : k.view[i] = l.view[i - 1]

(* ScrollDown: the row RowsUpTo ends with is the one above the view.       *)
LEMMA DownShows ==
  ASSUME BufferOK, NEW l \in Views
  PROVE  /\ DownOne(l) \in Views
         /\ l.start # 0 => OneDown(l, DownOne(l))
         /\ l.start = 0 => DownOne(l) = l
<1>1. /\ l \in Layouts /\ l.view # << >> /\ GoodRows(l.rows) /\ Marked(l.rows)
      /\ Stretch(l.rows, l.view)
      /\ l.start \in Nat /\ l.start <= length /\ Len(l.view) \in Nat /\ Len(l.view) # 0
      /\ l.view[1].start = l.start /\ FullView(l.view) /\ l.view[1] \in l.rows
      /\ length \in Nat
  BY LayoutFacts, BufferFacts DEF Views
<1>2. CASE l.start = 0
  BY <1>2 DEF DownOne
<1>3. CASE l.start # 0
  <2> DEFINE p == l.start - 1
             g == RowsUpTo(l.rows, p)
             r == g.given[Len(g.given)]
             h == l.view[1]
             v == <<r>> \o l.view
             k == Min({Len(v), (Height + 1) \div 2})
             w == SubSeq(v, 1, k)
  <2>1. p \in 0..length /\ p \in Nat /\ l.start = p + 1
    BY <1>1, <1>3
  <2> HIDE DEF p
  <2>2. Reached(l.rows, p, g)
    BY <1>1, <2>1, RowsReached
  <2> HIDE DEF g
  <2>3. /\ GoodRows(g.rows) /\ Marked(g.rows) /\ l.rows \subseteq g.rows /\ g.rows \subseteq Row
        /\ Stretch(g.rows, g.given) /\ Len(g.given) \in 1..Len(g.given)
        /\ r.end = g.offset /\ r.start <= p /\ p < g.offset
    BY <2>2, FormatterFacts DEF Reached
  <2>4. r \in g.rows /\ h \in g.rows /\ h.start = p + 1
    BY <1>1, <2>1, <2>3 DEF Stretch
  <2>5. r \in Row /\ r.start \in Nat /\ r.end \in Nat /\ r.start < r.end /\ r.start <= length
        /\ h.end \in Nat /\ h.start < h.end
    BY <2>3, <2>4, GoodRow, BufferFacts
  <2> HIDE DEF r, h
  <2>6. r.end = h.start
    <3>1. r # h
      BY <2>1, <2>3, <2>4
    <3>2. r.end <= h.start \/ h.end <= r.start
      BY <2>3, <2>4, <3>1, Disjoint
    <3>3. QED
      BY <2>1, <2>3, <2>4, <2>5, <3>2
  <2>7. Stretch(g.rows, <<r>>) /\ Len(<<r>>) = 1 /\ <<r>>[1] = r /\ <<r>> # << >>
    BY <2>3, <2>4, OneRow
  <2>8. Stretch(g.rows, l.view)
    BY <1>1, <2>3, MoreRows
  <2>9. /\ Stretch(g.rows, v) /\ Len(v) = 1 + Len(l.view) /\ v # << >>
        /\ \A i \in 1..(1 + Len(l.view)) : v[i] = IF i <= 1 THEN <<r>>[i] ELSE l.view[i - 1]
    <3> DEFINE u == <<r>>
    <3>1. /\ Stretch(g.rows, u) /\ u # << >> /\ l.view[1].start = u[Len(u)].end
          /\ Stretch(g.rows, l.view) /\ l.view # << >>
      BY <1>1, <2>6, <2>7, <2>8 DEF h
    <3> HIDE DEF u
    <3>2. /\ Stretch(g.rows, u \o l.view) /\ Len(u \o l.view) = Len(u) + Len(l.view)
          /\ u \o l.view # << >>
          /\ \A i \in 1..(Len(u) + Len(l.view)) :
               (u \o l.view)[i] = IF i <= Len(u) THEN u[i] ELSE l.view[i - Len(u)]
      BY <3>1, Joined
    <3>3. Len(u) = 1
      BY <2>7 DEF u
    <3>4. QED
      BY <3>2, <3>3 DEF u
  <2> HIDE DEF v
  <2>10. v[1] = r /\ v[Len(v)] = l.view[Len(l.view)]
    <3>1. 1 \in 1..(1 + Len(l.view)) /\ Len(v) \in 1..(1 + Len(l.view)) /\ ~(Len(v) <= 1)
          /\ Len(v) - 1 = Len(l.view)
      BY <1>1, <2>9
    <3>2. QED
      BY <2>7, <2>9, <3>1
  <2>11. /\ k \in 1..Len(v) /\ (k = Len(v) \/ 2 * k >= Height) /\ 2 * k <= Height + 1
    <3>1. /\ (Height + 1) \div 2 \in Nat /\ (Height + 1) \div 2 >= 1
          /\ 2 * ((Height + 1) \div 2) >= Height /\ 2 * ((Height + 1) \div 2) <= Height + 1
      BY HeightAssumption
    <3>2. Len(v) \in Nat /\ Len(v) >= 1
      BY <1>1, <2>9
    <3>3. {Len(v), (Height + 1) \div 2} \in SUBSET Nat
      BY <3>1, <3>2
    <3>4. k \in {Len(v), (Height + 1) \div 2} /\ k <= Len(v) /\ k <= (Height + 1) \div 2
      BY <3>3, LeastOf
    <3> HIDE DEF k
    <3>5. QED
      BY <3>1, <3>2, <3>4, HeightAssumption
  <2> HIDE DEF k
  <2>12. /\ Stretch(g.rows, w) /\ Len(w) = k /\ w # << >>
         /\ \A i \in 1..k : w[i] = v[i]
    BY <2>9, <2>11, FirstOf
  <2> HIDE DEF w
  <2>13. w[1] = r /\ w[k] = v[k]
    <3>1. 1 \in 1..k /\ k \in 1..k
      BY <2>11
    <3>2. QED
      BY <2>10, <2>12, <3>1
  <2>14. FullView(w)
    <3>1. CASE 2 * k >= Height
      BY <2>11, <2>12, <3>1 DEF FullView
    <3>2. CASE ~(2 * k >= Height)
      <4>1. k = Len(v) /\ k = 1 + Len(l.view)
        BY <2>9, <2>11, <3>2
      <4>2. ~(2 * Len(l.view) >= Height)
        BY <1>1, <3>2, <4>1, HeightAssumption
      <4>3. QED
        BY <1>1, <2>10, <2>11, <2>12, <2>13, <4>1, <4>2 DEF FullView
    <3>3. QED
      BY <3>1, <3>2
  <2>15. GoodView(g.rows, w, r.start) /\ r.start \in 0..length
    BY <2>5, <2>12, <2>13, <2>14 DEF GoodView
  <2>16. Shown(g.rows, w, r.start, TRUE) \in Views
    BY <2>3, <2>12, <2>15, ShownLayout
  <2>17. Head(v) = r
    <3>1. v \in Seq(Row) /\ v # << >>
      BY <2>9 DEF Stretch
    <3>2. QED
      BY <2>10, <3>1
  <2>18. DownOne(l) = Shown(g.rows, w, Head(v).start, TRUE)
    BY <1>3 DEF DownOne, Prepended, Last, g, p, r, v, w, k
  <2>19. OneDown(l, Shown(g.rows, w, r.start, TRUE))
    <3>1. r.end = l.start /\ r.start < l.start
      BY <2>1, <2>4, <2>5, <2>6
    <3>2. k <= Len(l.view) + 1 /\ (k = Len(l.view) + 1 \/ 2 * k >= Height)
      BY <1>1, <2>9, <2>11
    <3>3. ASSUME NEW i \in 2..k PROVE w[i] = l.view[i - 1]
      <4>1. i \in 1..k /\ i \in 1..(1 + Len(l.view)) /\ ~(i <= 1)
        BY <1>1, <2>9, <2>11
      <4>2. QED
        BY <2>9, <2>12, <4>1
    <3> DEFINE e == Shown(g.rows, w, r.start, TRUE)
    <3>4. e.rows = g.rows /\ e.view = w /\ e.start = r.start /\ e.did = TRUE
      BY DEF Shown
    <3> HIDE DEF e
    <3>5. OneDown(l, e)
      BY <2>3, <2>12, <2>13, <3>1, <3>2, <3>3, <3>4 DEF OneDown
    <3>6. QED
      BY <3>5 DEF e
  <2>20. QED
    BY <1>3, <2>16, <2>17, <2>18, <2>19
<1>4. QED
  BY <1>2, <1>3

(* A formatter that goes on behind a row.                                  *)
LEMMA FormatterGoesOn ==
  ASSUME BufferOK, NEW rs, GoodRows(rs), Marked(rs), NEW r \in rs, r.end <= length
  PROVE  LET f == Formatter(rs, IF r.box = "EndOfLine" THEN r.end ELSE r.line, r.end)
         IN  f \in Formatters(rs) /\ f.offset = r.end /\ f.given = << >> /\ f.rows = rs
<1> DEFINE line == IF r.box = "EndOfLine" THEN r.end ELSE r.line
           f == [rows |-> rs, line |-> line, offset |-> r.end, given |-> << >>]
<1>1. r.end \in Nat /\ r.line \in Nat /\ length \in Nat
  BY GoodRow, BufferFacts
<1>2. line = LineStart(text, r.end) /\ line \in Nat
  BY <1>1, LineBehind
<1>3. RowMayStart(rs, r.end)
  BY DEF RowMayStart
<1>4. << >> \in Seq(Row) /\ Len(<< >>) = 0 /\ rs \subseteq Row
  BY EmptySeq DEF GoodRows
<1>5. Stretch(rs, << >>)
  BY <1>4 DEF Stretch
<1> HIDE DEF line
<1>6. f \in [rows : SUBSET Row, line : Nat, offset : Nat, given : Seq(Row)]
  BY <1>1, <1>2, <1>4
<1>7. f.rows = rs /\ f.line = line /\ f.offset = r.end /\ f.given = << >>
  OBVIOUS
<1> HIDE DEF f
<1>8. f \in Formatters(rs)
  BY <1>1, <1>2, <1>3, <1>5, <1>6, <1>7 DEF Formatters
<1>9. QED
  BY <1>7, <1>8 DEF Formatter, f, line

(* k is l scrolled by a row that comes below it.                           *)
OneUp(l, k) ==
  /\ l.rows \subseteq k.rows /\ k.did
  /\ Len(k.view) = Len(l.view) /\ Len(l.view) >= 2
  /\ \A i \in 1..(Len(l.view) - 1) : k.view[i] = l.view[i + 1]
  /\ k.view[Len(k.view)].start = l.view[Len(l.view)].end

(* ScrollUp: rows go in front, and the row behind the last one comes.      *)
LEMMA UpShows ==
  ASSUME BufferOK, NEW l \in Views
  PROVE  /\ UpOne(l) \in Views
         /\ l.view[Len(l.view)].box # "EndOfDocument" => OneUp(l, UpOne(l))
         /\ ShowsEnd(l.view) => UpOne(l) = l
<1> DEFINE v == l.view
           last == v[Len(v)]
           rest == DropFirst(v)
           line == IF last.box = "EndOfLine" THEN last.end ELSE last.line
           f == Formatter(l.rows, line, last.end)
<1>1. /\ l \in Layouts /\ v # << >> /\ GoodRows(l.rows) /\ Marked(l.rows) /\ Stretch(l.rows, v) /\ v \in Seq(Row)
      /\ Len(v) \in Nat /\ Len(v) # 0 /\ FullView(v) /\ last \in l.rows /\ length \in Nat
      /\ l.rows \subseteq Row
  BY LayoutFacts, BufferFacts DEF Views, GoodRows
<1> DEFINE a == IF last.box = "EndOfDocument" THEN Len(v) + 1 - Height \div 2 ELSE 2
<1>2. rest = SubSeq(v, a, Len(v))
  BY DEF DropFirst, Last
<1>3. ASSUME a \in 1..Len(v)
      PROVE  /\ Stretch(l.rows, rest) /\ rest # << >> /\ Len(rest) = Len(v) + 1 - a
             /\ rest[Len(rest)] = last /\ Head(rest) = rest[1]
             /\ rest[1].start \in 0..length
             /\ \A i \in 1..(Len(v) + 1 - a) : rest[i] = v[a + i - 1]
  <2> DEFINE w == SubSeq(v, a, Len(v))
  <2> HIDE DEF a
  <2>1. a \in 1..(Len(v) + 1) /\ a <= Len(v)
    BY <1>1, <1>3
  <2>2. /\ Stretch(l.rows, w) /\ Len(w) = Len(v) + 1 - a /\ w # << >> /\ w[1] = v[a]
        /\ w[Len(v) + 1 - a] = last
        /\ \A i \in 1..(Len(v) + 1 - a) : w[i] = v[a + i - 1]
    BY <1>1, <2>1, RestOf, RestRows
  <2> HIDE DEF w
  <2>3. Len(w) \in Nat /\ w \in Seq(Row)
    BY <2>2, LenProperties DEF Stretch
  <2>4. Head(w) = w[1]
    BY <2>2, <2>3
  <2>5. v[a] \in l.rows
    BY <1>1, <1>3 DEF Stretch
  <2>6. w[1].start \in 0..length
    <3>1. /\ v[a].start \in Nat /\ Len(v[a].cells) \in Nat
          /\ v[a].start + Len(v[a].cells) <= length
      BY <1>1, <2>5, GoodRow
    <3>2. QED
      BY <1>1, <2>2, <3>1
  <2>7. rest = w
    BY <1>2 DEF w
  <2> HIDE DEF rest
  <2>8. QED
    BY <2>2, <2>4, <2>6, <2>7
<1>4. CASE ShowsEnd(v)
  BY <1>4 DEF UpOne, ShowsEnd, Last
<1>5. CASE ~ShowsEnd(v) /\ last.box = "EndOfDocument"
  <2>1. 2 * Len(v) > Height
    BY <1>1, <1>5, HeightAssumption DEF ShowsEnd, Last
  <2>2. a \in 1..Len(v)
    <3>1. Height \div 2 \in Nat /\ Height \div 2 >= 1 /\ Height \div 2 <= Len(v)
      BY <1>1, <2>1, HeightAssumption
    <3>2. a = Len(v) + 1 - Height \div 2
      BY <1>5
    <3> HIDE DEF a
    <3>3. QED
      BY <1>1, <3>1, <3>2
  <2>3. /\ Stretch(l.rows, rest) /\ rest # << >> /\ rest[Len(rest)] = last
        /\ Head(rest) = rest[1] /\ rest[1].start \in 0..length
        /\ Len(rest) = Len(v) + 1 - a
    BY <1>3, <2>2
  <2>10. 2 * Len(rest) <= Height + 1
    <3>1. Len(v) + 1 - (Len(v) + 1 - Height \div 2) = Height \div 2
          /\ 2 * (Height \div 2) <= Height + 1 /\ Height \div 2 \in Nat
      BY <1>1, HeightAssumption
    <3>2. a = Len(v) + 1 - Height \div 2
      BY <1>5
    <3> HIDE DEF a, rest
    <3>3. Len(rest) = Height \div 2
      BY <2>3, <3>1, <3>2
    <3>4. QED
      BY <3>1, <3>3
  <2>4. f.rows = l.rows /\ f.given = << >>
    BY DEF Formatter
  <2>5. UpOne(l) = Advanced(l, rest, f)
    BY <1>4, <1>5 DEF UpOne, Last
  <2> HIDE DEF rest, f
  <2>6. rest \o f.given = rest
    <3>1. rest \in Seq(Row)
      BY <2>3 DEF Stretch
    <3>2. QED
      BY <2>4, <3>1, ConcatEmptySeq
  <2>7. GoodView(l.rows, rest, rest[1].start)
    BY <1>5, <2>3, <2>10 DEF GoodView, FullView
  <2>8. Shown(l.rows, rest, rest[1].start, TRUE) \in Views
    BY <1>1, <2>3, <2>7, ShownLayout
  <2>9. UpOne(l) \in Views
    BY <2>3, <2>4, <2>5, <2>6, <2>8 DEF Advanced
  <2>11. QED
    BY <1>5, <2>9
<1>6. CASE ~ShowsEnd(v) /\ last.box # "EndOfDocument"
  <2> DEFINE g == NextRow(f)
             r == g.given[1]
             w == rest \o g.given
  <2>1. 2 * Len(v) >= Height /\ a = 2
    BY <1>1, <1>6 DEF FullView
  <2>2. a \in 1..Len(v)
    <3>1. Len(v) >= 2
      BY <1>1, <2>1, HeightAssumption
    <3> HIDE DEF a
    <3>2. QED
      BY <1>1, <2>1, <3>1
  <2>3. /\ Stretch(l.rows, rest) /\ rest # << >> /\ Len(rest) = Len(v) - 1
        /\ rest[Len(rest)] = last /\ Head(rest) = rest[1] /\ rest[1].start \in 0..length
        /\ \A i \in 1..(Len(v) - 1) : rest[i] = v[i + 1]
    <3>1. Len(v) + 1 - a = Len(v) - 1 /\ \A i \in 1..(Len(v) - 1) : a + i - 1 = i + 1
      BY <1>1, <2>1
    <3> HIDE DEF a, rest
    <3>2. QED
      BY <1>3, <2>2, <3>1
  <2>4. last.end <= length /\ last.end \in Nat
    <3>1. last.end # length + 1
      BY <1>1, <1>6, LineBehind
    <3>2. last.end \in Nat /\ last.end <= length + 1
      BY <1>1, GoodRow
    <3>3. QED
      BY <1>1, <3>1, <3>2
  <2>5. f \in Formatters(l.rows) /\ f.offset = last.end /\ f.given = << >>
    <3> HIDE DEF last
    <3>1. QED
      BY <1>1, <2>4, FormatterGoesOn
  <2>6. UpOne(l) = Advanced(l, rest, g)
    BY <1>4, <1>6 DEF UpOne, Last
  <2> HIDE DEF f, rest, last
  <2>7. /\ g \in Formatters(l.rows) /\ NextOf(f, g)
        /\ g.given # << >> /\ g.given[Len(g.given)].start = last.end
    BY <2>4, <2>5, NextRowGiven, NextGiven
  <2> HIDE DEF g
  <2>8. Len(g.given) = 1 /\ r.start = last.end
    BY <2>5, <2>7, EmptySeq DEF NextOf
  <2>9. /\ GoodRows(g.rows) /\ Marked(g.rows) /\ l.rows \subseteq g.rows /\ Stretch(g.rows, g.given)
    BY <2>7, FormatterFacts
  <2>10. Stretch(g.rows, rest) /\ Len(rest) \in Nat /\ Len(rest) # 0
    <3>1. Stretch(g.rows, rest)
      BY <2>3, <2>9, MoreRows
    <3>2. QED
      BY <2>3, <3>1, EmptySeq DEF Stretch
  <2>11. /\ Stretch(g.rows, w) /\ w # << >> /\ Len(w) = Len(rest) + Len(g.given)
         /\ \A i \in 1..(Len(rest) + Len(g.given)) :
              w[i] = IF i <= Len(rest) THEN rest[i] ELSE g.given[i - Len(rest)]
    <3> DEFINE u == g.given
               rs == g.rows
    <3>1. /\ Stretch(rs, rest) /\ rest # << >> /\ Stretch(rs, u) /\ u # << >>
          /\ u[1].start = rest[Len(rest)].end
      BY <2>3, <2>7, <2>8, <2>9, <2>10
    <3> HIDE DEF u, rs
    <3>2. /\ Stretch(rs, rest \o u) /\ Len(rest \o u) = Len(rest) + Len(u) /\ rest \o u # << >>
          /\ \A i \in 1..(Len(rest) + Len(u)) :
               (rest \o u)[i] = IF i <= Len(rest) THEN rest[i] ELSE u[i - Len(rest)]
      BY <3>1, Joined
    <3>3. QED
      BY <3>2 DEF u, rs
  <2> HIDE DEF w, r
  <2>12. w[1] = rest[1] /\ Len(w) = Len(v)
    <3>1. 1 \in 1..(Len(rest) + Len(g.given)) /\ 1 <= Len(rest)
      BY <2>8, <2>10
    <3>2. w[1] = rest[1]
      BY <2>11, <3>1
    <3>3. Len(w) = Len(v)
      BY <1>1, <2>3, <2>8, <2>11
    <3>4. QED
      BY <3>2, <3>3
  <2>13. GoodView(g.rows, w, rest[1].start)
    BY <1>1, <2>1, <2>11, <2>12 DEF GoodView, FullView
  <2>14. Shown(g.rows, w, rest[1].start, TRUE) \in Views
    BY <2>3, <2>9, <2>11, <2>13, ShownLayout
  <2>15. UpOne(l) = Shown(g.rows, w, rest[1].start, TRUE)
    BY <2>3, <2>6 DEF Advanced, w
  <2>16. /\ Len(w) = Len(v) /\ Len(v) >= 2 /\ Len(rest) = Len(v) - 1
         /\ \A i \in 1..(Len(v) - 1) : w[i] = v[i + 1]
         /\ w[Len(w)].start = last.end
    <3>1. Len(v) >= 2
      BY <1>1, <2>1, HeightAssumption
    <3>2. ASSUME NEW i \in 1..(Len(v) - 1) PROVE w[i] = v[i + 1]
      <4>1. i \in 1..(Len(rest) + Len(g.given)) /\ i <= Len(rest)
        BY <1>1, <2>3, <2>8
      <4>2. QED
        BY <2>3, <2>11, <4>1
    <3>3. w[Len(w)] = g.given[1]
      <4>1. /\ Len(v) \in 1..(Len(rest) + Len(g.given)) /\ ~(Len(v) <= Len(rest))
            /\ Len(v) - Len(rest) = 1
        BY <1>1, <2>3, <2>8, <3>1
      <4>2. QED
        BY <2>11, <2>12, <4>1
    <3>4. QED
      BY <2>3, <2>8, <2>12, <3>1, <3>2, <3>3 DEF r
  <2>17. OneUp(l, Shown(g.rows, w, rest[1].start, TRUE))
    <3> DEFINE e == Shown(g.rows, w, rest[1].start, TRUE)
    <3>1. e.rows = g.rows /\ e.view = w /\ e.did = TRUE
      BY DEF Shown
    <3> HIDE DEF e
    <3>2. OneUp(l, e)
      BY <2>9, <2>16, <3>1 DEF OneUp, last
    <3>3. QED
      BY <3>2 DEF e
  <2>18. QED
    BY <1>6, <2>14, <2>15, <2>17
<1>7. QED
  BY <1>4, <1>5, <1>6

(* ScrollDown and ScrollUp.                                                *)
LEMMA ScrollShows ==
  ASSUME BufferOK, NEW l \in Layouts
  PROVE  ScrolledDown(l) \in Views /\ ScrolledUp(l) \in Views
BY FormattedShows, DownShows, UpShows DEF ScrolledDown, ScrolledUp

(* One round of each loop of ScrollToPosition.                             *)
TowardsTurn(p, up, t) ==
  IF ~t.over /\ 4 * t.scrolled < Height THEN OneTowards(t.layout, p, up, t.scrolled) ELSE t

UpTurn(p, k) == IF k.did /\ ~FullyVisible(k.view, p) THEN ScrolledUp(k) ELSE k

DownTurn(k) == IF k.did /\ FullyVisible(k.view, Len(text)) THEN ScrolledDown(k) ELSE k

CenterTurn(t) ==
  IF t.layout.did /\ 4 * t.scrolled < Height
  THEN [layout |-> ScrolledDown(t.layout), scrolled |-> t.scrolled + 1] ELSE t

TowardsStart(l) == [layout |-> l, scrolled |-> 0, over |-> FALSE]

CenterStart(l, n) == [layout |-> [l EXCEPT !.did = TRUE], scrolled |-> n]

(* What the loop of Downmost leaves.                                       *)
Lowest(l) ==
  While(LAMBDA m : m.did /\ FullyVisible(m.view, Len(text)), ScrolledDown,
        [l EXCEPT !.did = TRUE], MaxRows)

LEMMA TowardsRounds ==
  ASSUME NEW l, NEW p, NEW S, TowardsStart(l) \in S,
         \A g \in S : TowardsTurn(p, p > l.start, g) \in S
  PROVE  \E round : /\ Looped(S, [g \in S |-> TowardsTurn(p, p > l.start, g)], TowardsStart(l), Height, round)
                    /\ Towards(l, p) = round[Height]
<1> DEFINE x == TowardsStart(l)
           Turn(g) == TowardsTurn(p, p > l.start, g)
           st == [g \in S |-> Turn(g)]
           n == Height
           Is(r) == r = [i \in 0..n |-> IF i = 0 THEN x ELSE Turn(r[i - 1])]
           round == CHOOSE r : Is(r)
<1>1. n \in Nat
  BY HeightAssumption
<1>2. st \in [S -> S] /\ x \in S
  OBVIOUS
<1>3. Towards(l, p) = round[n]
  BY DEF Towards, While, TowardsTurn, TowardsStart
<1> HIDE DEF x, n
<1>4. PICK it : Iterates(it, S, st, x, n)
  <2> HIDE DEF st
  <2>1. QED
    BY <1>1, <1>2, Rounds
<1>5. ASSUME NEW i \in 0..n, i # 0 PROVE st[it[i - 1]] = Turn(it[i - 1])
  <2>1. it \in [0..n -> S]
    BY <1>4 DEF Iterates
  <2>2. i - 1 \in 0..n
    BY <1>1, <1>5
  <2>3. it[i - 1] \in S
    BY <2>1, <2>2
  <2> HIDE DEF Turn
  <2>4. QED
    BY <2>3
<1>6. Is(it)
  <2> HIDE DEF Turn, st
  <2>1. QED
    BY <1>4, <1>5 DEF Iterates
<1>7. Is(round)
  <2> HIDE DEF Is
  <2>1. QED
    BY <1>6
<1> HIDE DEF round
<1>8. /\ round[0] = x /\ round = [i \in 0..n |-> round[i]]
      /\ \A i \in 0..n : i # 0 => round[i] = Turn(round[i - 1])
  <2> HIDE DEF Turn
  <2>1. QED
    BY <1>1, <1>7
<1>9. ASSUME NEW i \in 0..(n - 1), round[i] \in S PROVE round[i + 1] = st[round[i]]
  <2> DEFINE j == i + 1
  <2>1. j \in 0..n /\ j # 0 /\ j - 1 = i
    BY <1>1
  <2> HIDE DEF j, Turn
  <2>2. round[j] = st[round[i]]
    BY <1>8, <1>9, <2>1
  <2>3. QED
    BY <2>2 DEF j
<1>10. Looped(S, st, x, n, round)
  <2> HIDE DEF st
  <2>1. QED
    BY <1>1, <1>2, <1>8, <1>9, LoopRounds
<1>11. QED
  BY <1>3, <1>10 DEF x, n

LEMMA UpRounds ==
  ASSUME BufferOK, NEW l, NEW p, NEW S, [l EXCEPT !.did = TRUE] \in S,
         \A g \in S : UpTurn(p, g) \in S
  PROVE  \E round : /\ Looped(S, [g \in S |-> UpTurn(p, g)], [l EXCEPT !.did = TRUE], MaxRows, round)
                    /\ UpTo(l, p) = round[MaxRows]
<1> DEFINE x == [l EXCEPT !.did = TRUE]
           Turn(g) == UpTurn(p, g)
           st == [g \in S |-> Turn(g)]
           n == MaxRows
           Is(r) == r = [i \in 0..n |-> IF i = 0 THEN x ELSE Turn(r[i - 1])]
           round == CHOOSE r : Is(r)
<1>1. n \in Nat
  BY BufferFacts DEF MaxRows
<1>2. st \in [S -> S] /\ x \in S
  OBVIOUS
<1>3. UpTo(l, p) = round[n]
  BY DEF UpTo, While, UpTurn
<1> HIDE DEF x, n
<1>4. PICK it : Iterates(it, S, st, x, n)
  <2> HIDE DEF st
  <2>1. QED
    BY <1>1, <1>2, Rounds
<1>5. ASSUME NEW i \in 0..n, i # 0 PROVE st[it[i - 1]] = Turn(it[i - 1])
  <2>1. it \in [0..n -> S]
    BY <1>4 DEF Iterates
  <2>2. i - 1 \in 0..n
    BY <1>1, <1>5
  <2>3. it[i - 1] \in S
    BY <2>1, <2>2
  <2> HIDE DEF Turn
  <2>4. QED
    BY <2>3
<1>6. Is(it)
  <2> HIDE DEF Turn, st
  <2>1. QED
    BY <1>4, <1>5 DEF Iterates
<1>7. Is(round)
  <2> HIDE DEF Is
  <2>1. QED
    BY <1>6
<1> HIDE DEF round
<1>8. /\ round[0] = x /\ round = [i \in 0..n |-> round[i]]
      /\ \A i \in 0..n : i # 0 => round[i] = Turn(round[i - 1])
  <2> HIDE DEF Turn
  <2>1. QED
    BY <1>1, <1>7
<1>9. ASSUME NEW i \in 0..(n - 1), round[i] \in S PROVE round[i + 1] = st[round[i]]
  <2> DEFINE j == i + 1
  <2>1. j \in 0..n /\ j # 0 /\ j - 1 = i
    BY <1>1
  <2> HIDE DEF j, Turn
  <2>2. round[j] = st[round[i]]
    BY <1>8, <1>9, <2>1
  <2>3. QED
    BY <2>2 DEF j
<1>10. Looped(S, st, x, n, round)
  <2> HIDE DEF st
  <2>1. QED
    BY <1>1, <1>2, <1>8, <1>9, LoopRounds
<1>11. QED
  BY <1>3, <1>10 DEF x, n

LEMMA DownRounds ==
  ASSUME BufferOK, NEW l, NEW S, [l EXCEPT !.did = TRUE] \in S,
         \A g \in S : DownTurn(g) \in S
  PROVE  \E round : /\ Looped(S, [g \in S |-> DownTurn(g)], [l EXCEPT !.did = TRUE], MaxRows, round)
                    /\ Lowest(l) = round[MaxRows]
<1> DEFINE x == [l EXCEPT !.did = TRUE]
           Turn(g) == DownTurn(g)
           st == [g \in S |-> Turn(g)]
           n == MaxRows
           Is(r) == r = [i \in 0..n |-> IF i = 0 THEN x ELSE Turn(r[i - 1])]
           round == CHOOSE r : Is(r)
<1>1. n \in Nat
  BY BufferFacts DEF MaxRows
<1>2. st \in [S -> S] /\ x \in S
  OBVIOUS
<1>3. Lowest(l) = round[n]
  BY DEF Lowest, While, DownTurn
<1> HIDE DEF x, n
<1>4. PICK it : Iterates(it, S, st, x, n)
  <2> HIDE DEF st
  <2>1. QED
    BY <1>1, <1>2, Rounds
<1>5. ASSUME NEW i \in 0..n, i # 0 PROVE st[it[i - 1]] = Turn(it[i - 1])
  <2>1. it \in [0..n -> S]
    BY <1>4 DEF Iterates
  <2>2. i - 1 \in 0..n
    BY <1>1, <1>5
  <2>3. it[i - 1] \in S
    BY <2>1, <2>2
  <2> HIDE DEF Turn
  <2>4. QED
    BY <2>3
<1>6. Is(it)
  <2> HIDE DEF Turn, st
  <2>1. QED
    BY <1>4, <1>5 DEF Iterates
<1>7. Is(round)
  <2> HIDE DEF Is
  <2>1. QED
    BY <1>6
<1> HIDE DEF round
<1>8. /\ round[0] = x /\ round = [i \in 0..n |-> round[i]]
      /\ \A i \in 0..n : i # 0 => round[i] = Turn(round[i - 1])
  <2> HIDE DEF Turn
  <2>1. QED
    BY <1>1, <1>7
<1>9. ASSUME NEW i \in 0..(n - 1), round[i] \in S PROVE round[i + 1] = st[round[i]]
  <2> DEFINE j == i + 1
  <2>1. j \in 0..n /\ j # 0 /\ j - 1 = i
    BY <1>1
  <2> HIDE DEF j, Turn
  <2>2. round[j] = st[round[i]]
    BY <1>8, <1>9, <2>1
  <2>3. QED
    BY <2>2 DEF j
<1>10. Looped(S, st, x, n, round)
  <2> HIDE DEF st
  <2>1. QED
    BY <1>1, <1>2, <1>8, <1>9, LoopRounds
<1>11. QED
  BY <1>3, <1>10 DEF x, n

LEMMA CenterRounds ==
  ASSUME NEW l, NEW m, NEW S, CenterStart(l, m) \in S,
         \A g \in S : CenterTurn(g) \in S
  PROVE  \E round : /\ Looped(S, [g \in S |-> CenterTurn(g)], CenterStart(l, m), Height, round)
                    /\ Centered(l, m) = round[Height].layout
<1> DEFINE x == CenterStart(l, m)
           Turn(g) == CenterTurn(g)
           st == [g \in S |-> Turn(g)]
           n == Height
           Is(r) == r = [i \in 0..n |-> IF i = 0 THEN x ELSE Turn(r[i - 1])]
           round == CHOOSE r : Is(r)
<1>1. n \in Nat
  BY HeightAssumption
<1>2. st \in [S -> S] /\ x \in S
  OBVIOUS
<1>3. Centered(l, m) = round[n].layout
  BY DEF Centered, While, CenterTurn, CenterStart
<1> HIDE DEF x, n
<1>4. PICK it : Iterates(it, S, st, x, n)
  <2> HIDE DEF st
  <2>1. QED
    BY <1>1, <1>2, Rounds
<1>5. ASSUME NEW i \in 0..n, i # 0 PROVE st[it[i - 1]] = Turn(it[i - 1])
  <2>1. it \in [0..n -> S]
    BY <1>4 DEF Iterates
  <2>2. i - 1 \in 0..n
    BY <1>1, <1>5
  <2>3. it[i - 1] \in S
    BY <2>1, <2>2
  <2> HIDE DEF Turn
  <2>4. QED
    BY <2>3
<1>6. Is(it)
  <2> HIDE DEF Turn, st
  <2>1. QED
    BY <1>4, <1>5 DEF Iterates
<1>7. Is(round)
  <2> HIDE DEF Is
  <2>1. QED
    BY <1>6
<1> HIDE DEF round
<1>8. /\ round[0] = x /\ round = [i \in 0..n |-> round[i]]
      /\ \A i \in 0..n : i # 0 => round[i] = Turn(round[i - 1])
  <2> HIDE DEF Turn
  <2>1. QED
    BY <1>1, <1>7
<1>9. ASSUME NEW i \in 0..(n - 1), round[i] \in S PROVE round[i + 1] = st[round[i]]
  <2> DEFINE j == i + 1
  <2>1. j \in 0..n /\ j # 0 /\ j - 1 = i
    BY <1>1
  <2> HIDE DEF j, Turn
  <2>2. round[j] = st[round[i]]
    BY <1>8, <1>9, <2>1
  <2>3. QED
    BY <2>2 DEF j
<1>10. Looped(S, st, x, n, round)
  <2> HIDE DEF st
  <2>1. QED
    BY <1>1, <1>2, <1>8, <1>9, LoopRounds
<1>11. QED
  BY <1>3, <1>10 DEF x, n

LEMMA ViewsAreLayouts == Views \subseteq Layouts
BY DEF Views

LEMMA LastRound ==
  ASSUME NEW S, NEW st, NEW x, NEW n \in Nat, NEW round, Looped(S, st, x, n, round)
  PROVE  round[n] \in S
BY DEF Looped

LEMMA TowardsShows ==
  ASSUME BufferOK, NEW l \in Views, NEW p
  PROVE  Towards(l, p).layout \in Views
<1> DEFINE S == [layout : Views, scrolled : Nat, over : BOOLEAN]
           up == p > l.start
<1>1. TowardsStart(l) \in S
  BY DEF TowardsStart
<1>2. ASSUME NEW t \in S PROVE TowardsTurn(p, up, t) \in S
  <2> DEFINE k == Scrolled(t.layout, up)
             n == t.scrolled
             b == n > 0
             m == IF k.did THEN k ELSE [k EXCEPT !.did = b]
             over == ~k.did \/ FullyVisible(k.view, p)
  <2>1. t.layout \in Layouts /\ n \in Nat
    BY ViewsAreLayouts
  <2>2. k \in Views
    BY <2>1, ScrollShows DEF Scrolled
  <2>9. b \in BOOLEAN
    OBVIOUS
  <2> HIDE DEF k, n, b
  <2>10. [k EXCEPT !.did = b] \in Views
    BY <2>2, <2>9, DidLayout
  <2>3. m \in Views
    BY <2>2, <2>10
  <2>4. over \in BOOLEAN /\ n + 1 \in Nat
    BY <2>1
  <2>5. OneTowards(t.layout, p, up, n) = [layout |-> m, scrolled |-> n + 1, over |-> over]
    BY DEF OneTowards, k, n, b
  <2> HIDE DEF m, over
  <2>6. OneTowards(t.layout, p, up, n) \in S
    BY <2>3, <2>4, <2>5
  <2>7. QED
    BY <2>6 DEF TowardsTurn, n
<1>3. PICK round : /\ Looped(S, [t \in S |-> TowardsTurn(p, up, t)], TowardsStart(l), Height, round)
                   /\ Towards(l, p) = round[Height]
  <2> HIDE DEF S
  <2>1. QED
    BY <1>1, <1>2, TowardsRounds
<1>4. round[Height] \in S
  <2> HIDE DEF S
  <2>1. QED
    BY <1>3, LastRound, HeightAssumption
<1>5. QED
  BY <1>3, <1>4

LEMMA UpToShows ==
  ASSUME BufferOK, NEW l \in Views, NEW p
  PROVE  UpTo(l, p) \in Views
<1>1. [l EXCEPT !.did = TRUE] \in Views
  BY DidLayout
<1>2. ASSUME NEW k \in Views PROVE UpTurn(p, k) \in Views
  BY ViewsAreLayouts, ScrollShows DEF UpTurn
<1>3. PICK round : /\ Looped(Views, [k \in Views |-> UpTurn(p, k)], [l EXCEPT !.did = TRUE],
                             MaxRows, round)
                   /\ UpTo(l, p) = round[MaxRows]
  BY <1>1, <1>2, UpRounds
<1>4. MaxRows \in Nat
  BY BufferFacts DEF MaxRows
<1>5. QED
  BY <1>3, <1>4, LastRound

LEMMA DownmostShows ==
  ASSUME BufferOK, NEW l \in Views
  PROVE  Downmost(l) \in Views
<1>1. [l EXCEPT !.did = TRUE] \in Views
  BY DidLayout
<1>2. ASSUME NEW k \in Views PROVE DownTurn(k) \in Views
  BY ViewsAreLayouts, ScrollShows DEF DownTurn
<1>3. PICK round : /\ Looped(Views, [k \in Views |-> DownTurn(k)], [l EXCEPT !.did = TRUE],
                             MaxRows, round)
                   /\ Lowest(l) = round[MaxRows]
  BY <1>1, <1>2, DownRounds
<1>4. MaxRows \in Nat
  BY BufferFacts DEF MaxRows
<1>5. Lowest(l) \in Views
  BY <1>3, <1>4, LastRound
<1>6. Downmost(l) = IF Lowest(l).did THEN ScrolledUp(Lowest(l)) ELSE Lowest(l)
  BY DEF Downmost, Lowest
<1>7. QED
  BY <1>5, <1>6, ViewsAreLayouts, ScrollShows

LEMMA CenteredShows ==
  ASSUME BufferOK, NEW l \in Views, NEW n \in Int
  PROVE  Centered(l, n) \in Views
<1> DEFINE S == [layout : Views, scrolled : Int]
<1>1. CenterStart(l, n) \in S
  BY DidLayout DEF CenterStart
<1>2. ASSUME NEW t \in S PROVE CenterTurn(t) \in S
  <2>1. t.layout \in Layouts /\ t.scrolled \in Int
    BY ViewsAreLayouts
  <2>2. ScrolledDown(t.layout) \in Views /\ t.scrolled + 1 \in Int
    BY <2>1, ScrollShows
  <2>3. QED
    BY <2>2 DEF CenterTurn
<1>3. PICK round : /\ Looped(S, [t \in S |-> CenterTurn(t)], CenterStart(l, n), Height, round)
                   /\ Centered(l, n) = round[Height].layout
  <2> HIDE DEF S
  <2>1. QED
    BY <1>1, <1>2, CenterRounds
<1>4. round[Height] \in S
  <2> HIDE DEF S
  <2>1. QED
    BY <1>3, LastRound, HeightAssumption
<1>5. QED
  BY <1>3, <1>4

(* Whatever ScrollToPosition does, it ends with a good view.               *)
LEMMA ScrolledToShows ==
  ASSUME BufferOK, NEW l \in Layouts, NEW p \in 0..length
  PROVE  ScrolledTo(l, p) \in Views
<1> DEFINE m == Formatted(l)
           t == Towards(m, p)
           k == UpTo(ShownFrom(Format(t.layout.rows, p)), p)
           n == Cardinality({i \in DOMAIN k.view : k.view[i].end <= p})
<1>1. m \in Views
  BY FormattedShows
<1> HIDE DEF m
<1>2. t.layout \in Views
  BY <1>1, TowardsShows
<1>3. GoodRows(t.layout.rows) /\ Marked(t.layout.rows)
  BY <1>2, ViewsAreLayouts, LayoutFacts
<1> HIDE DEF t
<1>4. k \in Views
  BY <1>3, FormatShows, UpToShows
<1> HIDE DEF k
<1>5. n \in Int
  <2>1. k.view \in Seq(Row)
    BY <1>4, ViewsAreLayouts, LayoutFacts
  <2>2. DOMAIN k.view = 1..Len(k.view) /\ Len(k.view) \in Nat
    BY <2>1
  <2>3. IsFiniteSet(1..Len(k.view))
    BY <2>2, FS_Interval
  <2>4. {i \in DOMAIN k.view : k.view[i].end <= p} \subseteq 1..Len(k.view)
    BY <2>2
  <2>5. IsFiniteSet({i \in DOMAIN k.view : k.view[i].end <= p})
    BY <2>3, <2>4, FS_Subset
  <2>6. QED
    BY <2>5, FS_CardinalityType
<1> HIDE DEF n
<1>6. Placed(k, p) \in Views
  BY <1>4, <1>5, DownmostShows, CenteredShows DEF Placed, n
<1>7. JumpedTo(t, p) \in Views
  BY <1>2, <1>6 DEF JumpedTo, k
<1>8. MovedTo(m, p) \in Views
  BY <1>1, <1>7 DEF MovedTo, t
<1>9. QED
  BY <1>8 DEF ScrolledTo, m

-----------------------------------------------------------------------------
(* Readers: the text, the markers and what is shown of them stay.          *)
LEMMA RowStays ==
  ASSUME NEW r \in Row, ShowsText(r), text' = text, length' = length, kind' = kind,
         kind = "Sticky" =>
           \A i \in 1..Len(r.cells) :
             ColorOf(markers', r.start + i - 1) = ColorOf(markers, r.start + i - 1)
  PROVE  ShowsText(r)'
<1>1. /\ r.start < r.end /\ r.start + Len(r.cells) <= length
      /\ \A i \in 1..Len(r.cells) :
           r.cells[i][1] = text[r.start + i] /\ text[r.start + i] # Newline
      /\ kind = "Sticky" =>
           \A i \in 1..Len(r.cells) : r.cells[i][2] = ColorOf(markers, r.start + i - 1)
  BY DEF ShowsText
<1>2. kind = "Sticky" =>
        \A i \in 1..Len(r.cells) : r.cells[i][2] = ColorOf(markers', r.start + i - 1)
  BY <1>1
<1>3. QED
  BY <1>1, <1>2 DEF ShowsText

LEMMA ShownStays ==
  ASSUME BufferOK, NEW l \in Layouts, ShowOf(l)
  PROVE  LayoutInv'
<1>1. /\ rows' = l.rows /\ view' = l.view /\ viewStart' = l.start /\ cacheSize' = size
      /\ kind' = kind /\ length' = length /\ markers' = markers /\ text' = text
      /\ size' = size /\ notified' = notified
  BY DEF ShowOf, Show, vars
<1>2. /\ GoodRows(l.rows) /\ GoodView(l.rows, l.view, l.start) /\ l.start \in 0..length
      /\ l.rows \subseteq Row
  BY LayoutFacts DEF GoodRows
<1>3. BufferOK'
  BY <1>1 DEF BufferOK, MarkersApart, TypeOK
<1>4. \A r \in rows' : ShowsText(r)'
  <2>1. SUFFICES ASSUME NEW r \in rows' PROVE ShowsText(r)'
    OBVIOUS
  <2>2. r \in Row /\ ShowsText(r)
    BY <1>1, <1>2, <2>1 DEF GoodRows
  <2>3. QED
    BY <1>1, <2>2, RowStays
<1>5. GoodRows(rows)'
  <2>1. rows' \subseteq Row /\ RowsApart(rows') /\ Led(rows')
    BY <1>1, <1>2 DEF GoodRows
  <2>2. QED
    BY <1>4, <2>1 DEF GoodRows, RowsApart, Led
<1>6. GoodView(rows, view, viewStart)'
  BY <1>1, <1>2 DEF GoodView, Stretch, FullView
<1>7. QED
  BY <1>1, <1>2, <1>3, <1>5, <1>6 DEF LayoutInv

(* Fewer rows, of which none has lost the row that leads it.               *)
LEMMA FewerGood ==
  ASSUME NEW rs, GoodRows(rs), NEW some \in SUBSET rs, Led(some)
  PROVE  GoodRows(some)
BY DEF GoodRows, RowsApart

LEMMA ValidatedGood ==
  ASSUME LayoutInv
  PROVE  GoodRows(Validated) /\ Marked(Validated) /\ Current \in Layouts
<1>1. GoodRows(Validated)
  <2>1. Validated = rows \/ (Validated \subseteq rows /\ \A r \in Validated : ~IsContinued(r))
    BY DEF Validated
  <2>2. Validated \subseteq rows /\ Led(Validated)
    BY <2>1 DEF Led, LayoutInv, GoodRows
  <2>3. QED
    BY <2>2, FewerGood DEF LayoutInv
<1>2. GoodView(Validated, view, viewStart)
  <2>1. CASE view = << >>
    BY <2>1 DEF GoodView, Stretch
  <2>2. CASE view # << >>
    <3>1. Validated = rows
      BY <2>2 DEF LayoutInv, Validated
    <3>2. QED
      BY <3>1 DEF LayoutInv
  <2>3. QED
    BY <2>1, <2>2
<1>3. Marked(Validated)
  BY DEF Marked, EndsMarked
<1>4. Current \in Layouts
  BY <1>1, <1>2, <1>3, ShownLayout DEF Current, LayoutInv
<1>5. QED
  BY <1>1, <1>3, <1>4

LEMMA LineComputed ==
  ASSUME LayoutInv, NEW p \in 0..length, ComputeLine(p)
  PROVE  LayoutInv'
<1> DEFINE rs == IF FindLine(Validated, p) = {} THEN RowsUpTo(Validated, p).rows
                 ELSE Validated
           l == [rows |-> rs, view |-> view, start |-> viewStart, did |-> FALSE]
<1>1. GoodRows(rs) /\ Marked(rs) /\ Validated \subseteq rs
  <2>1. BufferOK /\ GoodRows(Validated) /\ Marked(Validated)
    BY ValidatedGood DEF LayoutInv
  <2>2. RowsUpTo(Validated, p) \in Formatters(Validated)
    BY <2>1, RowsReached DEF Reached
  <2>3. /\ GoodRows(RowsUpTo(Validated, p).rows) /\ Marked(RowsUpTo(Validated, p).rows)
        /\ Validated \subseteq RowsUpTo(Validated, p).rows
    BY <2>2, FormatterFacts
  <2>4. QED
    BY <2>1, <2>3
<1>2. GoodView(rs, view, viewStart)
  <2>1. GoodView(Validated, view, viewStart)
    <3>1. Current \in Layouts /\ BufferOK
      BY ValidatedGood DEF LayoutInv
    <3>2. Current.rows = Validated /\ Current.view = view /\ Current.start = viewStart
      BY DEF Current, Shown
    <3>3. QED
      BY <3>1, <3>2, LayoutFacts
  <2>2. QED
    BY <1>1, <2>1, MoreRows DEF GoodView
<1>3. ComputeLine(p) => Show(rs, view, viewStart)
  BY DEF ComputeLine
<1> HIDE DEF rs
<1>4. l \in Layouts
  BY <1>1, <1>2, ShownLayout DEF Shown, LayoutInv
<1>5. ShowOf(l)
  BY <1>3 DEF ShowOf
<1>6. QED
  BY <1>4, <1>5, ShownStays DEF LayoutInv

LEMMA ReaderShows ==
  ASSUME LayoutInv,
         FormatIfNeeded \/ ScrollDown \/ ScrollUp \/ \E p \in 0..length : ScrollToPosition(p)
  PROVE  LayoutInv'
<1>1. BufferOK /\ Current \in Layouts
  BY ValidatedGood DEF LayoutInv
<1>2. /\ Formatted(Current) \in Layouts
      /\ ScrolledDown(Current) \in Layouts /\ ScrolledUp(Current) \in Layouts
      /\ \A p \in 0..length : ScrolledTo(Current, p) \in Layouts
  BY <1>1, FormattedShows, ScrollShows, ScrolledToShows, ViewsAreLayouts
<1>3. QED
  BY <1>1, <1>2, ShownStays DEF FormatIfNeeded, ScrollDown, ScrollUp, ScrollToPosition

LEMMA ViewResized ==
  ASSUME LayoutInv, NEW new \in Sizes, Resize(new)
  PROVE  LayoutInv'
<1>1. /\ rows' = rows /\ view' = << >> /\ viewStart' = viewStart /\ size' = new
      /\ kind' = kind /\ length' = length /\ markers' = markers /\ text' = text
      /\ notified' = notified
  BY DEF Resize, vars
<1>2. GoodRows(rows) /\ rows \subseteq Row
  BY DEF LayoutInv, GoodRows
<1>3. BufferOK'
  BY <1>1 DEF LayoutInv, BufferOK, MarkersApart, TypeOK
<1>4. \A r \in rows' : ShowsText(r)'
  <2>1. SUFFICES ASSUME NEW r \in rows' PROVE ShowsText(r)'
    OBVIOUS
  <2>2. r \in Row /\ ShowsText(r)
    BY <1>1, <1>2, <2>1 DEF GoodRows
  <2>3. QED
    BY <1>1, <2>2, RowStays
<1>5. GoodRows(rows)'
  BY <1>1, <1>2, <1>4 DEF GoodRows, RowsApart, Led
<1>6. GoodView(rows, view, viewStart)'
  BY <1>1 DEF GoodView, Stretch
<1>7. QED
  BY <1>1, <1>3, <1>5, <1>6 DEF LayoutInv

-----------------------------------------------------------------------------
(* Edits: rows in front of the edit keep their place, rows of later lines  *)
(* move with the text, and no row is kept without the row that leads it.   *)
Kept(ks, a, c) ==
  \A r \in ks : \/ r.end <= a
                \/ r.start >= c /\ \E w \in ks : /\ ~IsContinued(w) /\ w.start >= c
                                                 /\ w.start <= r.start

LEMMA RemovedRows ==
  ASSUME BufferOK, NEW rs, GoodRows(rs), NEW a \in Nat, NEW c \in Nat, a <= c
  PROVE  /\ GoodRows(RemoveRows(rs, a, c)) /\ Kept(RemoveRows(rs, a, c), a, c)
         /\ RemoveRows(rs, a, c) \subseteq rs
<1> DEFINE rest == {r \in rs : r.end > a /\ r.start >= c}
           late == {r \in rest : \E s \in rest : s.end <= r.end /\ ~IsContinued(s)}
           ks == {r \in rs : r.end <= a} \cup late
<1>1. RemoveRows(rs, a, c) = ks
  BY DEF RemoveRows
<1>2. \A r \in rs : r.start \in Nat /\ r.end \in Nat /\ r.start < r.end
  BY GoodRow
<1>3. ASSUME NEW r \in late
      PROVE  \E w \in late : /\ ~IsContinued(w) /\ w.start >= c /\ w.end <= r.end
                             /\ w.start <= r.start
  <2>1. PICK w \in rest : w.end <= r.end /\ ~IsContinued(w)
    OBVIOUS
  <2>2. w \in late /\ w.start >= c
    BY <1>2, <2>1
  <2>3. w.start <= r.start
    <3>1. w = r \/ w.end <= r.start \/ r.end <= w.start
      BY Disjoint
    <3>2. r \in rs /\ w \in rs
      OBVIOUS
    <3> HIDE DEF rest, late
    <3>3. QED
      BY <1>2, <2>1, <3>1, <3>2
  <2>4. QED
    BY <2>1, <2>2, <2>3
<1>4. Led(ks)
  <2>1. SUFFICES ASSUME NEW r \in ks, IsContinued(r)
                 PROVE  \E s \in ks : s.end = r.start
    BY DEF Led
  <2>2. PICK s \in rs : s.end = r.start
    BY <2>1 DEF GoodRows, Led
  <2>3. CASE r.end <= a
    <3>1. s.end <= a
      BY <1>2, <2>2, <2>3
    <3>2. QED
      BY <2>2, <3>1
  <2>4. CASE r \in late
    <3>1. PICK w \in rest : w.end <= r.end /\ ~IsContinued(w)
      BY <2>4
    <3>2. w # r /\ w \in rs /\ r \in rs
      BY <2>1, <3>1
    <3>3. w = s \/ w.end <= s.start \/ s.end <= w.start
      BY <3>2, Disjoint
    <3>4. w.end <= r.start \/ r.end <= w.start
      BY <3>2, Disjoint
    <3>5. w.start >= c /\ w.end > a
      BY <3>1
    <3> HIDE DEF rest, late
    <3>6. w.end <= r.start
      BY <1>2, <3>1, <3>2, <3>4
    <3>7. w.end <= s.end /\ (w = s \/ w.end <= s.start)
      BY <1>2, <2>2, <3>2, <3>3, <3>6
    <3>8. s.end > a /\ s.start >= c
      BY <1>2, <3>2, <3>5, <3>7
    <3>9. s \in late
      BY <3>1, <3>7, <3>8 DEF rest, late
    <3>10. QED
      BY <2>2, <3>9
  <2>5. QED
    BY <2>1, <2>3, <2>4
<1>5. GoodRows(ks)
  BY <1>4, FewerGood
<1>6. Kept(ks, a, c)
  <2>1. SUFFICES ASSUME NEW r \in ks, ~(r.end <= a)
                 PROVE  r.start >= c /\ \E w \in ks : /\ ~IsContinued(w) /\ w.start >= c
                                                      /\ w.start <= r.start
    BY DEF Kept
  <2>2. r \in late
    BY <2>1
  <2>3. QED
    BY <1>3, <2>2
<1>7. QED
  BY <1>1, <1>5, <1>6

(* What an edit leaves of the text: the characters up to a stay, those     *)
(* behind b move by d, and so do their sticky colors.                      *)
Edited(a, b, d) ==
  /\ length' = length + d /\ a <= length' /\ a <= b /\ b <= length /\ a <= b + d
  /\ kind' = kind
  /\ \A k \in 1..a : text'[k] = text[k]
  /\ \A k \in (b + 1)..length : text'[k + d] = text[k]
  /\ kind = "Sticky" =>
       /\ \A q \in 0..(a - 1) : ColorOf(markers', q) = ColorOf(markers, q)
       /\ \A q \in b..(length - 1) : ColorOf(markers', q + d) = ColorOf(markers, q)

Moved(r, d) ==
  [line |-> r.line + d, start |-> r.start + d, cells |-> r.cells, end |-> r.end + d,
   box |-> r.box]

LEMMA SameStart ==
  ASSUME NEW t, NEW u, NEW p \in Nat, \A k \in 1..p : u[k] = t[k]
  PROVE  LineStart(u, p) = LineStart(t, p)
<1>1. {k \in 1..p : u[k] = Newline} = {k \in 1..p : t[k] = Newline}
  OBVIOUS
<1>2. QED
  BY <1>1 DEF LineStart

LEMMA RowInFront ==
  ASSUME BufferOK, NEW rs, GoodRows(rs), NEW r \in rs,
         NEW a \in Nat, NEW b \in Nat, NEW d \in Int, Edited(a, b, d), r.end <= a
  PROVE  ShowsText(r)'
<1> DEFINE n == Len(r.cells)
           after == r.start + n
<1>1. /\ r.line \in Nat /\ r.start \in Nat /\ r.end \in Nat /\ n \in Nat
      /\ r.start < r.end /\ after <= r.end /\ r.end <= after + 1 /\ ShowsText(r)
      /\ r.line = LineStart(text, r.start) /\ length \in Nat
  BY GoodRow, BufferFacts
<1>2. /\ length' = length + d /\ a <= length' /\ a <= b /\ b <= length /\ a <= b + d /\ kind' = kind
      /\ \A k \in 1..a : text'[k] = text[k]
      /\ kind = "Sticky" =>
           \A q \in 0..(a - 1) : ColorOf(markers', q) = ColorOf(markers, q)
  BY DEF Edited
<1>3. /\ \A i \in 1..n : r.cells[i][1] = text[r.start + i] /\ text[r.start + i] # Newline
      /\ kind = "Sticky" =>
           \A i \in 1..n : r.cells[i][2] = ColorOf(markers, r.start + i - 1)
      /\ r.box = "EndOfLine" => after < length /\ r.end = after + 1 /\ text[r.end] = Newline
      /\ r.box = "EndOfDocument" => after = length /\ r.end = length + 1
      /\ r.box = "LineWrap" => r.end = after
  BY <1>1 DEF ShowsText
<1> HIDE DEF n
<1>4. ASSUME NEW i \in 1..n
      PROVE  r.start + i \in 1..a /\ r.start + i - 1 \in 0..(a - 1)
  BY <1>1
<1>5. \A i \in 1..n : r.cells[i][1] = text'[r.start + i] /\ text'[r.start + i] # Newline
  BY <1>2, <1>3, <1>4
<1>6. kind' = "Sticky" => \A i \in 1..n : r.cells[i][2] = ColorOf(markers', r.start + i - 1)
  BY <1>2, <1>3, <1>4
<1>7. after <= length' /\ r.end \in 1..a
  BY <1>1, <1>2
<1>8. r.box = "EndOfLine" => after < length' /\ r.end = after + 1 /\ text'[r.end] = Newline
  BY <1>1, <1>2, <1>3, <1>7
<1>9. r.line = LineStart(text', r.start)
  <2>1. \A k \in 1..r.start : k \in 1..a
    BY <1>1
  <2>2. \A k \in 1..r.start : text'[k] = text[k]
    BY <1>2, <2>1
  <2>3. QED
    BY <1>1, <2>2, SameStart
<1>10. r.box # "EndOfDocument"
  <2>1. r.end <= length
    BY <1>1, <1>2, <1>7
  <2>2. QED
    BY <1>1, <1>3, <2>1
<1>11. QED
  BY <1>1, <1>3, <1>5, <1>6, <1>7, <1>8, <1>9, <1>10 DEF ShowsText, n

LEMMA MovedRow ==
  ASSUME NEW r \in Row, NEW d \in Int, r.line + d \in Nat, r.start + d \in Nat, r.end + d \in Nat
  PROVE  /\ Moved(r, d) \in Row
         /\ Moved(r, d).line = r.line + d /\ Moved(r, d).start = r.start + d
         /\ Moved(r, d).end = r.end + d /\ Moved(r, d).cells = r.cells
         /\ Moved(r, d).box = r.box
         /\ [r EXCEPT !.line = @ + d, !.start = @ + d, !.end = @ + d] = Moved(r, d)
<1>1. /\ r.line \in Nat /\ r.start \in Nat /\ r.end \in Nat /\ r.cells \in Seq(Char \X Color)
      /\ r.box \in {"LineWrap", "EndOfLine", "EndOfDocument"}
  BY RowFields
<1>2. [r EXCEPT !.line = @ + d, !.start = @ + d, !.end = @ + d] = Moved(r, d)
  <2> DEFINE e == [r EXCEPT !.line = @ + d, !.start = @ + d, !.end = @ + d]
  <2>1. /\ e \in Row /\ e.line = r.line + d /\ e.start = r.start + d /\ e.end = r.end + d
        /\ e.cells = r.cells /\ e.box = r.box
    BY <1>1 DEF Row
  <2> HIDE DEF e
  <2>2. e = [line |-> e.line, start |-> e.start, cells |-> e.cells, end |-> e.end,
             box |-> e.box]
    BY <2>1 DEF Row
  <2>3. e = Moved(r, d)
    BY <2>1, <2>2 DEF Moved
  <2>4. QED
    BY <2>3 DEF e
<1>3. QED
  BY <1>1, <1>2 DEF Row, Moved

(* The start of the line of a row that a kept row leads is behind b, where *)
(* there is a newline before and after.                                    *)
LEMMA LineMoves ==
  ASSUME BufferOK, NEW p \in 0..length, NEW a \in Nat, NEW b \in Nat, NEW d \in Int,
         Edited(a, b, d), NEW w \in (b + 1)..p, text[w] = Newline
  PROVE  /\ LineStart(text', p + d) = LineStart(text, p) + d
         /\ LineStart(text, p) \in (b + 1)..p
<1> DEFINE l == LineStart(text, p)
<1>1. length \in Nat
  BY BufferFacts
<1>2. /\ length' = length + d /\ b <= length /\ a <= b + d
      /\ \A k \in (b + 1)..length : text'[k + d] = text[k]
  BY DEF Edited
<1>3. /\ l \in 0..p /\ (l # 0 => text[l] = Newline)
      /\ \A k \in 1..p : text[k] = Newline => k <= l
  BY StartOfLine
<1> HIDE DEF l
<1>4. w \in 1..p
  OBVIOUS
<1>5. w <= l
  BY <1>3, <1>4
<1>6. l \in (b + 1)..p
  BY <1>3, <1>5
<1>7. text[l] = Newline /\ l \in (b + 1)..length
  BY <1>1, <1>3, <1>6
<1>8. text'[l + d] = Newline
  BY <1>2, <1>7
<1>9. p + d \in Nat /\ l + d \in 0..(p + d)
  BY <1>1, <1>2, <1>6
<1>10. ASSUME NEW k \in (l + d + 1)..(p + d)
       PROVE  text'[k] # Newline
  <2>1. k - d \in (b + 1)..length /\ k - d \in 1..p /\ ~(k - d <= l) /\ (k - d) + d = k
    BY <1>1, <1>6
  <2>2. text'[k] = text[k - d]
    BY <1>2, <2>1
  <2>3. QED
    BY <1>3, <2>1, <2>2
<1> DEFINE m == l + d
           q == p + d
<1>11. q \in Nat /\ m \in 0..q /\ (m # 0 => text'[m] = Newline)
       /\ \A k \in (m + 1)..q : text'[k] # Newline
  BY <1>8, <1>9, <1>10
<1> HIDE DEF m, q
<1>12. LineStart(text', q) = m
  BY <1>11, LineStartIs
<1>13. QED
  BY <1>6, <1>12 DEF m, q, l

(* A row that shows the text where it has moved to.                        *)
MovesWell(r, d) ==
  /\ Moved(r, d) \in Row /\ ShowsText(Moved(r, d))'
  /\ Moved(r, d).line = r.line + d /\ Moved(r, d).start = r.start + d
  /\ Moved(r, d).end = r.end + d
  /\ [r EXCEPT !.line = @ + d, !.start = @ + d, !.end = @ + d] = Moved(r, d)

LEMMA RowBehind ==
  ASSUME BufferOK, NEW rs, GoodRows(rs), NEW r \in rs,
         NEW a \in Nat, NEW b \in Nat, NEW d \in Int, Edited(a, b, d),
         NEW w \in (b + 1)..r.start, text[w] = Newline
  PROVE  MovesWell(r, d)
<1> DEFINE n == Len(r.cells)
           after == r.start + n
           m == Moved(r, d)
<1>1. /\ r.line \in Nat /\ r.start \in Nat /\ r.end \in Nat /\ n \in Nat
      /\ r.start < r.end /\ after <= r.end /\ r.end <= after + 1 /\ ShowsText(r)
      /\ r.line = LineStart(text, r.start) /\ length \in Nat /\ after <= length /\ r \in Row
  BY GoodRow, BufferFacts
<1>2. /\ length' = length + d /\ a <= length' /\ b <= length /\ a <= b + d /\ kind' = kind
      /\ \A k \in (b + 1)..length : text'[k + d] = text[k]
      /\ kind = "Sticky" =>
           \A q \in b..(length - 1) : ColorOf(markers', q + d) = ColorOf(markers, q)
  BY DEF Edited
<1>3. /\ \A i \in 1..n : r.cells[i][1] = text[r.start + i] /\ text[r.start + i] # Newline
      /\ kind = "Sticky" =>
           \A i \in 1..n : r.cells[i][2] = ColorOf(markers, r.start + i - 1)
      /\ r.box = "EndOfLine" => after < length /\ r.end = after + 1 /\ text[r.end] = Newline
      /\ r.box = "EndOfDocument" => after = length /\ r.end = length + 1
      /\ r.box = "LineWrap" => r.end = after
  BY <1>1 DEF ShowsText
<1> HIDE DEF n
<1>4. r.start \in 0..length
  BY <1>1
<1>5. r.line \in (b + 1)..r.start /\ LineStart(text', r.start + d) = r.line + d
  BY <1>1, <1>4, LineMoves
<1>6. /\ m \in Row /\ m.line = r.line + d /\ m.start = r.start + d /\ m.end = r.end + d
      /\ m.cells = r.cells /\ m.box = r.box
      /\ [r EXCEPT !.line = @ + d, !.start = @ + d, !.end = @ + d] = m
  <2>1. r.line + d \in Nat /\ r.start + d \in Nat /\ r.end + d \in Nat
    BY <1>1, <1>2, <1>5
  <2>2. QED
    BY <1>1, <2>1, MovedRow
<1> HIDE DEF m
<1>7. ASSUME NEW i \in 1..n
      PROVE  /\ r.cells[i][1] = text'[r.start + d + i] /\ text'[r.start + d + i] # Newline
             /\ kind' = "Sticky" => r.cells[i][2] = ColorOf(markers', r.start + d + i - 1)
  <2> DEFINE k == r.start + i
             q == r.start + i - 1
  <2>1. k \in (b + 1)..length /\ q \in b..(length - 1)
    BY <1>1
  <2>2. k + d = r.start + d + i /\ q + d = r.start + d + i - 1
    BY <1>1
  <2>3. /\ r.cells[i][1] = text[k] /\ text[k] # Newline
        /\ kind = "Sticky" => r.cells[i][2] = ColorOf(markers, q)
    BY <1>3
  <2> HIDE DEF k, q
  <2>4. text'[k + d] = text[k]
        /\ (kind = "Sticky" => ColorOf(markers', q + d) = ColorOf(markers, q))
    BY <1>2, <2>1
  <2>5. QED
    BY <1>2, <2>2, <2>3, <2>4
<1>8. ASSUME r.box = "EndOfLine"
      PROVE  after + d < length' /\ r.end + d = after + d + 1 /\ text'[r.end + d] = Newline
  <2>1. after < length /\ r.end = after + 1 /\ text[r.end] = Newline
    BY <1>3, <1>8
  <2>2. r.end \in (b + 1)..length
    BY <1>1, <2>1
  <2>3. text'[r.end + d] = text[r.end]
    BY <1>2, <2>2
  <2>4. QED
    BY <1>1, <1>2, <2>1, <2>3
<1> DEFINE from == r.start + d
           past == r.start + d + n
<1>9. /\ m.start < m.end /\ past <= length'
      /\ m.box = "EndOfLine" => past < length' /\ m.end = past + 1 /\ text'[m.end] = Newline
      /\ m.box = "EndOfDocument" => past = length' /\ m.end = length' + 1
      /\ m.box = "LineWrap" => m.end = past
      /\ m.line = LineStart(text', from)
  <2>1. past = after + d
    BY <1>1
  <2>2. m.start < m.end /\ past <= length'
    BY <1>1, <1>2, <1>6, <2>1
  <2>3. m.box = "EndOfLine" => past < length' /\ m.end = past + 1 /\ text'[m.end] = Newline
    BY <1>1, <1>6, <1>8, <2>1
  <2>4. m.box = "EndOfDocument" => past = length' /\ m.end = length' + 1
    BY <1>1, <1>2, <1>3, <1>6, <2>1
  <2>5. m.box = "LineWrap" => m.end = past
    BY <1>3, <1>6, <2>1
  <2>6. QED
    BY <1>5, <1>6, <2>2, <2>3, <2>4, <2>5
<1>10. /\ Len(m.cells) = n /\ m.start = from
       /\ \A i \in 1..n :
            /\ m.cells[i][1] = text'[from + i] /\ text'[from + i] # Newline
            /\ kind' = "Sticky" => m.cells[i][2] = ColorOf(markers', from + i - 1)
  BY <1>6, <1>7 DEF n
<1>11. from + n = past
  OBVIOUS
<1> HIDE DEF from, past, after
<1>12. ShowsText(m)'
  <2>1. /\ m.start < m.end /\ m.start + Len(m.cells) <= length'
        /\ \A i \in 1..Len(m.cells) :
             m.cells[i][1] = text'[m.start + i] /\ text'[m.start + i] # Newline
        /\ kind' = "Sticky" =>
             \A i \in 1..Len(m.cells) : m.cells[i][2] = ColorOf(markers', m.start + i - 1)
    BY <1>9, <1>10, <1>11
  <2>2. /\ m.box = "EndOfLine" => /\ m.start + Len(m.cells) < length'
                                  /\ m.end = m.start + Len(m.cells) + 1
                                  /\ text'[m.end] = Newline
        /\ m.box = "EndOfDocument" => /\ m.start + Len(m.cells) = length'
                                      /\ m.end = length' + 1
        /\ m.box = "LineWrap" => m.end = m.start + Len(m.cells)
        /\ m.line = LineStart(text', m.start)
    BY <1>9, <1>10, <1>11
  <2>3. QED
    BY <2>1, <2>2 DEF ShowsText
<1>13. QED
  BY <1>6, <1>12 DEF m, MovesWell

(* The cache after an edit: what RemoveRows leaves, relocated from p on.   *)
LEMMA RowsAfterEdit ==
  ASSUME BufferOK, NEW rs, GoodRows(rs),
         NEW a \in Nat, NEW b \in Nat, NEW c \in Nat, NEW p \in Nat, NEW d \in Int,
         b < c, a <= p, p <= c, Edited(a, b, d)
  PROVE  LET new == Relocate(RemoveRows(rs, a, c), p, d)
         IN  /\ new \subseteq Row /\ \A r \in new : ShowsText(r)'
             /\ RowsApart(new) /\ Led(new)
<1> DEFINE ks == RemoveRows(rs, a, c)
           Shift(r) == [r EXCEPT !.line = @ + d, !.start = @ + d, !.end = @ + d]
           front == {r \in ks : r.end <= p}
           back == {r \in ks : r.end > p}
           new == front \cup {Shift(r) : r \in back}
<1>1. Relocate(ks, p, d) = new
  BY DEF Relocate
<1>2. length \in Nat /\ a <= b
      /\ length' = length + d /\ a <= length' /\ b <= length /\ a <= b + d
  BY BufferFacts DEF Edited
<1>3. GoodRows(ks) /\ Kept(ks, a, c)
  BY <1>2, RemovedRows
<1> HIDE DEF ks
<1>4. ASSUME NEW r \in ks
      PROVE  /\ r \in Row /\ r.line \in Nat /\ r.start \in Nat /\ r.end \in Nat
             /\ r.start < r.end /\ r.line = LineStart(text, r.start) /\ r.start <= length
  BY <1>2, <1>3, GoodRow
<1>5. ASSUME NEW r \in front
      PROVE  r \in ks /\ r.end <= a /\ ShowsText(r)'
  <2>1. r \in ks /\ r.end <= p
    OBVIOUS
  <2> HIDE DEF front
  <2>2. r.end <= a
    BY <1>3, <1>4, <2>1 DEF Kept
  <2>3. QED
    BY <1>3, <2>1, <2>2, RowInFront
<1>6. ASSUME NEW r \in back
      PROVE  /\ r \in ks /\ r.start >= c /\ Shift(r) = Moved(r, d)
             /\ Moved(r, d) \in Row /\ ShowsText(Moved(r, d))'
             /\ Moved(r, d).line = r.line + d /\ Moved(r, d).start = r.start + d
             /\ Moved(r, d).end = r.end + d
  <2>1. r \in ks /\ r.end > p
    OBVIOUS
  <2> HIDE DEF back
  <2>2. PICK w \in ks : ~IsContinued(w) /\ w.start >= c /\ w.start <= r.start
    BY <1>3, <1>4, <2>1 DEF Kept
  <2>3. r.start >= c
    BY <1>4, <2>1, <2>2
  <2>4. w.start \in (b + 1)..r.start /\ text[w.start] = Newline
    <3>1. w.start = LineStart(text, w.start) /\ w.start # 0
      BY <1>4, <2>2 DEF IsContinued
    <3>2. text[w.start] = Newline
      BY <1>4, <3>1, LineBegins
    <3>3. QED
      BY <1>4, <2>1, <2>2, <3>2
  <2> DEFINE s == w.start
  <2>5. s \in (b + 1)..r.start /\ text[s] = Newline
    BY <2>4
  <2> HIDE DEF s
  <2>6. MovesWell(r, d)
    BY <1>3, <2>1, <2>5, RowBehind
  <2>7. Shift(r) = Moved(r, d)
    BY <2>6 DEF MovesWell
  <2> HIDE DEF Shift
  <2>8. QED
    BY <2>1, <2>3, <2>6, <2>7 DEF MovesWell
<1> HIDE DEF Shift, front, back
<1>7. new = front \cup {Moved(r, d) : r \in back}
  <2>1. {Shift(r) : r \in back} = {Moved(r, d) : r \in back}
    BY <1>6, Zenon
  <2>2. QED
    BY <2>1
<1> HIDE DEF new
<1>8. ASSUME NEW x \in new
      PROVE  x \in Row /\ ShowsText(x)'
  BY <1>4, <1>5, <1>6, <1>7
<1>9. RowsApart(new)
  <2>1. SUFFICES ASSUME NEW x \in new, NEW y \in new, x # y
                 PROVE  x.end <= y.start \/ y.end <= x.start
    BY DEF RowsApart
  <2>2. ASSUME NEW r \in front, NEW s \in back
        PROVE  r.end <= Moved(s, d).start
    <3>1. r.end <= a /\ s.start >= c /\ Moved(s, d).start = s.start + d
      BY <1>5, <1>6
    <3>2. r.end \in Nat /\ s.start \in Nat
      BY <1>4, <1>5, <1>6
    <3>3. QED
      BY <1>2, <3>1, <3>2
  <2>3. CASE x \in front /\ y \in front
    BY <1>3, <1>5, <2>1, <2>3, Disjoint
  <2>4. CASE x \in front /\ \E s \in back : y = Moved(s, d)
    BY <2>2, <2>4
  <2>5. CASE y \in front /\ \E s \in back : x = Moved(s, d)
    BY <2>2, <2>5
  <2>6. CASE (\E r \in back : x = Moved(r, d)) /\ \E s \in back : y = Moved(s, d)
    <3>1. PICK r \in back : x = Moved(r, d)
      BY <2>6
    <3>2. PICK s \in back : y = Moved(s, d)
      BY <2>6
    <3>3. r # s /\ r \in ks /\ s \in ks
      BY <1>6, <2>1, <3>1, <3>2
    <3>4. r.end <= s.start \/ s.end <= r.start
      BY <1>3, <3>3, Disjoint
    <3>5. x.start = r.start + d /\ x.end = r.end + d /\ y.start = s.start + d /\ y.end = s.end + d
      BY <1>6, <3>1, <3>2
    <3>6. QED
      BY <1>4, <3>3, <3>4, <3>5
  <2>7. (x \in front \/ \E r \in back : x = Moved(r, d))
        /\ (y \in front \/ \E s \in back : y = Moved(s, d))
    BY <1>7
  <2>8. QED
    BY <2>3, <2>4, <2>5, <2>6, <2>7
<1>10. Led(new)
  <2>1. SUFFICES ASSUME NEW x \in new, IsContinued(x)
                 PROVE  \E y \in new : y.end = x.start
    BY DEF Led
  <2>2. CASE x \in front
    <3>1. PICK s \in ks : s.end = x.start
      BY <1>3, <1>5, <2>1, <2>2 DEF GoodRows, Led
    <3>2. s \in front
      BY <1>4, <1>5, <2>2, <3>1 DEF front
    <3>3. QED
      BY <1>7, <3>1, <3>2
  <2>3. CASE \E r \in back : x = Moved(r, d)
    <3>1. PICK r \in back : x = Moved(r, d)
      BY <2>3
    <3>2. /\ r \in ks /\ r.start >= c /\ x.start = r.start + d /\ x.line = r.line + d
          /\ r.line \in Nat /\ r.start \in Nat
      BY <1>4, <1>6, <3>1
    <3>3. IsContinued(r)
      BY <2>1, <3>2 DEF IsContinued
    <3>4. PICK s \in ks : s.end = r.start
      BY <1>3, <3>2, <3>3 DEF GoodRows, Led
    <3>5. s \in back
      <4>1. ~(s.end <= a)
        BY <1>2, <1>4, <3>2, <3>4
      <4>2. s.start >= c
        BY <1>3, <4>1 DEF Kept
      <4>3. s.end > p
        BY <1>4, <4>2
      <4>4. QED
        BY <4>3 DEF back
    <3>6. Moved(s, d).end = x.start
      BY <1>4, <1>6, <3>2, <3>4, <3>5
    <3>7. QED
      BY <1>7, <3>5, <3>6
  <2>4. QED
    BY <1>7, <2>2, <2>3
<1>11. QED
  BY <1>1, <1>8, <1>9, <1>10 DEF ks

(* What the cache and the view are after an edit.                          *)
LEMMA EditShows ==
  ASSUME LayoutInv,
         NEW a \in Nat, NEW b \in Nat, NEW c \in Nat, NEW p \in Nat, NEW d \in Int,
         NEW start, b < c, a <= p, p <= c, Edited(a, b, d), BufferOK', start \in 0..length',
         Observe(Relocate(RemoveRows(rows, a, c), p, d), start)
  PROVE  LayoutInv'
<1> DEFINE new == Relocate(RemoveRows(rows, a, c), p, d)
<1>1. BufferOK /\ GoodRows(rows)
  BY DEF LayoutInv
<1>2. /\ new \subseteq Row /\ \A r \in new : ShowsText(r)'
      /\ RowsApart(new) /\ Led(new)
  BY <1>1, RowsAfterEdit
<1>3. rows' = new /\ view' = << >> /\ viewStart' = start
  BY DEF Observe
<1> HIDE DEF new
<1>4. GoodRows(rows)'
  BY <1>2, <1>3 DEF GoodRows, RowsApart, Led
<1>5. GoodView(rows, view, viewStart)'
  BY <1>3 DEF GoodView, Stretch
<1>6. QED
  BY <1>3, <1>4, <1>5 DEF LayoutInv

LEMMA RemovedText ==
  ASSUME NEW t \in Seq(Char), NEW start \in 0..Len(t), NEW end \in 0..Len(t), start < end
  PROVE  /\ Removed(t, start, end) \in Seq(Char)
         /\ Len(Removed(t, start, end)) = Len(t) - (end - start)
         /\ \A i \in 1..(Len(t) - (end - start)) :
              Removed(t, start, end)[i] = IF i <= start THEN t[i] ELSE t[i + (end - start)]
<1> DEFINE n == Len(t)
           l == n - (end - start)
           u == [i \in 1..l |-> IF i <= start THEN t[i] ELSE t[i + (end - start)]]
<1>1. n \in Nat /\ l \in Nat /\ \A i \in 1..n : t[i] \in Char
  BY LenProperties, ElementOfSeq
<1> HIDE DEF n
<1>2. \A i \in 1..l : (IF i <= start THEN t[i] ELSE t[i + (end - start)]) \in Char
  <2>1. SUFFICES ASSUME NEW i \in 1..l
                 PROVE  (IF i <= start THEN t[i] ELSE t[i + (end - start)]) \in Char
    OBVIOUS
  <2>2. i <= start => i \in 1..n
    BY <1>1 DEF n
  <2>3. i + (end - start) \in 1..n
    BY <1>1 DEF n
  <2>4. QED
    BY <1>1, <2>2, <2>3
<1>3. u \in [1..l -> Char]
  BY <1>2
<1>4. u = Removed(t, start, end)
  BY DEF Removed, n
<1> HIDE DEF u, l
<1>5. u \in Seq(Char) /\ Len(u) = l
  BY <1>1, <1>3, SeqDef, LenProperties
<1>6. \A i \in 1..l : u[i] = IF i <= start THEN t[i] ELSE t[i + (end - start)]
  BY DEF u
<1>7. QED
  BY <1>4, <1>5, <1>6 DEF l, n

LEMMA InsertedText ==
  ASSUME NEW t \in Seq(Char), NEW p \in 0..Len(t), NEW s \in Seq(Char)
  PROVE  /\ Inserted(t, p, s) \in Seq(Char)
         /\ Len(Inserted(t, p, s)) = Len(t) + Len(s)
         /\ \A i \in 1..p : Inserted(t, p, s)[i] = t[i]
         /\ \A i \in (p + 1)..Len(t) : Inserted(t, p, s)[i + Len(s)] = t[i]
<1> DEFINE n == Len(t)
           k == Len(s)
           l == n + k
           At(i) == IF i <= p THEN t[i] ELSE IF i <= p + k THEN s[i - p] ELSE t[i - k]
           u == [i \in 1..l |-> At(i)]
<1>1. /\ n \in Nat /\ k \in Nat /\ l \in Nat /\ \A i \in 1..n : t[i] \in Char
      /\ \A i \in 1..k : s[i] \in Char
  BY LenProperties, ElementOfSeq
<1>2. p \in 0..n
  OBVIOUS
<1>3. u = Inserted(t, p, s)
  BY DEF Inserted
<1> HIDE DEF n, k
<1>4. \A i \in 1..l : At(i) \in Char
  <2>1. SUFFICES ASSUME NEW i \in 1..l PROVE At(i) \in Char
    OBVIOUS
  <2>2. (i <= p => i \in 1..n) /\ (i > p /\ i <= p + k => i - p \in 1..k)
        /\ (i > p + k => i - k \in 1..n)
    BY <1>1, <1>2
  <2>3. QED
    BY <1>1, <1>2, <2>2
<1>5. u \in [1..l -> Char]
  BY <1>4
<1>6. \A i \in 1..p : u[i] = t[i]
  BY <1>1, <1>2
<1>7. ASSUME NEW i \in (p + 1)..n
      PROVE  u[i + k] = t[i]
  <2>1. i + k \in 1..l /\ ~(i + k <= p) /\ ~(i + k <= p + k) /\ (i + k) - k = i
    BY <1>1, <1>2
  <2>2. QED
    BY <2>1
<1> HIDE DEF u, l
<1>8. u \in Seq(Char) /\ Len(u) = l
  BY <1>1, <1>5, SeqDef, LenProperties
<1>9. QED
  BY <1>3, <1>6, <1>7, <1>8 DEF l, n, k

LEMMA TextDeleted ==
  ASSUME LayoutInv, NEW start \in 0..length, NEW end \in 0..length, Delete(start, end)
  PROVE  LayoutInv'
<1> DEFINE d == start - end
           from == StartAfterDelete(start, end)
<1>1. /\ BufferOK /\ viewStart \in 0..length /\ length \in Nat /\ MarkersApart
      /\ Apart(markers, length) /\ text \in Seq(Char) /\ Len(text) = length
  BY BufferFacts DEF LayoutInv, BufferOK
<1>2. /\ start < end /\ length' = length - (end - start) /\ kind' = kind
      /\ markers' = AfterDelete(markers, start, end) /\ notified' = {}
      /\ text' = Removed(text, start, end) /\ size' = size
      /\ Observe(RowsAfterDelete(rows, start, end), from)
  BY DEF Delete, DidDeleteAt, Observe
<1>3. /\ text' \in Seq(Char) /\ Len(text') = length'
      /\ \A i \in 1..(length - (end - start)) :
           text'[i] = IF i <= start THEN text[i] ELSE text[i + (end - start)]
  BY <1>1, <1>2, RemovedText
<1>4. BufferOK'
  <2>1. DidDeleteAt(start, end)
    BY DEF Delete
  <2>2. MarkersApart'
    BY <1>1, <2>1, NextApart DEF Next
  <2>3. QED
    BY <1>1, <1>2, <1>3, <2>2 DEF BufferOK
<1>5. /\ kind = "Sticky" => \A q \in 0..(start - 1) : ColorOf(markers', q) = ColorOf(markers, q)
      /\ kind = "Sticky" =>
           \A q \in end..(length - 1) : ColorOf(markers', q + d) = ColorOf(markers, q)
  <2>1. kind = "Sticky" =>
          \A q \in Nat : ColorOf(markers', q) =
                           ColorOf(markers, IF q < start THEN q ELSE q + (end - start))
    BY <1>1, <1>2, StickyDeleteColor
  <2>2. ASSUME NEW q \in end..(length - 1)
        PROVE  q + d \in Nat /\ ~(q + d < start) /\ (q + d) + (end - start) = q
    BY <1>1
  <2>3. ASSUME NEW q \in 0..(start - 1)
        PROVE  q \in Nat /\ q < start
    OBVIOUS
  <2> HIDE DEF d
  <2>4. QED
    BY <2>1, <2>2, <2>3
<1>6. Edited(start, end, d)
  <2>1. /\ length' = length + d /\ start <= length' /\ start <= end /\ end <= length
        /\ start <= end + d
    BY <1>1, <1>2
  <2>2. \A k \in 1..start : text'[k] = text[k]
    <3>1. SUFFICES ASSUME NEW k \in 1..start PROVE text'[k] = text[k]
      OBVIOUS
    <3>2. k \in 1..(length - (end - start)) /\ k <= start
      BY <1>1, <1>2
    <3>3. QED
      BY <1>3, <3>2
  <2>3. \A k \in (end + 1)..length : text'[k + d] = text[k]
    <3>1. SUFFICES ASSUME NEW k \in (end + 1)..length PROVE text'[k + d] = text[k]
      OBVIOUS
    <3>2. k + d \in 1..(length - (end - start)) /\ ~(k + d <= start)
          /\ (k + d) + (end - start) = k
      BY <1>1, <1>2
    <3>3. QED
      BY <1>3, <3>2
  <2> HIDE DEF d
  <2>4. QED
    BY <1>2, <1>5, <2>1, <2>2, <2>3 DEF Edited
<1>7. from \in 0..length'
  BY <1>1, <1>2 DEF StartAfterDelete
<1>8. RowsAfterDelete(rows, start, end) =
        Relocate(RemoveRows(rows, start, end + 1), start, d)
  BY DEF RowsAfterDelete
<1> DEFINE c == end + 1
<1>9. /\ start \in Nat /\ end \in Nat /\ c \in Nat /\ d \in Int /\ end < c /\ start <= start
      /\ start <= c
  BY <1>2
<1>10. Observe(Relocate(RemoveRows(rows, start, c), start, d), from)
  BY <1>2, <1>8
<1> HIDE DEF c, d, from
<1>11. QED
  BY <1>4, <1>6, <1>7, <1>9, <1>10, EditShows

LEMMA TextInserted ==
  ASSUME LayoutInv, NEW p \in 0..length, NEW s \in Texts, InsertBefore(p, s)
  PROVE  LayoutInv'
<1> DEFINE n == Len(s)
           from == IF viewStart <= p THEN viewStart ELSE viewStart + n
<1>1. /\ BufferOK /\ viewStart \in 0..length /\ length \in Nat /\ MarkersApart
      /\ Apart(markers, length) /\ text \in Seq(Char) /\ Len(text) = length
      /\ MaxLength \in Nat
  BY BufferFacts, MaxLengthAssumption DEF LayoutInv, BufferOK
<1>2. s \in Seq(Char) /\ n \in Nat /\ n # 0
  <2>1. s \in Seq(Char) /\ s # << >>
    BY TextsAssumption
  <2>2. QED
    BY <2>1, EmptySeq, LenProperties
<1>3. /\ length + n <= MaxLength /\ length' = length + n /\ kind' = kind
      /\ markers' = AfterInsert(markers, p, n) /\ notified' = {}
      /\ text' = Inserted(text, p, s) /\ size' = size
      /\ Observe(RowsAfterInsert(rows, p, n), from)
  BY DEF InsertBefore, DidInsertBefore, Observe
<1>4. /\ text' \in Seq(Char) /\ Len(text') = length'
      /\ \A i \in 1..p : text'[i] = text[i]
      /\ \A i \in (p + 1)..length : text'[i + n] = text[i]
  BY <1>1, <1>2, <1>3, InsertedText
<1>5. BufferOK'
  <2>1. DidInsertBefore(p, n)
    BY DEF InsertBefore
  <2> HIDE DEF n
  <2>2. n \in 1..MaxLength
    BY <1>1, <1>2, <1>3
  <2>3. MarkersApart'
    BY <1>1, <2>1, <2>2, NextApart DEF Next
  <2>4. QED
    BY <1>1, <1>3, <1>4, <2>3 DEF BufferOK
<1> HIDE DEF n
<1>6. /\ kind = "Sticky" => \A q \in 0..(p - 1) : ColorOf(markers', q) = ColorOf(markers, q)
      /\ kind = "Sticky" =>
           \A q \in p..(length - 1) : ColorOf(markers', q + n) = ColorOf(markers, q)
  <2>1. kind = "Sticky" =>
          \A q \in Nat : ColorOf(markers', q) =
                           IF q < p THEN ColorOf(markers, q)
                           ELSE IF q >= p + n THEN ColorOf(markers, q - n)
                           ELSE IF p = 0 THEN NoType ELSE ColorOf(markers, p - 1)
    <3>1. ASSUME kind # "Fragile", NEW q \in Nat
          PROVE  ColorOf(AfterInsert(markers, p, n), q) =
                   IF q < p THEN ColorOf(markers, q)
                   ELSE IF q >= p + n THEN ColorOf(markers, q - n)
                   ELSE IF p = 0 THEN NoType ELSE ColorOf(markers, p - 1)
      BY <1>1, <1>2, <3>1, StickyInsertColor
    <3>2. QED
      BY <1>3, <3>1
  <2>2. ASSUME NEW q \in p..(length - 1)
        PROVE  q + n \in Nat /\ ~(q + n < p) /\ q + n >= p + n /\ (q + n) - n = q
    BY <1>1, <1>2
  <2>3. ASSUME NEW q \in 0..(p - 1)
        PROVE  q \in Nat /\ q < p
    OBVIOUS
  <2>4. QED
    BY <2>1, <2>2, <2>3
<1>7. Edited(p, p, n)
  <2>1. p <= length' /\ p <= p /\ p <= length /\ p <= p + n
    BY <1>1, <1>2, <1>3
  <2>2. QED
    BY <1>3, <1>4, <1>6, <2>1 DEF Edited
<1>8. from \in 0..length'
  BY <1>1, <1>2, <1>3
<1> DEFINE c == p + n
<1>9. p \in Nat /\ c \in Nat /\ n \in Int /\ p < c /\ p <= c /\ c <= c
  BY <1>2
<1>10. Observe(Relocate(RemoveRows(rows, p, c), c, n), from)
  BY <1>3 DEF RowsAfterInsert
<1> HIDE DEF c, from
<1>11. QED
  BY <1>5, <1>7, <1>8, <1>9, <1>10, EditShows

-----------------------------------------------------------------------------
(* Markers: the observers hear of every character whose color changes, and *)
(* the cache drops its row.                                                *)
LEMMA ColorsChanged ==
  ASSUME MarkersApart, NEW start \in 0..length, NEW end \in 0..length,
         NEW type \in Type \cup {NoType}, InsertMarker(start, end, type), NEW p \in Nat,
         p \notin notified'
  PROVE  ColorOf(markers', p) = ColorOf(markers, p)
<1>1. Apart(markers, length) /\ length \in Nat
  BY MaxLengthAssumption DEF MarkersApart, TypeOK, Apart
<1>2. /\ start < end /\ markers' = NewMarkers(markers, start, end, type)
      /\ notified' = IF NoChange(markers, start, end, type) THEN {}
                     ELSE Changes(markers, start, end, type)
  BY DEF InsertMarker
<1>3. CASE NoChange(markers, start, end, type)
  BY <1>2, <1>3 DEF NewMarkers
<1>4. CASE ~NoChange(markers, start, end, type)
  <2>1. ColorOf(markers', p) = IF start <= p /\ p < end THEN type ELSE ColorOf(markers, p)
    BY <1>1, <1>2, AssignColor
  <2>2. ASSUME start <= p, p < end PROVE ColorOf(markers, p) = type
    <3>1. p \in start..(end - 1) /\ p \notin Changes(markers, start, end, type)
      BY <1>2, <1>4, <2>2
    <3>2. QED
      BY <1>1, <1>2, <3>1, ChangesCovered
  <2>3. QED
    BY <2>1, <2>2
<1>5. QED
  BY <1>3, <1>4

(* The rows the cache keeps when the characters of P have changed.         *)
Unchanged(rs, P) == {r \in rs : \A p \in P : r \in RemoveRows(rs, p, p + 1)}

LEMMA UnchangedRows ==
  ASSUME BufferOK, NEW rs, GoodRows(rs), NEW P \in SUBSET Nat
  PROVE  /\ GoodRows(Unchanged(rs, P))
         /\ \A r \in Unchanged(rs, P) : \A p \in P : r.end <= p \/ r.start > p
<1> DEFINE ks == Unchanged(rs, P)
<1>1. ASSUME NEW p \in P
      PROVE  /\ GoodRows(RemoveRows(rs, p, p + 1)) /\ Kept(RemoveRows(rs, p, p + 1), p, p + 1)
             /\ RemoveRows(rs, p, p + 1) \subseteq rs
  <2> DEFINE c == p + 1
  <2>1. p \in Nat /\ c \in Nat /\ p <= c
    OBVIOUS
  <2> HIDE DEF c
  <2>2. /\ GoodRows(RemoveRows(rs, p, c)) /\ Kept(RemoveRows(rs, p, c), p, c)
        /\ RemoveRows(rs, p, c) \subseteq rs
    BY <2>1, RemovedRows
  <2>3. QED
    BY <2>2 DEF c
<1>2. ks \subseteq rs /\ \A r \in ks : \A p \in P : r \in RemoveRows(rs, p, p + 1)
  BY DEF Unchanged
<1>3. Led(ks)
  <2>1. SUFFICES ASSUME NEW r \in ks, IsContinued(r)
                 PROVE  \E s \in ks : s.end = r.start
    BY DEF Led
  <2>2. PICK s \in rs : s.end = r.start
    BY <1>2, <2>1 DEF GoodRows, Led
  <2>3. ASSUME NEW p \in P PROVE s \in RemoveRows(rs, p, p + 1)
    <3> DEFINE some == RemoveRows(rs, p, p + 1)
    <3>1. r \in some /\ GoodRows(some) /\ some \subseteq rs
      BY <1>1, <1>2, <2>1
    <3> HIDE DEF some
    <3>2. PICK k \in some : k.end = r.start
      BY <2>1, <3>1 DEF GoodRows, Led
    <3>3. k \in rs /\ k.start \in Nat /\ k.end \in Nat /\ k.start < k.end
          /\ s.start \in Nat /\ s.end \in Nat /\ s.start < s.end
      BY <3>1, <3>2, GoodRow
    <3>4. k = s
      BY <2>2, <3>2, <3>3, Disjoint
    <3>5. QED
      BY <3>2, <3>4 DEF some
  <2>4. QED
    BY <2>2, <2>3 DEF Unchanged
<1>4. GoodRows(ks)
  BY <1>2, <1>3, FewerGood
<1>5. ASSUME NEW r \in ks, NEW p \in P
      PROVE  r.end <= p \/ r.start > p
  <2>1. r \in RemoveRows(rs, p, p + 1) /\ r \in rs
    BY <1>2
  <2>2. r.end <= p \/ r.start >= p + 1
    BY <1>1, <2>1 DEF Kept
  <2>3. r.start \in Nat /\ p \in Nat
    BY <2>1, GoodRow
  <2>4. QED
    BY <2>2, <2>3
<1>6. QED
  BY <1>4, <1>5

LEMMA MarkerSets ==
  ASSUME LayoutInv, NEW start \in 0..length, NEW end \in 0..length,
         NEW type \in Type \cup {NoType}, SetMarker(start, end, type)
  PROVE  LayoutInv'
<1>1. /\ BufferOK /\ viewStart \in 0..length /\ length \in Nat /\ MarkersApart
      /\ GoodRows(rows) /\ GoodView(rows, view, viewStart) /\ rows \subseteq Row
      /\ view # << >> => cacheSize = size
  BY BufferFacts DEF LayoutInv, BufferOK, GoodRows
<1>2. /\ text' = text /\ length' = length /\ kind' = kind /\ size' = size
      /\ cacheSize' = cacheSize /\ viewStart' = viewStart
      /\ InsertMarker(start, end, type)
  BY DEF SetMarker, InsertMarker, Observe, layoutVars
<1>3. MarkersApart'
  BY <1>1, <1>2, NextApart DEF Next
<1>4. BufferOK'
  BY <1>1, <1>2, <1>3 DEF BufferOK
<1>5. \A p \in Nat : p \notin notified' => ColorOf(markers', p) = ColorOf(markers, p)
  BY <1>1, <1>2, ColorsChanged
<1>6. notified' \in SUBSET Nat
  BY <1>3, MaxLengthAssumption DEF MarkersApart, TypeOK
<1>7. /\ rows' \subseteq rows /\ RowsApart(rows') /\ Led(rows')
      /\ \A r \in rows' : \A p \in notified' : r.end <= p \/ r.start > p
      /\ (view' = << >> \/ (view' = view /\ rows' = rows))
  <2>1. CASE notified' = {}
    <3>1. rows' = rows /\ view' = view
      BY <2>1 DEF SetMarker, layoutVars
    <3>2. QED
      BY <1>1, <2>1, <3>1 DEF GoodRows
  <2>2. CASE notified' # {}
    <3>1. rows' = Unchanged(rows, notified') /\ view' = << >>
      BY <2>2 DEF SetMarker, Observe, Unchanged
    <3>2. /\ GoodRows(Unchanged(rows, notified'))
          /\ \A r \in Unchanged(rows, notified') :
               \A p \in notified' : r.end <= p \/ r.start > p
      <4> DEFINE P == notified'
      <4>1. P \in SUBSET Nat
        BY <1>6
      <4> HIDE DEF P
      <4>2. /\ GoodRows(Unchanged(rows, P))
            /\ \A r \in Unchanged(rows, P) : \A p \in P : r.end <= p \/ r.start > p
        BY <1>1, <4>1, UnchangedRows
      <4>3. QED
        BY <4>2 DEF P
    <3>3. Unchanged(rows, notified') \subseteq rows
      BY DEF Unchanged
    <3>4. QED
      BY <3>1, <3>2, <3>3 DEF GoodRows
  <2>3. QED
    BY <2>1, <2>2
<1>8. \A r \in rows' : ShowsText(r)'
  <2>1. SUFFICES ASSUME NEW r \in rows' PROVE ShowsText(r)'
    OBVIOUS
  <2>2. /\ r \in Row /\ ShowsText(r) /\ r.start \in Nat /\ Len(r.cells) \in Nat
        /\ r.start + Len(r.cells) <= r.end /\ r.end \in Nat
    BY <1>1, <1>7, GoodRow
  <2>3. \A i \in 1..Len(r.cells) :
          ColorOf(markers', r.start + i - 1) = ColorOf(markers, r.start + i - 1)
    <3>1. SUFFICES ASSUME NEW i \in 1..Len(r.cells)
                   PROVE  ColorOf(markers', r.start + i - 1) = ColorOf(markers, r.start + i - 1)
      OBVIOUS
    <3> DEFINE q == r.start + i - 1
    <3>2. q \in Nat /\ r.start <= q /\ q < r.end
      BY <2>2
    <3> HIDE DEF q
    <3>3. q \notin notified'
      BY <1>6, <1>7, <2>1, <2>2, <3>2
    <3>4. ColorOf(markers', q) = ColorOf(markers, q)
      BY <1>5, <3>2, <3>3
    <3>5. QED
      BY <3>4 DEF q
  <2>4. QED
    BY <1>2, <2>2, <2>3, RowStays
<1>9. GoodRows(rows)'
  BY <1>1, <1>7, <1>8 DEF GoodRows, RowsApart, Led
<1>10. GoodView(rows, view, viewStart)'
  <2>1. CASE view' = << >>
    BY <2>1 DEF GoodView, Stretch
  <2>2. CASE view' = view /\ rows' = rows
    BY <1>1, <1>2, <2>2 DEF GoodView, Stretch, FullView
  <2>3. QED
    BY <1>7, <2>1, <2>2
<1>11. QED
  BY <1>1, <1>2, <1>4, <1>7, <1>9, <1>10 DEF LayoutInv

-----------------------------------------------------------------------------
LEMMA LayoutInitInv == LayoutInit => LayoutInv
<1> SUFFICES ASSUME LayoutInit PROVE LayoutInv
  OBVIOUS
<1>1. /\ MarkersApart /\ length = 0 /\ text = << >> /\ size \in Sizes
      /\ rows = {} /\ view = << >> /\ viewStart = 0
  BY InitApart DEF LayoutInit, Init
<1>2. BufferOK
  BY <1>1 DEF BufferOK
<1>3. GoodRows(rows) /\ GoodView(rows, view, viewStart)
  BY <1>1 DEF GoodRows, RowsApart, Led, GoodView, Stretch
<1>4. QED
  BY <1>1, <1>2, <1>3 DEF LayoutInv

LEMMA LayoutNextInv == LayoutInv /\ [LayoutNext]_allVars => LayoutInv'
<1> SUFFICES ASSUME LayoutInv, [LayoutNext]_allVars PROVE LayoutInv'
  OBVIOUS
<1>1. ASSUME NEW p \in 0..length, ComputeLine(p) PROVE LayoutInv'
  BY <1>1, LineComputed
<1>2. CASE FormatIfNeeded \/ ScrollDown \/ ScrollUp \/ \E p \in 0..length : ScrollToPosition(p)
  BY <1>2, ReaderShows
<1>3. ASSUME NEW p \in 0..length, NEW s \in Texts, InsertBefore(p, s) PROVE LayoutInv'
  BY <1>3, TextInserted
<1>4. ASSUME NEW start \in 0..length, NEW end \in 0..length, Delete(start, end)
      PROVE  LayoutInv'
  BY <1>4, TextDeleted
<1>5. ASSUME NEW start \in 0..length, NEW end \in 0..length, NEW type \in Type \cup {NoType},
             SetMarker(start, end, type)
      PROVE  LayoutInv'
  BY <1>5, MarkerSets
<1>6. ASSUME NEW new \in Sizes, Resize(new) PROVE LayoutInv'
  BY <1>6, ViewResized
<1>7. CASE UNCHANGED allVars
  <2>1. /\ UNCHANGED <<text, size, cacheSize, rows, view, viewStart>>
        /\ UNCHANGED <<kind, length, markers, notified>>
    BY <1>7 DEF allVars, vars, layoutVars
  <2>2. QED
    BY <2>1 DEF LayoutInv, BufferOK, MarkersApart, TypeOK, GoodRows, ShowsText, RowsApart, Led,
                GoodView, Stretch, FullView
<1>8. QED
  BY <1>1, <1>2, <1>3, <1>4, <1>5, <1>6, <1>7 DEF LayoutNext

(* Whatever is typed, deleted, colored, resized, formatted and scrolled,   *)
(* the layout keeps its invariant.                                         *)
THEOREM LayoutInvariant == LayoutSpec => []LayoutInv
BY LayoutInitInv, LayoutNextInv, PTL DEF LayoutSpec

LEMMA ShowsColors ==
  ASSUME LayoutInv, NEW r \in rows, kind = "Sticky"
  PROVE  r.cells = Cells(r.start, Len(r.cells))
<1> DEFINE n == Len(r.cells)
           p == r.start
           c == r.cells
           k == Cells(p, n)
<1>1. BufferOK /\ GoodRows(rows)
  BY DEF LayoutInv
<1>2. /\ r \in Row /\ ShowsText(r) /\ p \in Nat /\ n \in Nat /\ p + n <= length
      /\ c \in Seq(Char \X Color)
  BY <1>1, GoodRow, RowFields
<1>3. \A i \in 1..n : c[i][1] = text[p + i] /\ c[i][2] = ColorOf(markers, p + i - 1)
  BY <1>2 DEF ShowsText
<1> HIDE DEF n, p, k
<1>4. /\ Cells(p, n) \in Seq(Char \X Color) /\ Len(Cells(p, n)) = n
      /\ \A i \in 1..n : /\ Cells(p, n)[i][1] = text[p + i]
                         /\ Cells(p, n)[i][2] = ColorOf(markers, p + i - 1)
  BY <1>1, <1>2, CellsTyped
<1>5. k \in Seq(Char \X Color) /\ Len(k) = n
      /\ \A i \in 1..n : k[i][1] = text[p + i] /\ k[i][2] = ColorOf(markers, p + i - 1)
  BY <1>4 DEF k
<1>6. ASSUME NEW i \in 1..n PROVE c[i] = k[i]
  <2>1. c[i] \in Char \X Color /\ k[i] \in Char \X Color
    BY <1>2, <1>5, ElementOfSeq DEF n
  <2>2. c[i] = <<c[i][1], c[i][2]>> /\ k[i] = <<k[i][1], k[i][2]>>
    BY <2>1
  <2>3. c[i][1] = k[i][1] /\ c[i][2] = k[i][2]
    BY <1>3, <1>5
  <2>4. QED
    BY <2>2, <2>3
<1>7. c = k
  BY <1>2, <1>5, <1>6, SeqEqual DEF n
<1>8. QED
  BY <1>7 DEF k, p, n

LEMMA LayoutInvShows == LayoutInv => RowsShowText
<1> SUFFICES ASSUME LayoutInv PROVE RowsShowText
  OBVIOUS
<1>1. BufferOK /\ GoodRows(rows) /\ viewStart \in 0..length
  BY DEF LayoutInv
<1>2. LayoutTypeOK
  <2>1. \A r \in rows : r.line <= r.start /\ r.start < r.end /\ r.end <= length + 1
    <3>1. SUFFICES ASSUME NEW r \in rows
                   PROVE  r.line <= r.start /\ r.start < r.end /\ r.end <= length + 1
      OBVIOUS
    <3>2. /\ r.line = LineStart(text, r.start) /\ r.start \in Nat
          /\ r.start < r.end /\ r.end <= length + 1
      BY <1>1, GoodRow
    <3>3. LineStart(text, r.start) \in 0..r.start
      BY <3>2, StartOfLine
    <3>4. QED
      BY <3>2, <3>3
  <2>2. QED
    BY <1>1, <2>1 DEF LayoutTypeOK, BufferOK
<1>3. ASSUME NEW r \in rows, NEW s \in rows, r # s
      PROVE  r.end <= s.start \/ s.end <= r.start
  BY <1>1, <1>3, Disjoint
<1>4. ASSUME NEW r \in rows
      PROVE  LET after == r.start + Len(r.cells)
             IN  /\ after <= length
                 /\ IF kind = "Sticky" THEN r.cells = Cells(r.start, Len(r.cells))
                    ELSE \A i \in DOMAIN r.cells : r.cells[i][1] = text[r.start + i]
                 /\ r.box = "EndOfLine" => r.end = after + 1 /\ text[r.end] = Newline
                 /\ r.box = "EndOfDocument" => after = length
                 /\ r.box = "LineWrap" => r.end = after
                 /\ r.line = LineStart(text, r.start)
  <2>1. r \in Row /\ ShowsText(r)
    BY <1>1, GoodRow
  <2>2. DOMAIN r.cells = 1..Len(r.cells)
    BY <2>1, RowFields, LenProperties
  <2>3. kind = "Sticky" => r.cells = Cells(r.start, Len(r.cells))
    BY ShowsColors
  <2>4. QED
    BY <2>1, <2>2, <2>3 DEF ShowsText
<1>5. QED
  BY <1>2, <1>3, <1>4 DEF RowsShowText

LEMMA LayoutInvOwned == LayoutInv => ViewOwned /\ ViewUnbroken
<1> SUFFICES ASSUME LayoutInv PROVE ViewOwned /\ ViewUnbroken
  OBVIOUS
<1>1. /\ view \in Seq(Row) /\ \A i \in 1..Len(view) : view[i] \in rows
      /\ \A i \in 2..Len(view) : view[i].start = view[i - 1].end
      /\ view # << >> => view[1].start = viewStart
  BY DEF LayoutInv, GoodView, Stretch
<1>2. DOMAIN view = 1..Len(view)
  BY <1>1, LenProperties
<1>3. ViewOwned
  BY <1>1, <1>2 DEF ViewOwned, Range
<1>4. ViewUnbroken
  BY <1>1 DEF ViewUnbroken
<1>5. QED
  BY <1>3, <1>4

(* A cached row shows the text and the sticky colors that are there now,   *)
(* for every text, set of markers, width of a view and sequence of edits.  *)
THEOREM CacheShowsText == LayoutSpec => []RowsShowText
BY LayoutInvariant, LayoutInvShows, PTL

(* The view never keeps a pointer to a row the cache has dropped.          *)
THEOREM ViewOwnsItsRows == LayoutSpec => []ViewOwned
BY LayoutInvariant, LayoutInvOwned, PTL

(* What the view shows is one stretch of text from view_start_ on.         *)
THEOREM ViewStaysUnbroken == LayoutSpec => []ViewUnbroken
BY LayoutInvariant, LayoutInvOwned, PTL


-----------------------------------------------------------------------------
(* Whether ScrollToPosition shows the position.                            *)

(* Where the view ends.                                                    *)
Bottom(l) == l.view[Len(l.view)].end

(* What the view shows of a view of whole rows: from start to bottom.      *)
Seen(l, p) == l.start <= p /\ p < Bottom(l)

LEMMA ViewRow ==
  ASSUME BufferOK, NEW l \in Views, NEW i \in 1..Len(l.view)
  PROVE  LET r == l.view[i]
         IN  /\ r \in l.rows /\ r \in Row
             /\ r.start \in Nat /\ r.end \in Nat /\ r.start < r.end /\ r.end <= length + 1
             /\ r.box = "EndOfDocument" <=> r.end = length + 1
             /\ EndsMarked => r.end # length
             /\ i > 1 => r.start = l.view[i - 1].end
<1> DEFINE r == l.view[i]
<1>1. GoodRows(l.rows) /\ Marked(l.rows) /\ Stretch(l.rows, l.view) /\ Len(l.view) \in Nat
  BY ViewsAreLayouts, LayoutFacts
<1>2. r \in l.rows /\ (i > 1 => r.start = l.view[i - 1].end)
  BY <1>1 DEF Stretch
<1> HIDE DEF r
<1>3. /\ r \in Row /\ r.start \in Nat /\ r.end \in Nat /\ r.start < r.end /\ r.end <= length + 1
      /\ r.box = "EndOfDocument" <=> r.end = length + 1
  BY <1>1, <1>2, GoodRow, LineBehind
<1>4. EndsMarked => r.end # length
  BY <1>1, <1>2 DEF Marked
<1>5. QED
  BY <1>2, <1>3, <1>4 DEF r

LEMMA ViewEnds ==
  ASSUME BufferOK, NEW l \in Views
  PROVE  /\ Len(l.view) \in Nat /\ Len(l.view) >= 1
         /\ 1 \in 1..Len(l.view) /\ Len(l.view) \in 1..Len(l.view)
         /\ l.start \in 0..length /\ l.start \in Nat /\ length \in Nat
         /\ l.view[1].start = l.start /\ Head(l.view) = l.view[1]
         /\ Last(l.view) = l.view[Len(l.view)]
         /\ Bottom(l) \in Nat /\ Bottom(l) <= length + 1
         /\ l.view[Len(l.view)].box = "EndOfDocument" <=> Bottom(l) = length + 1
         /\ EndsMarked => Bottom(l) # length
<1>1. /\ l \in Layouts /\ l.view # << >> /\ Len(l.view) \in Nat /\ Len(l.view) # 0
      /\ l.start \in 0..length /\ l.start \in Nat /\ l.view[1].start = l.start
      /\ l.view \in Seq(Row) /\ length \in Nat
  BY LayoutFacts, BufferFacts DEF Views
<1>2. Len(l.view) >= 1 /\ 1 \in 1..Len(l.view) /\ Len(l.view) \in 1..Len(l.view)
  BY <1>1
<1>3. Head(l.view) = l.view[1] /\ Last(l.view) = l.view[Len(l.view)]
  BY <1>1 DEF Last
<1>4. /\ Bottom(l) \in Nat /\ Bottom(l) <= length + 1
      /\ l.view[Len(l.view)].box = "EndOfDocument" <=> Bottom(l) = length + 1
      /\ EndsMarked => Bottom(l) # length
  BY <1>2, ViewRow DEF Bottom
<1>5. QED
  BY <1>1, <1>2, <1>3, <1>4

(* The rows of a view are in the order of the text.                        *)
LEMMA RowsInOrder ==
  ASSUME BufferOK, NEW l \in Views, NEW i \in 1..Len(l.view), NEW j \in 1..Len(l.view), i <= j
  PROVE  l.view[i].start <= l.view[j].start /\ l.view[i].end <= l.view[j].end
         /\ (i # j => l.view[i].end <= l.view[j].start)
<1> DEFINE Ordered(k) == /\ l.view[i].start <= l.view[k].start
                         /\ l.view[i].end <= l.view[k].end
                         /\ i # k => l.view[i].end <= l.view[k].start
           T == {d \in 0..(j - i) : Ordered(i + d)}
<1>1. \A k \in 1..Len(l.view) :
        /\ l.view[k].start \in Nat /\ l.view[k].end \in Nat /\ l.view[k].start < l.view[k].end
        /\ k > 1 => l.view[k].start = l.view[k - 1].end
  BY ViewRow
<1>2. Len(l.view) \in Nat
  BY ViewEnds
<1>3. 0 \in T
  <2>1. 0 \in 0..(j - i) /\ i + 0 = i
    BY <1>2
  <2>2. Ordered(i)
    BY <1>1
  <2> HIDE DEF Ordered
  <2>3. QED
    BY <2>1, <2>2
<1>4. ASSUME NEW d \in 0..(j - i - 1), d \in T PROVE d + 1 \in T
  <2> DEFINE k == i + d
             m == i + (d + 1)
  <2>1. k \in 1..Len(l.view) /\ m \in 1..Len(l.view) /\ m > 1 /\ m - 1 = k /\ m # i
        /\ d + 1 \in 0..(j - i)
    BY <1>2
  <2>2. Ordered(k)
    BY <1>4
  <2> HIDE DEF k, m
  <2>3. /\ l.view[m].start = l.view[k].end
        /\ l.view[k].start \in Nat /\ l.view[k].end \in Nat /\ l.view[k].start < l.view[k].end
        /\ l.view[m].start \in Nat /\ l.view[m].end \in Nat /\ l.view[m].start < l.view[m].end
        /\ l.view[i].start \in Nat /\ l.view[i].end \in Nat
    BY <1>1, <2>1
  <2>4. Ordered(m)
    <3> DEFINE a == l.view[i]
               b == l.view[k]
               c == l.view[m]
    <3>1. a.start <= b.start /\ a.end <= b.end
      BY <2>2
    <3>2. /\ c.start = b.end /\ b.start \in Nat /\ b.end \in Nat /\ b.start < b.end
          /\ c.start \in Nat /\ c.end \in Nat /\ c.start < c.end
          /\ a.start \in Nat /\ a.end \in Nat
      BY <2>3
    <3> HIDE DEF a, b, c
    <3>3. a.start <= c.start /\ a.end <= c.end /\ a.end <= c.start
      BY <3>1, <3>2
    <3>4. QED
      BY <3>3 DEF a, c
  <2> HIDE DEF Ordered
  <2>5. QED
    BY <2>1, <2>4 DEF m
<1>5. \A d \in 0..(j - i) : d \in T
  <2> HIDE DEF T
  <2>1. j - i \in Nat
    BY <1>2
  <2>2. QED
    BY <1>3, <1>4, <2>1, EveryRound
<1>6. j - i \in 0..(j - i) /\ i + (j - i) = j
  BY <1>2
<1>7. Ordered(j)
  <2> HIDE DEF Ordered
  <2>1. j - i \in T
    BY <1>5, <1>6
  <2>2. QED
    BY <1>6, <2>1
<1>8. QED
  BY <1>7

(* In a view of whole rows, all rows are fully visible.                    *)
LEMMA WholeView ==
  ASSUME BufferOK, Height % 2 = 0, NEW l \in Views
  PROVE  /\ 2 * Len(l.view) <= Height
         /\ Bottom(l) # length + 1 => 2 * Len(l.view) = Height
         /\ ShowsEnd(l.view) <=> Bottom(l) = length + 1
         /\ \A p : FullyVisible(l.view, p) <=> Seen(l, p)
<1> DEFINE n == Len(l.view)
<1>1. /\ n \in Nat /\ n >= 1 /\ l.view[1].start = l.start /\ Head(l.view) = l.view[1]
      /\ l.view[n].box = "EndOfDocument" <=> Bottom(l) = length + 1
      /\ Last(l.view) = l.view[n]
  BY ViewEnds
<1>2. FullView(l.view)
  BY LayoutFacts DEF Views
<1>3. 2 * n <= Height + 1 /\ (2 * n >= Height \/ l.view[n].box = "EndOfDocument")
  BY <1>2 DEF FullView
<1>4. Bottom(l) = l.view[n].end
  BY DEF Bottom
<1> HIDE DEF n
<1>5. 2 * n <= Height /\ n <= Height \div 2 /\ Height \div 2 \in Nat
  BY <1>1, <1>3, HeightAssumption
<1>6. Bottom(l) # length + 1 => 2 * n = Height
  BY <1>1, <1>3, <1>5, HeightAssumption
<1>7. ShowsEnd(l.view) <=> Bottom(l) = length + 1
  BY <1>1, <1>5 DEF ShowsEnd, n
<1>8. Min({n, Height \div 2}) = n
  <2>1. {n, Height \div 2} \in SUBSET Nat
    BY <1>1, <1>5
  <2>2. Min({n, Height \div 2}) \in {n, Height \div 2} /\ Min({n, Height \div 2}) <= n
    BY <2>1, LeastOf
  <2>3. QED
    BY <1>1, <1>5, <2>2
<1>9. ASSUME NEW p PROVE FullyVisible(l.view, p) <=> Seen(l, p)
  BY <1>1, <1>4, <1>8 DEF FullyVisible, Seen, n
<1>10. QED
  BY <1>5, <1>6, <1>7, <1>9 DEF n


(* The row of the cache that a row of the view is, is the one FindLine     *)
(* returns: a good view is not formatted again.                            *)
LEMMA FoundAtStart ==
  ASSUME BufferOK, NEW rs, GoodRows(rs), NEW r \in rs
  PROVE  FindLine(rs, r.start) = {r}
<1>1. r.start \in Nat /\ r.end \in Nat /\ r.start < r.end
  BY GoodRow
<1>2. ASSUME NEW s \in rs, s # r
      PROVE  /\ s.start \in Nat /\ s.end \in Nat /\ s.start < s.end
             /\ r.end <= s.start \/ s.end <= r.start
  BY <1>2, GoodRow, Disjoint
<1>3. ASSUME NEW s \in rs, s.end > r.start PROVE r.end <= s.end
  BY <1>1, <1>2, <1>3
<1>4. r.start <= r.start /\ r.end > r.start
  BY <1>1
<1>5. r \in FindLine(rs, r.start)
  BY <1>3, <1>4 DEF FindLine
<1>6. ASSUME NEW s \in FindLine(rs, r.start) PROVE s = r
  <2>1. s \in rs /\ s.start <= r.start /\ s.end > r.start
    BY DEF FindLine
  <2>2. QED
    BY <1>1, <1>2, <2>1
<1>7. QED
  BY <1>5, <1>6

LEMMA FormattedSame ==
  ASSUME BufferOK, NEW l \in Views
  PROVE  Formatted(l) = [l EXCEPT !.did = FALSE]
<1>1. l.view # << >> /\ GoodRows(l.rows) /\ l.view \in Seq(Row)
  BY LayoutFacts DEF Views
<1>2. ASSUME NEW i \in DOMAIN l.view PROVE FindLine(l.rows, l.view[i].start) = {l.view[i]}
  <2>1. i \in 1..Len(l.view)
    BY <1>1
  <2>2. l.view[i] \in l.rows
    BY <2>1, ViewRow
  <2>3. QED
    BY <1>1, <2>2, FoundAtStart
<1>3. QED
  BY <1>1, <1>2 DEF Formatted

LEMMA Idle ==
  ASSUME BufferOK, NEW l \in Views
  PROVE  LET m == [l EXCEPT !.did = FALSE]
         IN  /\ Formatted(l) = m /\ m \in Views
             /\ m.rows = l.rows /\ m.view = l.view /\ m.start = l.start /\ m.did = FALSE
<1>1. l \in [rows : SUBSET Row, view : Seq(Row), start : 0..length, did : BOOLEAN]
  BY DEF Views, Layouts
<1>2. QED
  BY <1>1, FormattedSame, DidLayout

(* ScrollDown: a row comes above, if there is one.                         *)
LEMMA DownStep ==
  ASSUME BufferOK, NEW l \in Views
  PROVE  LET k == ScrolledDown(l)
         IN  /\ k \in Views
             /\ l.start # 0 => OneDown(l, k)
             /\ l.start = 0 => k = [l EXCEPT !.did = FALSE]
<1> DEFINE m == [l EXCEPT !.did = FALSE]
           k == ScrolledDown(l)
<1>1. /\ Formatted(l) = m /\ m \in Views
      /\ m.rows = l.rows /\ m.view = l.view /\ m.start = l.start
  BY Idle
<1>2. k = DownOne(m)
  BY <1>1 DEF ScrolledDown
<1> HIDE DEF m, k
<1>3. k \in Views /\ (m.start # 0 => OneDown(m, k)) /\ (m.start = 0 => k = m)
  BY <1>1, <1>2, DownShows
<1>4. OneDown(m, k) => OneDown(l, k)
  BY <1>1 DEF OneDown
<1>5. QED
  BY <1>1, <1>3, <1>4 DEF m, k

(* ScrollUp: a row comes below, if there is one.                           *)
LEMMA UpStep ==
  ASSUME BufferOK, Height % 2 = 0, NEW l \in Views
  PROVE  LET k == ScrolledUp(l)
         IN  /\ k \in Views
             /\ Bottom(l) # length + 1 => OneUp(l, k)
             /\ Bottom(l) = length + 1 => k = [l EXCEPT !.did = FALSE]
<1> DEFINE m == [l EXCEPT !.did = FALSE]
           k == ScrolledUp(l)
<1>1. /\ Formatted(l) = m /\ m \in Views
      /\ m.rows = l.rows /\ m.view = l.view /\ m.start = l.start
  BY Idle
<1>2. k = UpOne(m)
  BY <1>1 DEF ScrolledUp
<1> HIDE DEF m, k
<1>3. /\ k \in Views
      /\ m.view[Len(m.view)].box # "EndOfDocument" => OneUp(m, k)
      /\ ShowsEnd(m.view) => k = m
  BY <1>1, <1>2, UpShows
<1>4. OneUp(m, k) => OneUp(l, k)
  BY <1>1 DEF OneUp
<1>5. /\ l.view[Len(l.view)].box = "EndOfDocument" <=> Bottom(l) = length + 1
      /\ ShowsEnd(l.view) <=> Bottom(l) = length + 1
  BY ViewEnds, WholeView
<1>6. QED
  BY <1>1, <1>3, <1>4, <1>5 DEF m, k

(* What a scroll by one row does to start and bottom of a view.            *)
LEMMA DownEnds ==
  ASSUME BufferOK, NEW l \in Views, NEW k \in Views, OneDown(l, k)
  PROVE  k.start < l.start /\ Bottom(k) >= l.start /\ k.did
<1>1. k.did /\ k.view[1].end = l.start /\ k.start < l.start
  BY DEF OneDown
<1>2. 1 \in 1..Len(k.view) /\ Len(k.view) \in 1..Len(k.view) /\ Len(k.view) >= 1
      /\ Len(k.view) \in Nat /\ l.start \in Nat /\ Bottom(k) \in Nat
  BY ViewEnds
<1>3. k.view[1].end <= k.view[Len(k.view)].end
  BY <1>2, RowsInOrder
<1>4. QED
  BY <1>1, <1>2, <1>3 DEF Bottom

LEMMA UpEnds ==
  ASSUME BufferOK, NEW l \in Views, NEW k \in Views, OneUp(l, k)
  PROVE  /\ k.start <= Bottom(l) /\ l.start < k.start
         /\ Bottom(l) < Bottom(k) /\ k.did
<1>1. /\ k.did /\ Len(k.view) = Len(l.view) /\ Len(l.view) >= 2
      /\ \A i \in 1..(Len(l.view) - 1) : k.view[i] = l.view[i + 1]
      /\ k.view[Len(k.view)].start = l.view[Len(l.view)].end
  BY DEF OneUp
<1>2. Len(l.view) \in Nat /\ k.view[1].start = k.start /\ l.view[1].start = l.start
      /\ Len(l.view) \in 1..Len(l.view) /\ Len(k.view) \in 1..Len(k.view)
  BY ViewEnds
<1>3. 1 \in 1..(Len(l.view) - 1) /\ 1 + 1 = 2 /\ 2 - 1 = 1 /\ 1 \in 1..Len(l.view)
      /\ 2 \in 1..Len(l.view) /\ 2 > 1
  BY <1>1, <1>2
<1>4. k.start = l.view[2].start
  BY <1>1, <1>2, <1>3
<1>5. l.view[2].start = l.view[1].end
  BY <1>3, ViewRow
<1>6. l.view[1].end <= l.view[Len(l.view)].end
  BY <1>1, <1>2, <1>3, RowsInOrder
<1>7. l.view[1].start < l.view[1].end /\ l.view[1].start \in Nat /\ l.view[1].end \in Nat
  BY <1>3, ViewRow
<1>8. /\ k.view[Len(k.view)].start < k.view[Len(k.view)].end
  BY <1>2, ViewRow
<1>9. QED
  BY <1>1, <1>2, <1>4, <1>5, <1>6, <1>7, <1>8 DEF Bottom


(* Row by row towards p: the loops end early only when p is seen.          *)
LEMMA TowardsSees ==
  ASSUME BufferOK, Height % 2 = 0, NEW l \in Views, NEW p \in 0..length, ~Seen(l, p)
  PROVE  LET t == Towards(l, p)
         IN  t.layout \in Views /\ (t.over => Seen(t.layout, p))
<1> DEFINE up == p > l.start
           On(t) == IF t.over THEN Seen(t.layout, p)
                    ELSE IF up THEN Bottom(t.layout) <= p ELSE p < t.layout.start
           S == {t \in [layout : Views, scrolled : Nat, over : BOOLEAN] : On(t)}
<1>1. p \in Nat /\ length \in Nat /\ p <= length
  BY BufferFacts
<1>2. TowardsStart(l) \in S
  <2> DEFINE t == TowardsStart(l)
  <2>1. /\ t \in [layout : Views, scrolled : Nat, over : BOOLEAN]
        /\ t.layout = l /\ t.over = FALSE
    BY DEF TowardsStart
  <2>2. /\ l.start \in Nat /\ Bottom(l) \in Nat /\ l.start < Bottom(l)
    <3>1. /\ l.start \in Nat /\ Bottom(l) \in Nat /\ l.view[1].start = l.start
          /\ 1 \in 1..Len(l.view) /\ Len(l.view) \in 1..Len(l.view) /\ 1 <= Len(l.view)
      BY ViewEnds
    <3>2. /\ l.view[1].start < l.view[1].end /\ l.view[1].end <= l.view[Len(l.view)].end
          /\ l.view[1].end \in Nat
      BY <3>1, ViewRow, RowsInOrder
    <3>3. QED
      BY <3>1, <3>2 DEF Bottom
  <2> HIDE DEF t
  <2>3. On(t)
    BY <1>1, <2>1, <2>2 DEF Seen
  <2> HIDE DEF On
  <2>4. QED
    BY <2>1, <2>3 DEF t
<1>3. ASSUME NEW t \in S PROVE TowardsTurn(p, up, t) \in S
  <2> DEFINE m == t.layout
             n == t.scrolled
             k == Scrolled(m, up)
             e == OneTowards(m, p, up, n)
  <2>1. m \in Views /\ n \in Nat
    OBVIOUS
  <2>2. CASE ~(~t.over /\ 4 * n < Height)
    BY <2>2 DEF TowardsTurn
  <2>3. CASE ~t.over /\ 4 * n < Height
    <3>1. TowardsTurn(p, up, t) = e
      BY <2>3 DEF TowardsTurn
    <3>2. up => Bottom(m) <= p
      BY <2>3
    <3>3. ~up => p < m.start
      BY <2>3
    <3>4. k = IF up THEN ScrolledUp(m) ELSE ScrolledDown(m)
      BY DEF Scrolled
    <3>5. e = [layout |-> IF k.did THEN k ELSE [k EXCEPT !.did = n > 0], scrolled |-> n + 1,
               over |-> ~k.did \/ FullyVisible(k.view, p)]
      BY DEF OneTowards
    <3> HIDE DEF m, n, k, up, e
    <3>6. /\ m.start \in Nat /\ Bottom(m) \in Nat
      BY <2>1, ViewEnds
    <3>7. CASE up
      <4>1. k \in Views /\ OneUp(m, k)
        BY <1>1, <2>1, <3>2, <3>4, <3>6, <3>7, UpStep
      <4>2. k.start <= Bottom(m) /\ k.did
        BY <2>1, <4>1, UpEnds
      <4>3. k.start <= p /\ (FullyVisible(k.view, p) <=> Seen(k, p)) /\ Bottom(k) \in Nat
        <5>1. k.start \in Nat /\ Bottom(k) \in Nat
          BY <4>1, ViewEnds
        <5>2. FullyVisible(k.view, p) <=> Seen(k, p)
          BY <4>1, WholeView
        <5>3. QED
          BY <1>1, <3>2, <3>6, <3>7, <4>2, <5>1, <5>2
      <4>4. FullyVisible(k.view, p) \in BOOLEAN
        BY DEF FullyVisible
      <4>5. /\ e \in [layout : Views, scrolled : Nat, over : BOOLEAN]
            /\ e.layout = k /\ e.over = FullyVisible(k.view, p)
        BY <2>1, <3>5, <4>1, <4>2, <4>4
      <4>6. On(e)
        BY <1>1, <3>7, <4>3, <4>5 DEF Seen
      <4> HIDE DEF On
      <4>7. QED
        BY <3>1, <4>5, <4>6
    <3>8. CASE ~up
      <4>1. k \in Views /\ OneDown(m, k)
        BY <1>1, <2>1, <3>3, <3>4, <3>6, <3>8, DownStep
      <4>2. Bottom(k) >= m.start /\ k.did
        BY <2>1, <4>1, DownEnds
      <4>3. p < Bottom(k) /\ (FullyVisible(k.view, p) <=> Seen(k, p)) /\ k.start \in Nat
        <5>1. k.start \in Nat /\ Bottom(k) \in Nat
          BY <4>1, ViewEnds
        <5>2. FullyVisible(k.view, p) <=> Seen(k, p)
          BY <4>1, WholeView
        <5>3. QED
          BY <1>1, <3>3, <3>6, <3>8, <4>2, <5>1, <5>2
      <4>4. FullyVisible(k.view, p) \in BOOLEAN
        BY DEF FullyVisible
      <4>5. /\ e \in [layout : Views, scrolled : Nat, over : BOOLEAN]
            /\ e.layout = k /\ e.over = FullyVisible(k.view, p)
        BY <2>1, <3>5, <4>1, <4>2, <4>4
      <4>6. On(e)
        BY <1>1, <3>8, <4>3, <4>5 DEF Seen
      <4> HIDE DEF On
      <4>7. QED
        BY <3>1, <4>5, <4>6
    <3>9. QED
      BY <3>7, <3>8
  <2>4. QED
    BY <2>2, <2>3
<1>4. PICK round : /\ Looped(S, [t \in S |-> TowardsTurn(p, up, t)], TowardsStart(l), Height, round)
                   /\ Towards(l, p) = round[Height]
  <2> HIDE DEF S
  <2>1. QED
    BY <1>2, <1>3, TowardsRounds
<1>5. Towards(l, p) \in S
  <2> HIDE DEF S
  <2>1. QED
    BY <1>4, LastRound, HeightAssumption
<1>6. QED
  BY <1>5

(* Up to p, which is not above the view: p is seen before the rounds end,  *)
(* for the bottom moves on in each of them.                                *)
LEMMA UpToSees ==
  ASSUME BufferOK, Height % 2 = 0, NEW l \in Views, NEW p \in 0..length, l.start <= p
  PROVE  UpTo(l, p) \in Views /\ UpTo(l, p).did /\ Seen(UpTo(l, p), p)
<1> DEFINE S == {k \in Views : k.did /\ k.start <= p}
           x == [l EXCEPT !.did = TRUE]
           n == MaxRows
<1>1. p \in Nat /\ length \in Nat /\ p <= length /\ n = length + 1 /\ n \in Nat
  BY BufferFacts DEF MaxRows
<1> HIDE DEF n
<1>2. x \in S
  <2>1. l \in [rows : SUBSET Row, view : Seq(Row), start : 0..length, did : BOOLEAN]
    BY DEF Views, Layouts
  <2>2. x.did /\ x.start = l.start /\ x \in Views
    BY <2>1, DidLayout
  <2>3. QED
    BY <2>2
<1>3. ASSUME NEW k \in S
      PROVE  /\ UpTurn(p, k) \in S
             /\ Seen(k, p) => UpTurn(p, k) = k
             /\ ~Seen(k, p) => Bottom(UpTurn(p, k)) > Bottom(k)
  <2> DEFINE m == ScrolledUp(k)
  <2>1. k \in Views /\ k.did /\ k.start <= p /\ (FullyVisible(k.view, p) <=> Seen(k, p))
        /\ k.start \in Nat /\ Bottom(k) \in Nat
    BY WholeView, ViewEnds
  <2>2. CASE Seen(k, p)
    BY <2>1, <2>2 DEF UpTurn
  <2>3. CASE ~Seen(k, p)
    <3>1. UpTurn(p, k) = m
      BY <2>1, <2>3 DEF UpTurn
    <3>2. Bottom(k) <= p
      BY <1>1, <2>1, <2>3 DEF Seen
    <3>3. m \in Views /\ OneUp(k, m)
      BY <1>1, <2>1, <3>2, UpStep
    <3> HIDE DEF m
    <3>4. m.start <= Bottom(k) /\ Bottom(k) < Bottom(m) /\ m.did /\ m.start \in Nat
          /\ Bottom(m) \in Nat
      BY <2>1, <3>3, UpEnds, ViewEnds
    <3>5. m.start <= p
      BY <1>1, <2>1, <3>2, <3>4
    <3>6. m \in S
      BY <3>3, <3>4, <3>5
    <3>7. Bottom(m) > Bottom(k)
      BY <2>1, <3>4
    <3> HIDE DEF S
    <3>8. QED
      BY <2>3, <3>1, <3>6, <3>7
  <2>4. QED
    BY <2>2, <2>3
<1>4. PICK round : /\ Looped(S, [k \in S |-> UpTurn(p, k)], x, n, round)
                   /\ UpTo(l, p) = round[n]
  <2> HIDE DEF S
  <2>1. QED
    BY <1>2, <1>3, UpRounds DEF n
<1>5. /\ \A i \in 0..n : round[i] \in S
      /\ \A i \in 0..(n - 1) : round[i + 1] = UpTurn(p, round[i])
  <2> HIDE DEF S, x
  <2>1. \A i \in 0..(n - 1) : i \in 0..n
    BY <1>1
  <2>2. QED
    BY <1>4, <2>1 DEF Looped
<1>6. \A i \in 0..n : Bottom(round[i]) \in Nat /\ Bottom(round[i]) <= length + 1
  BY <1>5, ViewEnds
<1> DEFINE T == {i \in 0..n : Seen(round[i], p) \/ Bottom(round[i]) > i}
<1>7. 0 \in T
  <2>1. 0 \in 0..n
    BY <1>1
  <2>2. round[0] \in Views
    BY <1>5, <2>1
  <2>3. Bottom(round[0]) > 0
    <3> DEFINE r == round[0]
    <3>1. Len(r.view) \in 1..Len(r.view)
      BY <2>2, ViewEnds
    <3>2. r.view[Len(r.view)].start < r.view[Len(r.view)].end
          /\ r.view[Len(r.view)].start \in Nat /\ r.view[Len(r.view)].end \in Nat
      BY <2>2, <3>1, ViewRow
    <3>3. QED
      BY <3>2 DEF Bottom
  <2>4. QED
    BY <2>1, <2>3
<1>8. ASSUME NEW i \in 0..(n - 1), i \in T PROVE i + 1 \in T
  <2>1. i \in 0..n /\ i + 1 \in 0..n /\ i \in Nat
    BY <1>1
  <2>2. round[i] \in S /\ round[i + 1] = UpTurn(p, round[i])
    BY <1>5, <2>1
  <2>3. Bottom(round[i]) \in Nat /\ Bottom(round[i + 1]) \in Nat
    BY <1>6, <2>1
  <2>4. Seen(round[i], p) \/ Bottom(round[i]) > i
    BY <1>8
  <2> HIDE DEF S
  <2>5. Seen(round[i + 1], p) \/ Bottom(round[i + 1]) > i + 1
    BY <1>3, <2>1, <2>2, <2>3, <2>4
  <2>6. QED
    BY <2>1, <2>5
<1>9. n \in T
  <2> HIDE DEF T, S
  <2>1. \A i \in 0..(n - 1) : i \in T => i + 1 \in T
    BY <1>8
  <2>2. \A i \in 0..n : i \in T
    BY <1>1, <1>7, <2>1, EveryRound
  <2>3. n \in 0..n
    BY <1>1
  <2>4. QED
    BY <2>2, <2>3
<1>10. n \in 0..n
  BY <1>1
<1>11. Seen(round[n], p)
  BY <1>1, <1>6, <1>9, <1>10
<1>12. QED
  BY <1>4, <1>5, <1>10, <1>11


(* Down as long as the end of the buffer is seen: the row of the end is    *)
(* either the last one of the view, or the one behind it.                  *)
AtEnd(p, k) == Bottom(k) = length + 1 /\ k.start <= p

PastEnd(p, k) ==
  /\ k.did /\ Bottom(k) <= length
  /\ Len(k.view) >= 2 /\ k.view[2].start <= p
  /\ \E e \in k.rows : e.start = Bottom(k) /\ e.end = length + 1

LEMMA DownFromEnd ==
  ASSUME BufferOK, Height % 2 = 0, NEW p \in 0..length, NEW k \in Views, AtEnd(p, k)
  PROVE  LET m == ScrolledDown(k)
         IN  m \in Views /\ (AtEnd(p, m) \/ PastEnd(p, m))
<1> DEFINE m == ScrolledDown(k)
           n == Len(k.view)
<1>1. /\ n \in Nat /\ n >= 1 /\ n \in 1..n /\ k.start \in Nat /\ length \in Nat /\ p \in Nat
      /\ Bottom(k) = length + 1 /\ k.start <= p
  BY ViewEnds DEF AtEnd
<1>2. m \in Views /\ (k.start # 0 => OneDown(k, m))
      /\ (k.start = 0 => m = [k EXCEPT !.did = FALSE])
  BY DownStep
<1>3. CASE k.start = 0
  <2>1. k \in [rows : SUBSET Row, view : Seq(Row), start : 0..length, did : BOOLEAN]
    BY DEF Views, Layouts
  <2>2. m.view = k.view /\ m.start = k.start
    BY <1>2, <1>3, <2>1
  <2>3. AtEnd(p, m)
    BY <1>1, <2>2 DEF AtEnd, Bottom
  <2>4. QED
    BY <1>2, <2>3
<1>4. CASE k.start # 0
  <2> HIDE DEF m
  <2>1. /\ OneDown(k, m) /\ m.start < k.start /\ m.did /\ m.start \in Nat
        /\ Len(m.view) \in Nat /\ Len(m.view) >= 1 /\ m.view[1].start = m.start
    BY <1>2, <1>4, DownEnds, ViewEnds
  <2>2. m.start <= p
    BY <1>1, <2>1
  <2>3. /\ k.rows \subseteq m.rows
        /\ Len(m.view) = n + 1 \/ 2 * Len(m.view) >= Height
        /\ Len(m.view) <= n + 1
        /\ \A i \in 2..Len(m.view) : m.view[i] = k.view[i - 1]
    BY <2>1 DEF OneDown
  <2>4. 2 * n <= Height
    BY WholeView
  <2>5. CASE Len(m.view) = n + 1
    <3>1. n + 1 \in 2..Len(m.view) /\ n + 1 - 1 = n
      BY <1>1, <2>5
    <3>2. m.view[n + 1] = k.view[n]
      BY <2>3, <3>1
    <3>3. Bottom(m) = Bottom(k)
      BY <2>5, <3>2 DEF Bottom
    <3>4. AtEnd(p, m)
      BY <1>1, <2>2, <3>3 DEF AtEnd
    <3>5. QED
      BY <1>2, <3>4 DEF m
  <2>6. CASE Len(m.view) # n + 1
    <3>9. 2 * Len(m.view) >= Height /\ Len(m.view) <= n
      BY <1>1, <2>1, <2>3, <2>6
    <3>10. Len(m.view) = n /\ n >= 2
      <4> HIDE DEF n
      <4>1. QED
        BY <1>1, <2>1, <2>4, <3>9, HeightAssumption
    <3>1. Len(m.view) = n /\ n >= 2 /\ 2 \in 2..n /\ n \in 2..n /\ 2 - 1 = 1 /\ n > 1
          /\ n - 1 \in 1..n
      BY <1>1, <3>10
    <3>2. m.view[n] = k.view[n - 1] /\ m.view[2] = k.view[1]
      BY <2>3, <3>1
    <3> DEFINE e == k.view[n]
    <3>3. e \in k.rows /\ e.start = k.view[n - 1].end /\ e.end = length + 1
          /\ e.start < e.end /\ e.start \in Nat
      BY <1>1, <3>1, ViewRow DEF Bottom
    <3>4. Bottom(m) = e.start
      BY <3>1, <3>2, <3>3 DEF Bottom
    <3>5. m.view[2].start <= p
      BY <1>1, <3>2, ViewEnds
    <3>6. e \in m.rows
      BY <2>3, <3>3
    <3> HIDE DEF e
    <3>7. PastEnd(p, m)
      BY <1>1, <2>1, <3>1, <3>3, <3>4, <3>5, <3>6 DEF PastEnd
    <3>8. QED
      BY <1>2, <3>7 DEF m
  <2>7. QED
    BY <2>5, <2>6
<1>5. QED
  BY <1>3, <1>4

(* Back up by one row, the end is the last row again.                      *)
LEMMA UpToEnd ==
  ASSUME BufferOK, Height % 2 = 0, NEW p \in 0..length, NEW k \in Views, PastEnd(p, k)
  PROVE  ScrolledUp(k) \in Views /\ AtEnd(p, ScrolledUp(k))
<1> DEFINE m == ScrolledUp(k)
           n == Len(k.view)
<1>1. /\ Bottom(k) <= length /\ length \in Nat /\ Bottom(k) \in Nat /\ n >= 2 /\ n \in Nat
      /\ k.view[2].start <= p
  BY ViewEnds DEF PastEnd
<1>2. m \in Views /\ OneUp(k, m)
  BY <1>1, UpStep
<1> HIDE DEF m
<1>3. /\ k.rows \subseteq m.rows /\ Len(m.view) = n
      /\ \A i \in 1..(n - 1) : m.view[i] = k.view[i + 1]
      /\ m.view[Len(m.view)].start = Bottom(k)
  BY <1>2 DEF OneUp, Bottom
<1>4. PICK e \in k.rows : e.start = Bottom(k) /\ e.end = length + 1
  BY DEF PastEnd
<1> DEFINE r == m.view[Len(m.view)]
<1>5. r \in m.rows /\ e \in m.rows /\ r.start = e.start /\ GoodRows(m.rows)
      /\ r.end = Bottom(m)
  BY <1>2, <1>3, <1>4, ViewEnds, ViewRow, ViewsAreLayouts, LayoutFacts DEF Bottom
<1> HIDE DEF r
<1>6. r = e
  <2>1. /\ r.start \in Nat /\ r.end \in Nat /\ r.start < r.end
        /\ e.start \in Nat /\ e.end \in Nat /\ e.start < e.end
    BY <1>5, GoodRow
  <2>2. r # e => r.end <= e.start \/ e.end <= r.start
    BY <1>5, Disjoint
  <2>3. QED
    BY <1>5, <2>1, <2>2
<1>7. m.start <= p
  <2>1. 1 \in 1..(n - 1) /\ 1 + 1 = 2
    BY <1>1
  <2>2. m.view[1] = k.view[2]
    BY <1>3, <2>1
  <2>3. m.view[1].start = m.start
    BY <1>2, ViewEnds
  <2>4. QED
    BY <1>1, <2>2, <2>3
<1>8. AtEnd(p, m)
  BY <1>4, <1>5, <1>6, <1>7 DEF AtEnd
<1>9. QED
  BY <1>2, <1>8 DEF m

LEMMA DownmostSees ==
  ASSUME BufferOK, Height % 2 = 0, NEW l \in Views, NEW p \in 0..length, AtEnd(p, l)
  PROVE  Downmost(l) \in Views /\ AtEnd(p, Downmost(l))
<1> DEFINE S == {k \in Views : AtEnd(p, k) \/ PastEnd(p, k)}
           x == [l EXCEPT !.did = TRUE]
           n == MaxRows
           k == Lowest(l)
<1>1. length \in Nat /\ Len(text) = length /\ n \in Nat
  BY BufferFacts DEF MaxRows
<1> HIDE DEF n
<1>2. x \in S
  <2>1. l \in [rows : SUBSET Row, view : Seq(Row), start : 0..length, did : BOOLEAN]
    BY DEF Views, Layouts
  <2>2. x.view = l.view /\ x.start = l.start /\ x \in Views
    BY <2>1, DidLayout
  <2> HIDE DEF x
  <2>3. AtEnd(p, x)
    BY <2>2 DEF AtEnd, Bottom
  <2>4. QED
    BY <2>2, <2>3
<1>3. ASSUME NEW m \in S PROVE DownTurn(m) \in S
  <2>1. FullyVisible(m.view, Len(text)) <=> Seen(m, length)
    BY <1>1, WholeView
  <2>2. CASE AtEnd(p, m)
    BY <2>2, DownFromEnd DEF DownTurn
  <2>3. CASE PastEnd(p, m)
    <3>1. ~Seen(m, length)
      <4>1. Bottom(m) <= length /\ Bottom(m) \in Nat
        BY <2>3, ViewEnds DEF PastEnd
      <4>2. QED
        BY <1>1, <4>1 DEF Seen
    <3>2. DownTurn(m) = m
      BY <2>1, <3>1 DEF DownTurn
    <3>3. QED
      BY <3>2
  <2>4. QED
    BY <2>2, <2>3
<1>4. PICK round : /\ Looped(S, [m \in S |-> DownTurn(m)], x, n, round)
                   /\ Lowest(l) = round[n]
  <2> HIDE DEF S
  <2>1. QED
    BY <1>2, <1>3, DownRounds DEF n
<1>5. k \in S
  <2> HIDE DEF S
  <2>1. QED
    BY <1>1, <1>4, LastRound
<1>6. Downmost(l) = IF k.did THEN ScrolledUp(k) ELSE k
  BY DEF Downmost, Lowest
<1> HIDE DEF k
<1>7. CASE PastEnd(p, k)
  <2>1. k.did
    BY <1>7 DEF PastEnd
  <2>2. ScrolledUp(k) \in Views /\ AtEnd(p, ScrolledUp(k))
    BY <1>5, <1>7, UpToEnd
  <2>3. QED
    BY <1>6, <2>1, <2>2
<1>8. CASE AtEnd(p, k)
  <2>1. ScrolledUp(k) = [k EXCEPT !.did = FALSE] /\ ScrolledUp(k) \in Views
    BY <1>5, <1>8, UpStep DEF AtEnd
  <2>2. k \in [rows : SUBSET Row, view : Seq(Row), start : 0..length, did : BOOLEAN]
    BY <1>5 DEF Views, Layouts
  <2>3. ScrolledUp(k).view = k.view /\ ScrolledUp(k).start = k.start
    BY <2>1, <2>2
  <2>4. AtEnd(p, ScrolledUp(k))
    BY <1>8, <2>3 DEF AtEnd, Bottom
  <2>5. QED
    BY <1>5, <1>6, <1>8, <2>1, <2>4
<1>9. QED
  BY <1>5, <1>7, <1>8


(* The row p is in is the one behind those that end at p or in front of it.*)
InRow(p, l, j) == j \in 1..Len(l.view) /\ l.view[j].start <= p /\ p < l.view[j].end

LEMMA RowWith ==
  ASSUME BufferOK, NEW l \in Views, NEW p \in 0..length, Seen(l, p)
  PROVE  \E j \in 1..Len(l.view) :
           InRow(p, l, j) /\ Cardinality({i \in DOMAIN l.view : l.view[i].end <= p}) = j - 1
<1> DEFINE n == Len(l.view)
           T == {i \in 1..n : p < l.view[i].end}
           C == {i \in DOMAIN l.view : l.view[i].end <= p}
<1>1. /\ n \in Nat /\ n >= 1 /\ n \in 1..n /\ l.view[1].start = l.start /\ p \in Nat
      /\ l.start <= p /\ p < l.view[n].end
  BY ViewEnds, BufferFacts DEF Seen, Bottom
<1>2. \A i \in 1..n : /\ l.view[i].start \in Nat /\ l.view[i].end \in Nat
                      /\ i > 1 => l.view[i].start = l.view[i - 1].end
  BY ViewRow
<1>3. DOMAIN l.view = 1..n
  BY LayoutFacts DEF Views
<1>4. T \in SUBSET Nat /\ n \in T
  BY <1>1
<1> DEFINE j == Min(T)
<1>5. j \in T /\ \A i \in T : j <= i
  <2> HIDE DEF T
  <2>1. QED
    BY <1>4, LeastOf
<1>6. j \in 1..n /\ p < l.view[j].end
  BY <1>5
<1>7. \A i \in 1..n : i < j => l.view[i].end <= p
  <2>1. SUFFICES ASSUME NEW i \in 1..n, i < j PROVE l.view[i].end <= p
    OBVIOUS
  <2>2. i \notin T
    <3> HIDE DEF T
    <3>1. j \in Nat /\ i \in Nat
      BY <1>6
    <3> HIDE DEF j
    <3>2. ~(j <= i)
      BY <2>1, <3>1
    <3>3. QED
      BY <1>5, <3>2 DEF j
  <2>3. QED
    BY <1>1, <1>2, <2>2
<1> HIDE DEF j, n
<1>8. l.view[j].start <= p
  <2>1. CASE j = 1
    BY <1>1, <2>1
  <2>2. CASE j # 1
    <3>1. j > 1 /\ j - 1 \in 1..n /\ j - 1 < j
      BY <1>1, <1>6, <2>2
    <3>2. QED
      BY <1>2, <1>6, <1>7, <3>1
  <2>3. QED
    BY <2>1, <2>2
<1>9. \A i \in 1..n : j <= i => ~(l.view[i].end <= p)
  <2>1. SUFFICES ASSUME NEW i \in 1..n, j <= i PROVE ~(l.view[i].end <= p)
    OBVIOUS
  <2>2. l.view[j].end <= l.view[i].end
    BY <1>6, <2>1, RowsInOrder DEF n
  <2>3. QED
    BY <1>1, <1>2, <1>6, <2>2
<1>10. C = 1..(j - 1)
  <2>1. ASSUME NEW i \in 1..n PROVE l.view[i].end <= p <=> i \in 1..(j - 1)
    <3>1. i < j \/ j <= i
      BY <1>6
    <3>2. i < j <=> i \in 1..(j - 1)
      BY <1>6
    <3>3. i < j => l.view[i].end <= p
      BY <1>7
    <3>4. j <= i => ~(l.view[i].end <= p) /\ ~(i < j)
      BY <1>6, <1>9
    <3>5. QED
      BY <3>1, <3>2, <3>3, <3>4
  <2>2. \A i \in 1..(j - 1) : i \in 1..n
    BY <1>1, <1>6
  <2>3. QED
    BY <1>3, <2>1, <2>2
<1>11. Cardinality(1..(j - 1)) = j - 1
  <2>1. 1 \in Int /\ j - 1 \in Int /\ j >= 1
    BY <1>6
  <2>2. Cardinality(1..(j - 1)) = IF 1 > j - 1 THEN 0 ELSE j - 1 - 1 + 1
    BY <2>1, FS_Interval
  <2> DEFINE c == Cardinality(1..(j - 1))
  <2>3. c = IF 1 > j - 1 THEN 0 ELSE j - 1 - 1 + 1
    BY <2>2
  <2> HIDE DEF c
  <2>4. CASE j = 1
    <3>1. 1 > j - 1 /\ j - 1 = 0
      BY <2>4
    <3>2. c = 0
      BY <2>3, <3>1
    <3>3. QED
      BY <3>1, <3>2 DEF c
  <2>5. CASE j > 1
    <3>1. ~(1 > j - 1) /\ j - 1 - 1 + 1 = j - 1
      BY <1>6, <2>5
    <3>2. c = j - 1
      BY <2>3, <3>1
    <3>3. QED
      BY <3>2 DEF c
  <2>6. QED
    BY <1>6, <2>4, <2>5
<1>12. InRow(p, l, j)
  BY <1>6, <1>8 DEF InRow, n
<1>13. QED
  BY <1>6, <1>10, <1>11, <1>12 DEF n

LEMMA RowSeen ==
  ASSUME BufferOK, NEW l \in Views, NEW p \in 0..length, NEW j, InRow(p, l, j)
  PROVE  Seen(l, p)
<1>1. /\ j \in 1..Len(l.view) /\ l.view[j].start <= p /\ p < l.view[j].end
  BY DEF InRow
<1>2. /\ 1 \in 1..Len(l.view) /\ Len(l.view) \in 1..Len(l.view) /\ Len(l.view) \in Nat
      /\ l.view[1].start = l.start /\ l.start \in Nat /\ Bottom(l) \in Nat /\ p \in Nat
  BY ViewEnds, BufferFacts
<1>3. 1 <= j /\ j <= Len(l.view)
  BY <1>1
<1>4. l.view[1].start <= l.view[j].start /\ l.view[j].end <= l.view[Len(l.view)].end
  BY <1>1, <1>2, <1>3, RowsInOrder
<1>5. l.view[j].start \in Nat /\ l.view[j].end \in Nat
  BY <1>1, ViewRow
<1>6. QED
  BY <1>1, <1>2, <1>4, <1>5 DEF Seen, Bottom

(* Down to the middle of the view: the row with p goes down by one row in  *)
(* each round, and there are fewer rounds than rows left below it.         *)
LEMMA CenteredSees ==
  ASSUME BufferOK, Height % 2 = 0, NEW l \in Views, NEW p \in 0..length,
         NEW n \in Nat, InRow(p, l, n + 1)
  PROVE  Centered(l, n) \in Views /\ Seen(Centered(l, n), p)
<1> DEFINE On(t) == \E j \in 1..(t.scrolled + 1) : InRow(p, t.layout, j)
           S == {t \in [layout : Views, scrolled : Nat] : On(t)}
<1>1. CenterStart(l, n) \in S
  <2> DEFINE x == [l EXCEPT !.did = TRUE]
             t == CenterStart(l, n)
  <2>1. l \in [rows : SUBSET Row, view : Seq(Row), start : 0..length, did : BOOLEAN]
    BY DEF Views, Layouts
  <2>2. x.view = l.view /\ x \in Views
    BY <2>1, DidLayout
  <2>3. t = [layout |-> x, scrolled |-> n]
    BY DEF CenterStart
  <2> HIDE DEF x
  <2>4. t \in [layout : Views, scrolled : Nat] /\ t.layout = x /\ t.scrolled = n
    BY <2>2, <2>3
  <2>5. InRow(p, x, n + 1) /\ n + 1 \in 1..(n + 1)
    BY <2>2 DEF InRow
  <2> HIDE DEF t
  <2>6. On(t)
    BY <2>4, <2>5
  <2> HIDE DEF On
  <2>7. QED
    BY <2>4, <2>6 DEF t
<1>2. ASSUME NEW t \in S PROVE CenterTurn(t) \in S
  <2> DEFINE m == t.layout
             k == ScrolledDown(m)
             c == t.scrolled
             e == [layout |-> k, scrolled |-> c + 1]
  <2>1. m \in Views /\ c \in Nat /\ On(t)
    OBVIOUS
  <2>2. CASE ~(m.did /\ 4 * c < Height)
    BY <2>2 DEF CenterTurn
  <2>3. CASE m.did /\ 4 * c < Height
    <3>1. CenterTurn(t) = e
      BY <2>3 DEF CenterTurn
    <3>2. PICK j \in 1..(c + 1) : InRow(p, m, j)
      BY <2>1
    <3> HIDE DEF m, k, c, e, On
    <3>3. /\ k \in Views /\ (m.start # 0 => OneDown(m, k))
          /\ (m.start = 0 => k = [m EXCEPT !.did = FALSE])
      BY <2>1, DownStep DEF k
    <3>4. \E i \in 1..(c + 2) : InRow(p, k, i)
      <4>1. CASE m.start = 0
        <5>1. m \in [rows : SUBSET Row, view : Seq(Row), start : 0..length, did : BOOLEAN]
          BY <2>1 DEF Views, Layouts
        <5>2. k.view = m.view
          BY <3>3, <4>1, <5>1
        <5>3. InRow(p, k, j) /\ j \in 1..(c + 2)
          BY <2>1, <3>2, <5>2 DEF InRow
        <5>4. QED
          BY <5>3
      <4>2. CASE m.start # 0
        <5>1. /\ Len(k.view) = Len(m.view) + 1 \/ 2 * Len(k.view) >= Height
              /\ \A i \in 2..Len(k.view) : k.view[i] = m.view[i - 1]
          BY <3>3, <4>2 DEF OneDown
        <5>2. Len(k.view) \in Nat /\ Len(m.view) \in Nat
          BY <2>1, <3>3, ViewEnds
        <5>3. j + 1 \in 2..Len(k.view) /\ j + 1 - 1 = j /\ j + 1 \in 1..(c + 2)
          <6>1. j \in 1..Len(m.view) /\ j <= c + 1 /\ j \in Nat
            BY <2>1, <3>2 DEF InRow
          <6>2. 2 * Len(k.view) >= Height => j + 1 <= Len(k.view)
            BY <2>1, <2>3, <5>2, <6>1, HeightAssumption
          <6>3. j + 1 <= Len(k.view)
            BY <5>1, <5>2, <6>1, <6>2
          <6>4. QED
            BY <2>1, <5>2, <6>1, <6>3
        <5>4. k.view[j + 1] = m.view[j]
          BY <5>1, <5>3
        <5>5. InRow(p, k, j + 1)
          BY <3>2, <5>2, <5>3, <5>4 DEF InRow
        <5>6. QED
          BY <5>3, <5>5
      <4>3. QED
        BY <4>1, <4>2
    <3>5. e \in [layout : Views, scrolled : Nat] /\ e.layout = k /\ e.scrolled = c + 1
      BY <2>1, <3>3 DEF e
    <3>6. e.scrolled + 1 = c + 2
      BY <2>1, <3>5
    <3>7. On(e)
      BY <3>4, <3>5, <3>6 DEF On
    <3>8. QED
      BY <3>1, <3>5, <3>7
  <2>4. QED
    BY <2>2, <2>3
<1>3. PICK round : /\ Looped(S, [t \in S |-> CenterTurn(t)], CenterStart(l, n), Height, round)
                   /\ Centered(l, n) = round[Height].layout
  <2> HIDE DEF S
  <2>1. QED
    BY <1>1, <1>2, CenterRounds
<1>4. round[Height] \in S
  <2> HIDE DEF S
  <2>1. QED
    BY <1>3, LastRound, HeightAssumption
<1>5. QED
  BY <1>3, <1>4, RowSeen

(* The branches of ScrollToPosition, once p is seen at the top of the view *)
(* or below it.                                                            *)
LEMMA PlacedSees ==
  ASSUME BufferOK, Height % 2 = 0, EndsMarked,
         NEW m \in Views, NEW p \in 0..length, m.did, Seen(m, p)
  PROVE  Placed(m, p) \in Views /\ Seen(Placed(m, p), p)
<1> DEFINE c == Cardinality({i \in DOMAIN m.view : m.view[i].end <= p})
<1>1. /\ Len(text) = length /\ length \in Nat /\ p \in Nat /\ p <= length
      /\ Bottom(m) \in Nat /\ Bottom(m) <= length + 1 /\ Bottom(m) # length
      /\ Last(m.view).end = Bottom(m)
  BY BufferFacts, ViewEnds DEF Bottom
<1>2. Placed(m, p) = IF Bottom(m) >= length THEN Downmost(m) ELSE Centered(m, c)
  BY <1>1 DEF Placed
<1> HIDE DEF c
<1>3. CASE Bottom(m) >= length
  <2>1. AtEnd(p, m)
    BY <1>1, <1>3 DEF AtEnd, Seen
  <2>2. Downmost(m) \in Views /\ AtEnd(p, Downmost(m))
    BY <2>1, DownmostSees
  <2>3. Seen(Downmost(m), p)
    BY <1>1, <2>2 DEF AtEnd, Seen
  <2>4. QED
    BY <1>2, <1>3, <2>2, <2>3
<1>4. CASE ~(Bottom(m) >= length)
  <2>1. PICK j \in 1..Len(m.view) : InRow(p, m, j) /\ c = j - 1
    BY RowWith DEF c
  <2>2. c \in Nat /\ c + 1 = j
    BY <2>1, ViewEnds
  <2>3. InRow(p, m, c + 1)
    BY <2>1, <2>2
  <2>4. Centered(m, c) \in Views /\ Seen(Centered(m, c), p)
    BY <2>2, <2>3, CenteredSees
  <2>5. QED
    BY <1>2, <1>4, <2>4
<1>5. QED
  BY <1>3, <1>4

LEMMA ScrolledToSees ==
  ASSUME BufferOK, Height % 2 = 0, EndsMarked, NEW l \in Layouts, NEW p \in 0..length
  PROVE  FullyVisible(ScrolledTo(l, p).view, p)
<1> DEFINE m == Formatted(l)
           t == Towards(m, p)
           f == ShownFrom(Format(t.layout.rows, p))
           k == UpTo(f, p)
<1>1. m \in Views /\ (FullyVisible(m.view, p) <=> Seen(m, p))
  BY FormattedShows, WholeView
<1>2. ScrolledTo(l, p) = MovedTo(m, p)
  BY DEF ScrolledTo
<1> HIDE DEF m
<1>3. CASE FullyVisible(m.view, p)
  BY <1>2, <1>3 DEF MovedTo
<1>4. CASE ~FullyVisible(m.view, p)
  <2>1. ScrolledTo(l, p) = JumpedTo(t, p)
    BY <1>2, <1>4 DEF MovedTo
  <2>2. t.layout \in Views /\ (t.over => Seen(t.layout, p))
    BY <1>1, <1>4, TowardsSees
  <2> HIDE DEF t
  <2>3. CASE t.over
    <3>1. ScrolledTo(l, p) = t.layout
      BY <2>1, <2>3 DEF JumpedTo
    <3>2. QED
      BY <2>2, <2>3, <3>1, WholeView
  <2>4. CASE ~t.over
    <3>1. ScrolledTo(l, p) = Placed(k, p)
      BY <2>1, <2>4 DEF JumpedTo
    <3>2. GoodRows(t.layout.rows) /\ Marked(t.layout.rows)
      BY <2>2, ViewsAreLayouts, LayoutFacts
    <3>3. f \in Views /\ f.start <= p
      BY <3>2, FormatShows
    <3> HIDE DEF f
    <3>4. k \in Views /\ k.did /\ Seen(k, p)
      BY <3>3, UpToSees
    <3> HIDE DEF k
    <3>5. Placed(k, p) \in Views /\ Seen(Placed(k, p), p)
      BY <3>4, PlacedSees
    <3>6. QED
      BY <3>1, <3>5, WholeView
  <2>5. QED
    BY <2>3, <2>4
<1>5. QED
  BY <1>3, <1>4

LEMMA LayoutInvSees == LayoutInv => CaretShownInText
<1> SUFFICES ASSUME LayoutInv, Height % 2 = 0, EndsMarked, NEW p \in 0..length
             PROVE  FullyVisible(ScrolledTo(Current, p).view, p)
  BY DEF CaretShownInText, CaretShown
<1>1. BufferOK /\ Current \in Layouts
  BY ValidatedGood DEF LayoutInv
<1>2. QED
  BY <1>1, ScrolledToSees

(* ScrollToPosition shows the position it is given, from every view and    *)
(* every cache that edits, resizes and scrolls can lead to.                *)
THEOREM CaretIsShown == LayoutSpec => []CaretShownInText
BY LayoutInvariant, LayoutInvSees, PTL

(* The layout, its queries and its scrolls leave the markers alone, and    *)
(* what an edit does to them is an edit of the marker set: all that is     *)
(* proved about the markers holds below a view, too.                       *)
THEOREM LayoutDrivesMarkers == LayoutSpec => Spec
<1>1. LayoutInit => Init
  BY DEF LayoutInit
<1>2. LayoutInv /\ [LayoutNext]_allVars => [Next]_vars
  <2>1. SUFFICES ASSUME LayoutInv, [LayoutNext]_allVars PROVE [Next]_vars
    OBVIOUS
  <2>2. ASSUME NEW p \in 0..length, NEW s \in Texts, InsertBefore(p, s) PROVE Next
    <3>1. s \in Seq(Char) /\ s # << >>
      BY TextsAssumption
    <3>2. Len(s) \in Nat /\ Len(s) >= 1
      BY <3>1
    <3>3. DidInsertBefore(p, Len(s))
      BY <2>2 DEF InsertBefore
    <3>4. Len(s) \in 1..MaxLength
      <4>1. length \in Nat /\ length + Len(s) <= MaxLength
        BY <2>1, <3>3, BufferFacts DEF DidInsertBefore, LayoutInv
      <4>2. QED
        BY <3>2, <4>1, MaxLengthAssumption
    <3>5. QED
      BY <3>3, <3>4 DEF Next
  <2>3. ASSUME NEW start \in 0..length, NEW end \in 0..length, Delete(start, end) PROVE Next
    BY <2>3 DEF Delete, Next
  <2>4. ASSUME NEW start \in 0..length, NEW end \in 0..length, NEW type \in Type \cup {NoType},
               SetMarker(start, end, type)
        PROVE  Next
    BY <2>4 DEF SetMarker, Next
  <2>5. ASSUME NEW p \in 0..length, ComputeLine(p) PROVE UNCHANGED vars
    BY <2>5 DEF ComputeLine, Show
  <2>6. ASSUME NEW p \in 0..length, ScrollToPosition(p) PROVE UNCHANGED vars
    BY <2>6 DEF ScrollToPosition, ShowOf, Show
  <2>7. ASSUME NEW new \in Sizes, Resize(new) PROVE UNCHANGED vars
    BY <2>7 DEF Resize
  <2>8. ASSUME FormatIfNeeded \/ ScrollDown \/ ScrollUp PROVE UNCHANGED vars
    BY <2>8 DEF FormatIfNeeded, ScrollDown, ScrollUp, ShowOf, Show
  <2>9. CASE UNCHANGED allVars
    BY <2>9 DEF allVars
  <2>10. QED
    BY <2>1, <2>2, <2>3, <2>4, <2>5, <2>6, <2>7, <2>8, <2>9 DEF LayoutNext
<1>3. QED
  BY <1>1, <1>2, LayoutInvariant, PTL DEF LayoutSpec, Spec
=============================================================================
