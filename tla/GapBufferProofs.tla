--------------------------- MODULE GapBufferProofs ---------------------------
(***************************************************************************)
(* Proofs about the gap buffer, for every alphabet and every value of the  *)
(* length constants.  The member functions of BufferCore are treated one   *)
(* by one: each keeps CoreOK, and its effect on the characters is stated   *)
(* through GetCharAt.  The theorems about Spec follow from these lemmas.   *)
(***************************************************************************)
EXTENDS GapBuffer, SequenceTheorems, TLAPS

Cells(n) == [0..(n - 1) -> Char \cup {Uninit}]

(* The fields of a core that satisfies CoreOK, in the form the provers use.*)
LEMMA CoreFields ==
  ASSUME NEW c, CoreOK(c)
  PROVE  /\ c.cwch \in Nat /\ c.end \in Nat /\ c.gapStart \in Nat /\ c.gapEnd \in Nat
         /\ c.pwch \in Cells(c.cwch)
         /\ c.gapStart <= c.end
         /\ c.gapStart + MIN_GAP_LENGTH <= c.gapEnd
         /\ c.gapEnd <= c.cwch
         /\ c.end + (c.gapEnd - c.gapStart) = c.cwch
         /\ DOMAIN c.pwch = 0..(c.cwch - 1)
  BY LengthsAssumption DEF CoreOK, Cells

(* A record is a core in good shape if its fields are; the counterpart of  *)
(* CoreFields.                                                             *)
LEMMA CoreIntro ==
  ASSUME NEW w \in Nat, NEW e \in Nat, NEW gs \in Nat, NEW ge \in Nat, NEW cells \in Cells(w),
         gs <= e, e + (ge - gs) = w, MIN_GAP_LENGTH <= ge - gs,
         \A i \in 0..(w - 1) : (i < gs \/ i >= ge) => cells[i] \in Char
  PROVE  CoreOK([cwch |-> w, end |-> e, gapStart |-> gs, gapEnd |-> ge, pwch |-> cells])
  BY DEF CoreOK, Cells

(* GetCharAt in terms of the fields.                                       *)
LEMMA GetCharAtFields ==
  ASSUME NEW w, NEW e, NEW gs, NEW ge, NEW cells, NEW c,
         c = [cwch |-> w, end |-> e, gapStart |-> gs, gapEnd |-> ge, pwch |-> cells]
  PROVE  \A p : GetCharAt(c, p) = cells[IF p >= gs THEN p + (ge - gs) ELSE p]
  BY DEF GetCharAt, CellAt

(* MoveMemory inside the cells copies k cells and leaves the others.       *)
LEMMA MoveMemoryCells ==
  ASSUME NEW n \in Nat, NEW cells \in Cells(n),
         NEW dst \in Nat, NEW src \in Nat, NEW k \in Nat,
         dst + k <= n, src + k <= n
  PROVE  /\ MoveMemory(cells, dst, src, k) \in Cells(n)
         /\ \A i \in 0..(n - 1) :
              MoveMemory(cells, dst, src, k)[i] =
                IF dst <= i /\ i < dst + k THEN cells[src + (i - dst)] ELSE cells[i]
<1>1. DOMAIN cells = 0..(n - 1) /\ \A i \in 0..(n - 1) : cells[i] \in Char \cup {Uninit}
  BY DEF Cells
<1>2. \A i \in 0..(n - 1) : dst <= i /\ i < dst + k => src + (i - dst) \in 0..(n - 1)
  OBVIOUS
<1> QED BY <1>1, <1>2 DEF MoveMemory, Cells

(* moveGap changes no character, and neither the length of the text nor    *)
(* the size of the gap; the gap starts where it was asked to.              *)
LEMMA MoveGapCorrect ==
  ASSUME NEW c, CoreOK(c), NEW s \in 0..c.end
  PROVE  /\ CoreOK(moveGap(c, s))
         /\ moveGap(c, s).cwch = c.cwch
         /\ moveGap(c, s).end = c.end
         /\ moveGap(c, s).gapStart = s
         /\ moveGap(c, s).gapEnd = s + (c.gapEnd - c.gapStart)
         /\ \A p \in 0..(c.end - 1) : GetCharAt(moveGap(c, s), p) = GetCharAt(c, p)
<1> DEFINE m == moveGap(c, s)
           w == c.cwch
           e == c.end
           gs == c.gapStart
           ge == c.gapEnd
           old == c.pwch
           new == m.pwch
           t == ge - (gs - s)
<1>1. /\ w \in Nat /\ e \in Nat /\ gs \in Nat /\ ge \in Nat
      /\ gs <= e /\ gs + MIN_GAP_LENGTH <= ge /\ ge <= w
      /\ e + (ge - gs) = w
      /\ MIN_GAP_LENGTH \in Nat \ {0}
      /\ s \in 0..e
  BY CoreFields, LengthsAssumption
<1>2. old \in Cells(w)
  BY CoreFields
<1>3. \A i \in 0..(w - 1) : (i < gs \/ i >= ge) => old[i] \in Char
  BY DEF CoreOK
<1>4. /\ m.cwch = w /\ m.end = e /\ m.gapStart = s /\ m.gapEnd = t
      /\ m = [cwch |-> w, end |-> e, gapStart |-> s, gapEnd |-> t, pwch |-> new]
  BY <1>1 DEF moveGap
<1>5. /\ gs - s > 0 => new = MoveMemory(old, t, s, gs - s)
      /\ gs - s < 0 => new = MoveMemory(old, gs, ge, -(gs - s))
      /\ gs - s = 0 => new = old
  BY <1>1 DEF moveGap
<1>6. /\ \A p : GetCharAt(c, p) = old[IF p >= gs THEN p + (ge - gs) ELSE p]
      /\ \A p : GetCharAt(m, p) = new[IF p >= s THEN p + (t - s) ELSE p]
  BY <1>4 DEF GetCharAt, CellAt
<1>7. t \in Nat /\ t = s + (ge - gs) /\ s + MIN_GAP_LENGTH <= t /\ t <= w
  BY <1>1
<1> HIDE DEF m, w, e, gs, ge, old, new, t
(* Where each cell of the new core takes its content from.                 *)
<1>8. /\ new \in Cells(w)
      /\ \A i \in 0..(w - 1) :
           new[i] = IF t <= i /\ i < ge THEN old[s + (i - t)]
                    ELSE IF gs <= i /\ i < s THEN old[ge + (i - gs)]
                    ELSE old[i]
  <2>1. CASE s < gs
    <3>1. /\ gs - s \in Nat /\ t + (gs - s) = ge /\ s + (gs - s) <= w /\ t + (gs - s) <= w
          /\ gs - s > 0
      BY <2>1, <1>1, <1>7
    <3>2. new = MoveMemory(old, t, s, gs - s)
      BY <3>1, <1>5
    <3>3. /\ new \in Cells(w)
          /\ \A i \in 0..(w - 1) :
               new[i] = IF t <= i /\ i < t + (gs - s) THEN old[s + (i - t)] ELSE old[i]
      BY <3>1, <3>2, <1>1, <1>2, <1>7, MoveMemoryCells
    <3> QED BY <2>1, <3>1, <3>3, <1>1
  <2>2. CASE s > gs
    <3>1. /\ -(gs - s) \in Nat /\ gs + (-(gs - s)) = s /\ ge + (-(gs - s)) <= w
          /\ gs + (-(gs - s)) <= w /\ gs - s < 0
      BY <2>2, <1>1, <1>7
    <3>2. new = MoveMemory(old, gs, ge, -(gs - s))
      BY <3>1, <1>5
    <3>3. /\ new \in Cells(w)
          /\ \A i \in 0..(w - 1) :
               new[i] = IF gs <= i /\ i < gs + (-(gs - s)) THEN old[ge + (i - gs)] ELSE old[i]
      BY <3>1, <3>2, <1>1, <1>2, MoveMemoryCells
    <3>4. \A i \in 0..(w - 1) : ~(t <= i /\ i < ge)
      BY <2>2, <1>1, <1>7
    <3> QED BY <3>1, <3>3, <3>4
  <2>3. CASE s = gs
    <3>1. new = old
      BY <2>3, <1>1, <1>5
    <3>2. \A i \in 0..(w - 1) : ~(t <= i /\ i < ge) /\ ~(gs <= i /\ i < s)
      BY <2>3, <1>1, <1>7
    <3> QED BY <3>1, <3>2, <1>2
  <2> QED BY <2>1, <2>2, <2>3, <1>1
<1>9. \A i \in 0..(w - 1) : (i < s \/ i >= t) => new[i] \in Char
  <2> SUFFICES ASSUME NEW i \in 0..(w - 1), i < s \/ i >= t
               PROVE  new[i] \in Char
    OBVIOUS
  <2>1. CASE t <= i /\ i < ge
    <3>1. s + (i - t) \in 0..(w - 1) /\ s + (i - t) < gs
      BY <2>1, <1>1, <1>7
    <3> QED BY <2>1, <3>1, <1>3, <1>8
  <2>2. CASE gs <= i /\ i < s
    <3>1. ge + (i - gs) \in 0..(w - 1) /\ ge + (i - gs) >= ge /\ ~(t <= i /\ i < ge)
      BY <2>2, <1>1, <1>7
    <3> QED BY <2>2, <3>1, <1>3, <1>8
  <2>3. CASE ~(t <= i /\ i < ge) /\ ~(gs <= i /\ i < s)
    <3>1. i < gs \/ i >= ge
      BY <2>3, <1>1, <1>7
    <3> QED BY <2>3, <3>1, <1>3, <1>8
  <2> QED BY <2>1, <2>2, <2>3
<1>10. CoreOK(m)
  <2>1. m \in [cwch : Nat, end : Nat, gapStart : Nat, gapEnd : Nat,
               pwch : [0..(m.cwch - 1) -> Char \cup {Uninit}]]
    BY <1>1, <1>4, <1>7, <1>8 DEF Cells
  <2>2. s <= e /\ e + (t - s) = w /\ MIN_GAP_LENGTH <= t - s
    BY <1>1, <1>7
  <2>3. m.pwch = new
    BY DEF new
  <2> QED BY <2>1, <2>2, <2>3, <1>4, <1>9 DEF CoreOK
<1>11. \A p \in 0..(e - 1) : GetCharAt(m, p) = GetCharAt(c, p)
  <2> SUFFICES ASSUME NEW p \in 0..(e - 1)
               PROVE  new[IF p >= s THEN p + (t - s) ELSE p]
                      = old[IF p >= gs THEN p + (ge - gs) ELSE p]
    BY <1>6
  <2>1. p \in 0..(w - 1) /\ p + (t - s) \in 0..(w - 1) /\ t - s = ge - gs
    BY <1>1, <1>7
  <2>2. CASE p >= s /\ p >= gs
    BY <2>1, <2>2, <1>1, <1>7, <1>8
  <2>3. CASE p >= s /\ p < gs
    BY <2>1, <2>3, <1>1, <1>7, <1>8
  <2>4. CASE p < s /\ p >= gs
    BY <2>1, <2>4, <1>1, <1>7, <1>8
  <2>5. CASE p < s /\ p < gs
    BY <2>1, <2>5, <1>1, <1>7, <1>8
  <2> QED BY <2>2, <2>3, <2>4, <2>5, <1>1
<1> QED BY <1>4, <1>7, <1>10, <1>11 DEF m, w, e, gs, ge

(* deleteChars cuts the range [start, end) out: what is behind it moves    *)
(* forward, everything else stays, and the gap only gets larger.           *)
LEMMA DeleteCharsCorrect ==
  ASSUME NEW c, CoreOK(c), NEW start \in 0..c.end, NEW end \in start..c.end
  PROVE  /\ CoreOK(deleteChars(c, start, end))
         /\ deleteChars(c, start, end).end = c.end - (end - start)
         /\ \A p \in 0..(c.end - (end - start) - 1) :
              GetCharAt(deleteChars(c, start, end), p) =
                GetCharAt(c, IF p < start THEN p ELSE p + (end - start))
<1> DEFINE m == moveGap(c, start)
           d == deleteChars(c, start, end)
           w == m.cwch
           e == c.end
           ge == m.gapEnd
           old == m.pwch
           n == end - start
           e2 == e - n
           ge2 == ge + n
<1>1. /\ CoreOK(m) /\ m.end = e /\ m.gapStart = start
      /\ \A p \in 0..(e - 1) : GetCharAt(m, p) = GetCharAt(c, p)
  BY MoveGapCorrect
<1>2. /\ w \in Nat /\ e \in Nat /\ start \in Nat /\ ge \in Nat /\ end \in Nat
      /\ start <= end /\ end <= e
      /\ start + MIN_GAP_LENGTH <= ge /\ ge <= w /\ e + (ge - start) = w
      /\ MIN_GAP_LENGTH \in Nat \ {0}
  BY <1>1, CoreFields, LengthsAssumption
<1>3. old \in Cells(w)
  BY <1>1, CoreFields
<1>4. \A i \in 0..(w - 1) : (i < start \/ i >= ge) => old[i] \in Char
  BY <1>1 DEF CoreOK
<1>5. d = [cwch |-> w, end |-> e2, gapStart |-> start, gapEnd |-> ge2, pwch |-> old]
  BY <1>1 DEF deleteChars
<1>6. \A p : GetCharAt(m, p) = old[IF p >= start THEN p + (ge - start) ELSE p]
  <2>1. m.gapStart = start
    BY <1>1
  <2> HIDE DEF m
  <2> QED BY <2>1 DEF GetCharAt, CellAt
<1>7. /\ n \in Nat /\ n = end - start
      /\ e2 \in Nat /\ e2 = e - n
      /\ ge2 \in Nat /\ ge2 = ge + n
      /\ start <= e2 /\ e2 + (ge2 - start) = w /\ MIN_GAP_LENGTH <= ge2 - start
      /\ \A i \in 0..(w - 1) : (i < start \/ i >= ge2) => (i < start \/ i >= ge)
  BY <1>2
<1> HIDE DEF m, d, w, e, ge, old, n, e2, ge2
<1>8. \A p : GetCharAt(d, p) = old[IF p >= start THEN p + (ge2 - start) ELSE p]
  BY <1>5, GetCharAtFields
<1>9. CoreOK(d)
  <2>1. \A i \in 0..(w - 1) : (i < start \/ i >= ge2) => old[i] \in Char
    BY <1>4, <1>7
  <2> QED BY <2>1, <1>2, <1>3, <1>5, <1>7, CoreIntro
<1>10. ASSUME NEW p \in 0..(e2 - 1)
       PROVE  GetCharAt(d, p) = GetCharAt(c, IF p < start THEN p ELSE p + n)
  <2> DEFINE q == IF p < start THEN p ELSE p + n
  <2>1. q \in 0..(e - 1)
    BY <1>2, <1>7
  <2>2. GetCharAt(c, q) = old[IF q >= start THEN q + (ge - start) ELSE q]
    BY <2>1, <1>1, <1>6
  <2>3. (IF q >= start THEN q + (ge - start) ELSE q)
        = IF p >= start THEN p + (ge2 - start) ELSE p
    BY <1>2, <1>7
  <2> QED BY <2>2, <2>3, <1>8
<1> QED BY <1>5, <1>9, <1>10 DEF d, e, e2, n

(* The unit of growth divides the rounded length, which is no smaller.     *)
LEMMA RoundUpBounds ==
  ASSUME NEW n \in Nat
  PROVE  RoundUp(n) \in Nat /\ n <= RoundUp(n)
<1> DEFINE k == EXTENSION_LENGTH
           q == (n + k - 1) \div k
<1>1. k \in Nat /\ k > 0 /\ n + k - 1 \in Nat
  BY LengthsAssumption
<1>2. q \in Nat /\ n + k - 1 = k * q + ((n + k - 1) % k) /\ (n + k - 1) % k \in 0..(k - 1)
  BY <1>1
<1>3. q * k \in Nat /\ q * k = k * q
  BY <1>1, <1>2
<1> QED BY <1>1, <1>2, <1>3 DEF RoundUp

(* Growing the cells is invisible: no character changes, and all the new   *)
(* room is in the gap.                                                     *)
LEMMA GrowCorrect ==
  ASSUME NEW c, CoreOK(c), NEW by \in Nat
  PROVE  /\ CoreOK(grow(c, by))
         /\ grow(c, by).end = c.end
         /\ grow(c, by).gapStart = c.gapStart
         /\ grow(c, by).gapEnd = c.gapEnd + by
         /\ \A p \in 0..(c.end - 1) : GetCharAt(grow(c, by), p) = GetCharAt(c, p)
<1> DEFINE g == grow(c, by)
           w == c.cwch
           e == c.end
           gs == c.gapStart
           ge == c.gapEnd
           old == c.pwch
           w2 == w + by
           ge2 == ge + by
           k == e - gs
           mid == ReAlloc(old, w, w2)
           new == g.pwch
<1>1. /\ w \in Nat /\ e \in Nat /\ gs \in Nat /\ ge \in Nat
      /\ gs <= e /\ gs + MIN_GAP_LENGTH <= ge /\ ge <= w /\ e + (ge - gs) = w
      /\ MIN_GAP_LENGTH \in Nat \ {0}
  BY CoreFields, LengthsAssumption
<1>2. old \in Cells(w)
  BY CoreFields
<1>3. \A i \in 0..(w - 1) : (i < gs \/ i >= ge) => old[i] \in Char
  BY DEF CoreOK
<1>4. g = [cwch |-> w2, end |-> e, gapStart |-> gs, gapEnd |-> ge2, pwch |-> new]
  BY DEF grow
<1>5. new = MoveMemory(mid, ge2, ge, k)
  BY DEF grow
<1>6. /\ w2 \in Nat /\ w2 = w + by
      /\ ge2 \in Nat /\ ge2 = ge + by
      /\ k \in Nat /\ k = e - gs /\ ge2 + k = w2 /\ ge2 + k <= w2 /\ ge + k <= w2
      /\ e + (ge2 - gs) = w2 /\ MIN_GAP_LENGTH <= ge2 - gs
  BY <1>1
<1>7. \A p : GetCharAt(c, p) = old[IF p >= gs THEN p + (ge - gs) ELSE p]
  BY DEF GetCharAt, CellAt
<1> HIDE DEF g, w, e, gs, ge, old, w2, ge2, k, mid, new
<1>8. /\ mid \in Cells(w2)
      /\ \A i \in 0..(w2 - 1) : mid[i] = IF i < w THEN old[i] ELSE Uninit
  <2>1. mid = [i \in 0..(w2 - 1) |-> IF i < w THEN old[i] ELSE Uninit]
    BY DEF mid, ReAlloc
  <2>2. \A i \in 0..(w2 - 1) : i < w => old[i] \in Char \cup {Uninit}
    BY <1>1, <1>2 DEF Cells
  <2> QED BY <2>1, <2>2 DEF Cells
<1>9. \A p : GetCharAt(g, p) = new[IF p >= gs THEN p + (ge2 - gs) ELSE p]
  BY <1>4, GetCharAtFields
<1>10. /\ new \in Cells(w2)
       /\ \A i \in 0..(w2 - 1) :
            new[i] = IF ge2 <= i /\ i < ge2 + k THEN mid[ge + (i - ge2)] ELSE mid[i]
  BY <1>1, <1>5, <1>6, <1>8, MoveMemoryCells
(* Where each cell of the grown core takes its content from.               *)
<1>11. ASSUME NEW i \in 0..(w2 - 1)
       PROVE  /\ i < gs => new[i] = old[i]
              /\ i >= ge2 => /\ new[i] = old[i - by]
                             /\ i - by \in 0..(w - 1) /\ i - by >= ge
  <2>1. ASSUME i < gs PROVE new[i] = old[i]
    <3>1. ~(ge2 <= i) /\ i < w
      BY <2>1, <1>1, <1>6
    <3> QED BY <3>1, <1>8, <1>10
  <2>2. ASSUME i >= ge2
        PROVE  new[i] = old[i - by] /\ i - by \in 0..(w - 1) /\ i - by >= ge
    <3>1. /\ i < ge2 + k /\ ge + (i - ge2) = i - by
          /\ i - by \in 0..(w2 - 1) /\ i - by \in 0..(w - 1) /\ i - by < w /\ i - by >= ge
      BY <2>2, <1>1, <1>6
    <3>2. new[i] = mid[i - by]
      BY <2>2, <3>1, <1>10
    <3> QED BY <3>1, <3>2, <1>8
  <2> QED BY <2>1, <2>2
<1>12. CoreOK(g)
  <2>1. \A i \in 0..(w2 - 1) : (i < gs \/ i >= ge2) => new[i] \in Char
    <3> SUFFICES ASSUME NEW i \in 0..(w2 - 1), i < gs \/ i >= ge2
                 PROVE  new[i] \in Char
      OBVIOUS
    <3>1. CASE i < gs
      <4>1. i \in 0..(w - 1)
        BY <3>1, <1>1
      <4> QED BY <3>1, <4>1, <1>3, <1>11
    <3>2. CASE i >= ge2
      BY <3>2, <1>3, <1>11
    <3> QED BY <3>1, <3>2
  <2> QED BY <2>1, <1>1, <1>4, <1>6, <1>10, CoreIntro
<1>13. ASSUME NEW p \in 0..(e - 1)
       PROVE  GetCharAt(g, p) = GetCharAt(c, p)
  <2>1. CASE p >= gs
    <3> DEFINE i == p + (ge2 - gs)
    <3>1. i \in 0..(w2 - 1) /\ i >= ge2 /\ i - by = p + (ge - gs)
      BY <2>1, <1>1, <1>6
    <3>2. new[i] = old[p + (ge - gs)]
      BY <3>1, <1>11
    <3> QED BY <2>1, <3>2, <1>7, <1>9
  <2>2. CASE p < gs
    <3>1. p \in 0..(w2 - 1) /\ ~(p >= gs)
      BY <2>2, <1>1, <1>6
    <3>2. new[p] = old[p]
      BY <2>2, <3>1, <1>11
    <3> QED BY <3>1, <3>2, <1>7, <1>9
  <2> QED BY <2>1, <2>2, <1>1
<1> QED BY <1>4, <1>6, <1>12, <1>13 DEF g, e, gs, ge

(* After extend for n > 0 characters at s the gap starts at s and holds    *)
(* the n characters plus MIN_GAP_LENGTH cells.                             *)
LEMMA ExtendCorrect ==
  ASSUME NEW c, CoreOK(c), NEW s \in 0..c.end, NEW n \in Nat, n > 0
  PROVE  /\ CoreOK(extend(c, s, n))
         /\ extend(c, s, n).end = c.end
         /\ extend(c, s, n).gapStart = s
         /\ n + MIN_GAP_LENGTH <= extend(c, s, n).gapEnd - s
         /\ \A p \in 0..(c.end - 1) : GetCharAt(extend(c, s, n), p) = GetCharAt(c, p)
<1> DEFINE m == moveGap(c, s)
           by == RoundUp(n)
<1>1. /\ CoreOK(m) /\ m.end = c.end /\ m.gapStart = s
      /\ \A p \in 0..(c.end - 1) : GetCharAt(m, p) = GetCharAt(c, p)
  BY MoveGapCorrect
<1>2. extend(c, s, n) = IF GapLength(m) >= n + MIN_GAP_LENGTH THEN m ELSE grow(m, by)
  BY DEF extend
<1>3. by \in Nat /\ n <= by
  BY RoundUpBounds
<1>4. m.gapEnd \in Nat /\ s \in Nat /\ s + MIN_GAP_LENGTH <= m.gapEnd /\ MIN_GAP_LENGTH \in Nat
  BY <1>1, CoreFields, LengthsAssumption
<1> HIDE DEF m, by
<1>5. CASE GapLength(m) >= n + MIN_GAP_LENGTH
  BY <1>5, <1>1, <1>2, <1>4 DEF GapLength
<1>6. CASE ~(GapLength(m) >= n + MIN_GAP_LENGTH)
  <2>1. extend(c, s, n) = grow(m, by)
    BY <1>6, <1>2
  <2>2. /\ CoreOK(grow(m, by)) /\ grow(m, by).end = m.end
        /\ grow(m, by).gapStart = m.gapStart /\ grow(m, by).gapEnd = m.gapEnd + by
        /\ \A p \in 0..(m.end - 1) : GetCharAt(grow(m, by), p) = GetCharAt(m, p)
    BY <1>1, <1>3, GrowCorrect
  <2> DEFINE ge == m.gapEnd
  <2>5. ge \in Nat /\ s \in Nat /\ by \in Nat /\ n <= by /\ s + MIN_GAP_LENGTH <= ge /\ MIN_GAP_LENGTH \in Nat
    BY <1>3, <1>4
  <2> HIDE DEF ge
  <2>3. n + MIN_GAP_LENGTH <= (ge + by) - s
    BY <2>5
  <2>4. grow(m, by).gapEnd - s = (ge + by) - s
    BY <2>2 DEF ge
  <2> QED BY <2>1, <2>2, <2>3, <2>4, <1>1
<1> QED BY <1>5, <1>6

(* insert splices the characters t in before offset s: what was behind s   *)
(* moves back by the length of t, the rest stays.                          *)
LEMMA InsertCorrect ==
  ASSUME NEW c, CoreOK(c), NEW s \in 0..c.end, NEW t \in Seq(Char), t # << >>
  PROVE  /\ CoreOK(insert(c, s, t))
         /\ insert(c, s, t).end = c.end + Len(t)
         /\ \A p \in 0..((c.end + Len(t)) - 1) :
              GetCharAt(insert(c, s, t), p) =
                IF p < s THEN GetCharAt(c, p)
                ELSE IF p < s + Len(t) THEN t[p - s + 1]
                ELSE GetCharAt(c, p - Len(t))
<1> DEFINE n == Len(t)
           x == extend(c, s, n)
           r == insert(c, s, t)
           w == x.cwch
           e == c.end
           ge == x.gapEnd
           gs2 == s + n
           e2 == e + n
           old == x.pwch
           new == r.pwch
<1>1. n \in Nat /\ n > 0 /\ \A i \in 1..n : t[i] \in Char
  OBVIOUS
<1>14. e2 = c.end + Len(t) /\ gs2 = s + Len(t) /\ n = Len(t) /\ r = insert(c, s, t)
  OBVIOUS
<1> HIDE DEF n
<1>2. /\ CoreOK(x) /\ x.end = e /\ x.gapStart = s /\ n + MIN_GAP_LENGTH <= ge - s
      /\ \A p \in 0..(e - 1) : GetCharAt(x, p) = GetCharAt(c, p)
  BY <1>1, ExtendCorrect
<1>3. /\ w \in Nat /\ e \in Nat /\ s \in Nat /\ ge \in Nat
      /\ s <= e /\ ge <= w /\ e + (ge - s) = w /\ MIN_GAP_LENGTH \in Nat \ {0}
  BY <1>2, CoreFields, LengthsAssumption
<1>4. old \in Cells(w)
  BY <1>2, CoreFields
<1>5. \A i \in 0..(w - 1) : (i < s \/ i >= ge) => old[i] \in Char
  BY <1>2 DEF CoreOK
<1>6. r = [cwch |-> w, end |-> e2, gapStart |-> gs2, gapEnd |-> ge, pwch |-> new]
      /\ new = CopyIn(old, s, t)
  BY <1>2 DEF insert, n
<1>7. \A p : GetCharAt(x, p) = old[IF p >= s THEN p + (ge - s) ELSE p]
  <2>1. x.gapStart = s
    BY <1>2
  <2> HIDE DEF x
  <2> QED BY <2>1 DEF GetCharAt, CellAt
<1>8. /\ gs2 \in Nat /\ gs2 = s + n /\ e2 \in Nat /\ e2 = e + n
      /\ gs2 <= e2 /\ e2 + (ge - gs2) = w /\ MIN_GAP_LENGTH <= ge - gs2 /\ gs2 < ge
  BY <1>1, <1>2, <1>3
<1> HIDE DEF x, r, w, e, ge, gs2, e2, old, new
<1>9. \A p : GetCharAt(r, p) = new[IF p >= gs2 THEN p + (ge - gs2) ELSE p]
  BY <1>6, GetCharAtFields
<1>10. /\ new \in Cells(w)
       /\ \A i \in 0..(w - 1) : new[i] = IF s <= i /\ i < gs2 THEN t[i - s + 1] ELSE old[i]
  <2>1. DOMAIN old = 0..(w - 1) /\ \A i \in 0..(w - 1) : old[i] \in Char \cup {Uninit}
    BY <1>4 DEF Cells
  <2>2. new = [i \in 0..(w - 1) |-> IF s <= i /\ i < gs2 THEN t[i - s + 1] ELSE old[i]]
    BY <2>1, <1>6, <1>8 DEF CopyIn, n
  <2>3. \A i \in 0..(w - 1) : s <= i /\ i < gs2 => t[i - s + 1] \in Char
    BY <1>1, <1>3, <1>8
  <2> QED BY <2>1, <2>2, <2>3 DEF Cells
<1>11. CoreOK(r)
  <2>1. \A i \in 0..(w - 1) : (i < gs2 \/ i >= ge) => new[i] \in Char
    <3> SUFFICES ASSUME NEW i \in 0..(w - 1), i < gs2 \/ i >= ge
                 PROVE  new[i] \in Char
      OBVIOUS
    <3>1. CASE s <= i /\ i < gs2
      <4>1. i - s + 1 \in 1..n
        BY <3>1, <1>3, <1>8, <1>1
      <4> QED BY <3>1, <4>1, <1>1, <1>10
    <3>2. CASE ~(s <= i /\ i < gs2)
      <4>1. i < s \/ i >= ge
        BY <3>2, <1>3, <1>8
      <4> QED BY <3>2, <4>1, <1>5, <1>10
    <3> QED BY <3>1, <3>2
  <2> QED BY <2>1, <1>3, <1>6, <1>8, <1>10, CoreIntro
<1>12. ASSUME NEW p \in 0..(e2 - 1)
       PROVE  GetCharAt(r, p) = IF p < s THEN GetCharAt(c, p)
                                ELSE IF p < gs2 THEN t[p - s + 1]
                                ELSE GetCharAt(c, p - n)
  <2>1. CASE p < s
    <3>1. /\ p \in 0..(w - 1) /\ p \in 0..(e - 1) /\ ~(p >= gs2) /\ ~(p >= s)
          /\ ~(s <= p /\ p < gs2)
      BY <2>1, <1>1, <1>3, <1>8
    <3> QED BY <2>1, <3>1, <1>2, <1>7, <1>9, <1>10
  <2>2. CASE s <= p /\ p < gs2
    <3>1. p \in 0..(w - 1) /\ ~(p >= gs2) /\ ~(p < s)
      BY <2>2, <1>3, <1>8
    <3> QED BY <2>2, <3>1, <1>9, <1>10
  <2>3. CASE gs2 <= p
    <3> DEFINE i == p + (ge - gs2)
               q == p - n
    <3>1. /\ i \in 0..(w - 1) /\ ~(s <= i /\ i < gs2) /\ i = q + (ge - s)
          /\ q \in 0..(e - 1) /\ q >= s /\ ~(p < s) /\ ~(p < gs2) /\ p >= gs2
      BY <2>3, <1>1, <1>3, <1>8
    <3>2. GetCharAt(r, p) = new[i]
      BY <3>1, <1>9
    <3>3. new[i] = old[i]
      BY <3>1, <1>10
    <3> HIDE DEF i, q
    <3>4. GetCharAt(x, q) = old[i]
      BY <3>1, <1>7
    <3>5. GetCharAt(x, q) = GetCharAt(c, q)
      BY <3>1, <1>2
    <3> QED BY <3>1, <3>2, <3>3, <3>4, <3>5 DEF q
  <2> QED BY <2>1, <2>2, <2>3, <1>3, <1>8
<1>13. r.end = e2
  BY <1>6
<1>15. CoreOK(insert(c, s, t)) /\ insert(c, s, t).end = c.end + Len(t)
  BY <1>11, <1>13, <1>14
<1>16. \A p \in 0..((c.end + Len(t)) - 1) :
         GetCharAt(insert(c, s, t), p) =
           IF p < s THEN GetCharAt(c, p)
           ELSE IF p < s + Len(t) THEN t[p - s + 1]
           ELSE GetCharAt(c, p - Len(t))
  BY <1>12, <1>14
<1> QED BY <1>15, <1>16

-----------------------------------------------------------------------------
(* Theorems about the specification.                                       *)

(* The characters of a text one call inserts.                              *)
LEMMA TextsAreSequences == \A s \in Texts : s \in Seq(Char) /\ Len(s) \in 0..MaxInsert
  BY LengthsAssumption DEF Texts

(* The initial core, all gap, is in good shape.                            *)
LEMMA InitTypeOK == Init => TypeOK
<1> SUFFICES ASSUME Init PROVE CoreOK(core)
  BY DEF TypeOK
<1> DEFINE w == 3 * MIN_GAP_LENGTH
           cells == [i \in 0..(w - 1) |-> Uninit]
<1>1. w \in Nat /\ MIN_GAP_LENGTH <= w - 0 /\ 0 + (w - 0) = w /\ 0 <= 0 /\ 0 \in Nat
  BY LengthsAssumption
<1>2. core = [cwch |-> w, end |-> 0, gapStart |-> 0, gapEnd |-> w, pwch |-> cells]
  BY DEF Init
<1>3. cells \in Cells(w)
  BY DEF Cells
<1> HIDE DEF w, cells
<1>4. \A i \in 0..(w - 1) : (i < 0 \/ i >= w) => cells[i] \in Char
  BY <1>1
<1> QED BY <1>1, <1>2, <1>3, <1>4, CoreIntro

(* What a step of the specification does, in terms of the two operators.   *)
LEMMA StepCases ==
  ASSUME TypeOK, Next
  PROVE  \/ \E p \in 0..core.end : \E s \in Texts :
              s # << >> /\ core' = insert(core, p, s)
         \/ \E start \in 0..core.end : \E end \in start..core.end :
              core' = deleteChars(core, start, end)
<1>1. core.end \in Nat
  BY CoreFields DEF TypeOK
<1>2. CASE \E p \in 0..core.end, s \in Texts : InsertBefore(p, s)
  BY <1>2 DEF InsertBefore
<1>3. CASE \E from \in -1..core.end, to \in 0..(core.end + 1) : Delete(from, to)
  <2>1. PICK from \in -1..core.end, to \in 0..(core.end + 1) : Delete(from, to)
    BY <1>3
  <2> DEFINE start == IF from < 0 THEN 0 ELSE from
             end == IF to > core.end THEN core.end ELSE to
  <2>2. start < end /\ core' = deleteChars(core, start, end)
    BY <2>1 DEF Delete
  <2>3. start \in 0..core.end /\ end \in start..core.end
    BY <1>1, <2>2
  <2> QED BY <2>2, <2>3
<1> QED BY <1>2, <1>3 DEF Next

(* The shape of the core is preserved by every edit: the two sizes of the  *)
(* gap agree, the gap keeps its minimal length, and every cell outside it  *)
(* holds a character.                                                      *)
THEOREM TypeCorrect == Spec => []TypeOK
<1>1. Init => TypeOK
  BY InitTypeOK
<1>2. TypeOK /\ [Next]_core => TypeOK'
  <2> SUFFICES ASSUME TypeOK, [Next]_core PROVE TypeOK'
    OBVIOUS
  <2>1. CASE UNCHANGED core
    BY <2>1 DEF TypeOK
  <2>2. ASSUME NEW p \in 0..core.end, NEW s \in Texts, s # << >>, core' = insert(core, p, s)
        PROVE  TypeOK'
    BY <2>2, TextsAreSequences, InsertCorrect DEF TypeOK
  <2>3. ASSUME NEW start \in 0..core.end, NEW end \in start..core.end,
               core' = deleteChars(core, start, end)
        PROVE  TypeOK'
    BY <2>3, DeleteCharsCorrect DEF TypeOK
  <2>4. CASE Next
    BY <2>2, <2>3, <2>4, StepCases
  <2> QED BY <2>1, <2>4
<1> QED BY <1>1, <1>2, PTL DEF Spec

-----------------------------------------------------------------------------
(* The text a core stands for.                                             *)

(* The text is a sequence of characters of the length the core records:    *)
(* no uninitialised cell shows through.                                    *)
LEMMA TextIsSequence ==
  ASSUME NEW c, CoreOK(c)
  PROVE  /\ Text(c) \in Seq(Char)
         /\ Len(Text(c)) = c.end
         /\ \A p \in 0..(c.end - 1) : Text(c)[p + 1] = GetCharAt(c, p)
<1> DEFINE w == c.cwch
           e == c.end
           gs == c.gapStart
           ge == c.gapEnd
           old == c.pwch
           txt == Text(c)
<1>1. /\ w \in Nat /\ e \in Nat /\ gs \in Nat /\ ge \in Nat
      /\ gs <= e /\ gs <= ge /\ ge <= w /\ e + (ge - gs) = w
  <2>1. MIN_GAP_LENGTH \in Nat /\ gs + MIN_GAP_LENGTH <= ge
    BY CoreFields, LengthsAssumption
  <2> QED BY <2>1, CoreFields
<1>2. \A i \in 0..(w - 1) : (i < gs \/ i >= ge) => old[i] \in Char
  BY DEF CoreOK
<1>3. \A p : GetCharAt(c, p) = old[IF p >= gs THEN p + (ge - gs) ELSE p]
  BY DEF GetCharAt, CellAt
<1>4. txt = [i \in 1..e |-> GetCharAt(c, i - 1)]
  BY DEF Text
<1> HIDE DEF w, e, gs, ge, old, txt
<1>5. ASSUME NEW p \in 0..(e - 1)
      PROVE  GetCharAt(c, p) \in Char
  <2>1. CASE p >= gs
    <3>1. p + (ge - gs) \in 0..(w - 1) /\ p + (ge - gs) >= ge
      BY <2>1, <1>1
    <3> QED BY <2>1, <3>1, <1>2, <1>3
  <2>2. CASE p < gs
    <3>1. p \in 0..(w - 1) /\ ~(p >= gs)
      BY <2>2, <1>1
    <3> QED BY <2>2, <3>1, <1>2, <1>3
  <2> QED BY <2>1, <2>2, <1>1
<1>6. \A i \in 1..e : i - 1 \in 0..(e - 1) /\ GetCharAt(c, i - 1) \in Char
  BY <1>1, <1>5
<1>7. txt \in [1..e -> Char]
  BY <1>4, <1>6
<1>8. txt \in Seq(Char) /\ Len(txt) = e
  BY <1>1, <1>7
<1>9. \A p \in 0..(e - 1) : p + 1 \in 1..e /\ (p + 1) - 1 = p
  BY <1>1
<1>10. \A p \in 0..(e - 1) : txt[p + 1] = GetCharAt(c, p)
  BY <1>4, <1>9
<1> QED BY <1>8, <1>10 DEF e, txt

(* insert is the splice of the abstract buffer.                            *)
LEMMA InsertIsSplice ==
  ASSUME NEW c, CoreOK(c), NEW p \in 0..c.end, NEW s \in Seq(Char), s # << >>
  PROVE  Text(insert(c, p, s)) = Abstract!Inserted(Text(c), p, s)
<1> DEFINE r == insert(c, p, s)
           e == c.end
           n == Len(s)
           new == Text(r)
           old == Text(c)
<1>1. e \in Nat /\ n \in Nat /\ p \in 0..e
  BY CoreFields
<1>2. CoreOK(r) /\ r.end = e + n
  BY InsertCorrect
<1>3. /\ new \in Seq(Char) /\ Len(new) = e + n
      /\ \A i \in 0..((e + n) - 1) : new[i + 1] = GetCharAt(r, i)
  BY <1>2, TextIsSequence
<1>4. /\ old \in Seq(Char) /\ Len(old) = e
      /\ \A i \in 0..(e - 1) : old[i + 1] = GetCharAt(c, i)
  BY TextIsSequence
<1>5. \A i \in 0..((e + n) - 1) :
        GetCharAt(r, i) = IF i < p THEN GetCharAt(c, i)
                          ELSE IF i < p + n THEN s[i - p + 1]
                          ELSE GetCharAt(c, i - n)
  BY InsertCorrect
<1>6. Abstract!Inserted(old, p, s) =
        [i \in 1..(Len(old) + n) |->
           IF i <= p THEN old[i] ELSE IF i <= p + n THEN s[i - p] ELSE old[i - n]]
  BY DEF Abstract!Inserted
<1>7. DOMAIN new = 1..(e + n) /\ new = [i \in 1..(e + n) |-> new[i]]
  BY <1>1, <1>3
<1> HIDE DEF r, e, n, new, old
<1>8. ASSUME NEW i \in 1..(e + n)
      PROVE  new[i] = IF i <= p THEN old[i] ELSE IF i <= p + n THEN s[i - p] ELSE old[i - n]
  <2> DEFINE j == i - 1
  <2>1. j \in 0..((e + n) - 1) /\ j + 1 = i
    BY <1>1
  <2>2. new[i] = GetCharAt(r, j)
    BY <2>1, <1>3
  <2>3. CASE i <= p
    <3>1. j < p /\ j \in 0..(e - 1)
      BY <2>3, <1>1
    <3> QED BY <2>1, <2>2, <2>3, <3>1, <1>4, <1>5
  <2>4. CASE p < i /\ i <= p + n
    <3>1. ~(j < p) /\ j < p + n /\ j - p + 1 = i - p /\ ~(i <= p)
      BY <2>4, <1>1
    <3> QED BY <2>1, <2>2, <2>4, <3>1, <1>5
  <2>5. CASE p + n < i
    <3>1. /\ ~(j < p) /\ ~(j < p + n) /\ j - n \in 0..(e - 1) /\ (j - n) + 1 = i - n
          /\ ~(i <= p) /\ ~(i <= p + n)
      BY <2>5, <1>1
    <3>2. old[i - n] = GetCharAt(c, j - n)
      BY <3>1, <1>4
    <3> QED BY <2>1, <2>2, <3>1, <3>2, <1>5
  <2> QED BY <2>3, <2>4, <2>5, <1>1
<1>9. new = Abstract!Inserted(old, p, s)
  BY <1>4, <1>6, <1>7, <1>8
<1> QED BY <1>9 DEF new, old, r

(* deleteChars is the cut of the abstract buffer.                          *)
LEMMA DeleteIsCut ==
  ASSUME NEW c, CoreOK(c), NEW start \in 0..c.end, NEW end \in start..c.end
  PROVE  Text(deleteChars(c, start, end)) = Abstract!Removed(Text(c), start, end)
<1> DEFINE d == deleteChars(c, start, end)
           e == c.end
           n == end - start
           new == Text(d)
           old == Text(c)
<1>1. e \in Nat /\ start \in 0..e /\ n \in Nat /\ start + n <= e /\ e - n \in Nat
  BY CoreFields
<1>2. CoreOK(d) /\ d.end = e - n
  BY DeleteCharsCorrect
<1>3. /\ new \in Seq(Char) /\ Len(new) = e - n
      /\ \A i \in 0..((e - n) - 1) : new[i + 1] = GetCharAt(d, i)
  BY <1>2, TextIsSequence
<1>4. /\ old \in Seq(Char) /\ Len(old) = e
      /\ \A i \in 0..(e - 1) : old[i + 1] = GetCharAt(c, i)
  BY TextIsSequence
<1>5. \A i \in 0..((e - n) - 1) : GetCharAt(d, i) = GetCharAt(c, IF i < start THEN i ELSE i + n)
  BY DeleteCharsCorrect
<1>6. Abstract!Removed(old, start, end) =
        [i \in 1..(Len(old) - n) |-> IF i <= start THEN old[i] ELSE old[i + n]]
  BY DEF Abstract!Removed
<1>7. DOMAIN new = 1..(e - n) /\ new = [i \in 1..(e - n) |-> new[i]]
  BY <1>1, <1>3
<1> HIDE DEF d, e, n, new, old
<1>8. ASSUME NEW i \in 1..(e - n)
      PROVE  new[i] = IF i <= start THEN old[i] ELSE old[i + n]
  <2> DEFINE j == i - 1
  <2>1. j \in 0..((e - n) - 1) /\ j + 1 = i
    BY <1>1
  <2>2. new[i] = GetCharAt(d, j)
    BY <2>1, <1>3
  <2>3. CASE i <= start
    <3>1. j < start /\ j \in 0..(e - 1)
      BY <2>3, <1>1
    <3> QED BY <2>1, <2>2, <2>3, <3>1, <1>4, <1>5
  <2>4. CASE start < i
    <3>1. ~(j < start) /\ j + n \in 0..(e - 1) /\ (j + n) + 1 = i + n /\ ~(i <= start)
      BY <2>4, <1>1
    <3>2. old[i + n] = GetCharAt(c, j + n)
      BY <3>1, <1>4
    <3> QED BY <2>1, <2>2, <3>1, <3>2, <1>5
  <2> QED BY <2>3, <2>4, <1>1
<1>9. new = Abstract!Removed(old, start, end)
  BY <1>4, <1>6, <1>7, <1>8
<1> QED BY <1>9 DEF new, old, d

(* The gap buffer implements the abstract text buffer: every behaviour of  *)
(* insert and deleteChars, with all the moving of the gap and growing of   *)
(* the cells they do, is a behaviour of plain splices and cuts.            *)
THEOREM Implements == Spec => ImplementsTextBuffer
<1>1. Init => Abstract!Init
  <2> SUFFICES ASSUME Init PROVE Text(core) = << >>
    BY DEF Abstract!Init
  <2>1. core.end = 0
    BY DEF Init
  <2> QED BY <2>1 DEF Text
<1>2. TypeOK /\ [Next]_core => [Abstract!Next]_(Text(core))
  <2> SUFFICES ASSUME TypeOK, [Next]_core
               PROVE  Abstract!Next \/ Text(core)' = Text(core)
    OBVIOUS
  <2>1. CASE UNCHANGED core
    BY <2>1 DEF Text, GetCharAt, CellAt
  <2>2. Len(Text(core)) = core.end
    BY TextIsSequence DEF TypeOK
  <2>3. ASSUME NEW p \in 0..core.end, NEW s \in Texts, s # << >>, core' = insert(core, p, s)
        PROVE  Abstract!Next
    <3>1. Text(core') = Abstract!Inserted(Text(core), p, s)
      BY <2>3, TextsAreSequences, InsertIsSplice DEF TypeOK
    <3>2. s \in Abstract!Insertable /\ p \in 0..Len(Text(core))
      BY <2>2 DEF Texts, Abstract!Insertable
    <3> QED BY <3>1, <3>2 DEF Abstract!Next, Abstract!InsertBefore
  <2>4. ASSUME NEW start \in 0..core.end, NEW end \in start..core.end,
               core' = deleteChars(core, start, end)
        PROVE  Abstract!Next
    <3>1. Text(core') = Abstract!Removed(Text(core), start, end)
      BY <2>4, DeleteIsCut DEF TypeOK
    <3>2. start \in 0..Len(Text(core)) /\ end \in start..Len(Text(core))
      BY <2>2
    <3> QED BY <3>1, <3>2 DEF Abstract!Next, Abstract!Delete
  <2>5. CASE Next
    BY <2>3, <2>4, <2>5, StepCases
  <2> QED BY <2>1, <2>5
<1> QED BY <1>1, <1>2, TypeCorrect, PTL DEF Spec, ImplementsTextBuffer, Abstract!Spec

(* Whatever the place of the gap, the two copies of GetText put the        *)
(* characters of the range next to each other.                             *)
LEMMA GetTextIsSlice ==
  ASSUME NEW c, CoreOK(c), NEW from \in 0..c.end, NEW to \in from..(c.end + 1)
  PROVE  GetText(c, from, to) = SubSeq(Text(c), from + 1, IF to > c.end THEN c.end ELSE to)
<1> DEFINE w == c.cwch
           e == c.end
           gs == c.gapStart
           ge == c.gapEnd
           old == c.pwch
           end == IF to > e THEN e ELSE to
           middle == IF gs < end THEN gs ELSE end
           got == GetText(c, from, to)
           txt == Text(c)
           sub == SubSeq(txt, from + 1, end)
<1>1. /\ e \in Nat /\ gs \in Nat /\ ge \in Nat /\ from \in Nat /\ to \in Int
      /\ gs <= e /\ gs <= ge /\ from <= e /\ from <= to
  <2>1. MIN_GAP_LENGTH \in Nat /\ gs + MIN_GAP_LENGTH <= ge
    BY CoreFields, LengthsAssumption
  <2> QED BY <2>1, CoreFields
<1>2. /\ txt \in Seq(Char) /\ Len(txt) = e
      /\ \A p \in 0..(e - 1) : txt[p + 1] = GetCharAt(c, p)
  BY TextIsSequence
<1>3. \A p : GetCharAt(c, p) = old[IF p >= gs THEN p + (ge - gs) ELSE p]
  BY DEF GetCharAt, CellAt
<1>4. got = IF from >= end THEN << >>
            ELSE IF from >= gs
                 THEN [i \in 1..(end - from) |-> old[ge + (from - gs) + (i - 1)]]
                 ELSE [i \in 1..(end - from) |->
                         IF i <= middle - from THEN old[from + (i - 1)]
                         ELSE old[ge + (i - 1 - (middle - from))]]
  <2>1. ~(from > c.end)
    BY <1>1
  <2> QED BY <2>1 DEF GetText
<1>5. /\ end \in Nat /\ from <= end /\ end <= e
      /\ middle = IF gs < end THEN gs ELSE end
  BY <1>1
<1> HIDE DEF w, e, gs, ge, old, end, middle, got, txt, sub
<1>6. CASE from >= end
  <2>1. end < from + 1
    BY <1>6, <1>1, <1>5
  <2>2. sub = << >>
    BY <2>1, <1>1, <1>5, SubSeqEmpty DEF sub
  <2> QED BY <1>6, <1>4, <2>2 DEF got, sub, txt, end, e
<1>7. CASE from < end
  <2>1. \A i \in (from + 1)..end : i \in 1..Len(txt) /\ txt[i] \in Char
    BY <1>1, <1>2, <1>5
  <2>2. /\ sub \in Seq(Char)
        /\ Len(sub) = end - from
        /\ \A i \in 1..(end - from) : sub[i] = txt[from + i]
    <3>1. from + 1 \in Int /\ end \in Int /\ from + 1 <= end /\ (end - (from + 1)) + 1 = end - from
      BY <1>1, <1>5, <1>7
    <3>2. /\ sub \in Seq(Char)
          /\ Len(sub) = (end - (from + 1)) + 1
          /\ \A i \in 1..((end - (from + 1)) + 1) : sub[i] = txt[((from + 1) + i) - 1]
      BY <2>1, <3>1, SubSeqProperties DEF sub
    <3>3. \A i \in 1..(end - from) : ((from + 1) + i) - 1 = from + i
      BY <1>1
    <3> QED BY <3>1, <3>2, <3>3
  <2>3. ASSUME NEW i \in 1..(end - from)
        PROVE  sub[i] = old[IF from + i - 1 >= gs THEN (from + i - 1) + (ge - gs) ELSE from + i - 1]
    <3>1. from + i - 1 \in 0..(e - 1) /\ (from + i - 1) + 1 = from + i
      BY <1>1, <1>5
    <3> QED BY <2>2, <3>1, <1>2, <1>3
  <2>4. ASSUME NEW i \in 1..(end - from)
        PROVE  got[i] = old[IF from + i - 1 >= gs THEN (from + i - 1) + (ge - gs) ELSE from + i - 1]
    <3>1. CASE from >= gs
      <4>1. got[i] = old[ge + (from - gs) + (i - 1)]
        BY <3>1, <1>1, <1>4, <1>5, <1>7
      <4>2. from + i - 1 >= gs /\ (from + i - 1) + (ge - gs) = ge + (from - gs) + (i - 1)
        BY <3>1, <1>1
      <4> QED BY <4>1, <4>2
    <3>2. CASE ~(from >= gs)
      <4>1. got[i] = IF i <= middle - from THEN old[from + (i - 1)]
                     ELSE old[ge + (i - 1 - (middle - from))]
        BY <3>2, <1>1, <1>4, <1>5, <1>7
      <4>2. CASE i <= middle - from
        <5>1. ~(from + i - 1 >= gs) /\ from + (i - 1) = from + i - 1
          BY <3>2, <4>2, <1>1, <1>5
        <5> QED BY <4>1, <4>2, <5>1
      <4>3. CASE ~(i <= middle - from)
        <5>1. from + i - 1 >= gs /\ ge + (i - 1 - (middle - from)) = (from + i - 1) + (ge - gs)
          BY <3>2, <4>3, <1>1, <1>5
        <5> QED BY <4>1, <4>3, <5>1
      <4> QED BY <4>2, <4>3
    <3> QED BY <3>1, <3>2
  <2>6. got = [i \in 1..(end - from) |-> got[i]]
    <3>1. ~(from >= end)
      BY <1>1, <1>5, <1>7
    <3>2. CASE from >= gs
      <4>1. got = [i \in 1..(end - from) |-> old[ge + (from - gs) + (i - 1)]]
        BY <3>1, <3>2, <1>4
      <4> QED BY <4>1
    <3>3. CASE ~(from >= gs)
      <4>1. got = [i \in 1..(end - from) |->
                     IF i <= middle - from THEN old[from + (i - 1)]
                     ELSE old[ge + (i - 1 - (middle - from))]]
        BY <3>1, <3>3, <1>4
      <4> QED BY <4>1
    <3> QED BY <3>2, <3>3
  <2>7. sub = [i \in 1..(end - from) |-> sub[i]]
    BY <2>2, <1>1, <1>5
  <2>8. got = sub
    BY <2>3, <2>4, <2>6, <2>7
  <2> QED BY <2>8 DEF got, sub, txt, end, e
<1> QED BY <1>1, <1>5, <1>6, <1>7

(* GetText never returns anything but the characters of the range it was   *)
(* asked for, in every reachable state of the buffer.                      *)
THEOREM GetTextCorrect == Spec => []GetTextReads
<1>1. TypeOK => GetTextReads
  BY GetTextIsSlice DEF TypeOK, GetTextReads
<1> QED BY <1>1, TypeCorrect, PTL
=============================================================================
