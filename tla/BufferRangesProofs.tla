------------------------- MODULE BufferRangesProofs -------------------------
(***************************************************************************)
(* Proofs about the positions in a buffer, the cache of line numbers and   *)
(* the ranges, for texts of any length and any number of ranges.           *)
(***************************************************************************)
EXTENDS BufferRanges, FiniteSetTheorems, WellFoundedInduction, TLAPS

-----------------------------------------------------------------------------
(***************************************************************************)
(* The line number cache, for every text and every way the cache was       *)
(* filled: the cache has no hole, and so what it answers is what a scan of *)
(* the whole text would.                                                   *)
(***************************************************************************)

(* Facts about sets of offsets.  The least number principle is stated for  *)
(* sets, so that an induction over numbers can be done by picking the      *)
(* smallest counterexample.                                                *)

(* A set of natural numbers that is not empty has a least member.          *)
LEMMA LeastNumber ==
  ASSUME NEW T \in SUBSET Nat, T # {}
  PROVE  \E x \in T : \A y \in T : x <= y
<1> DEFINE R == {ss \in Nat \X Nat : ss[1] < ss[2]}
<1>1. IsWellFoundedOn(R, Nat)
  BY NatLessThanWellFounded, Zenon DEF OpToRel
<1>2. T \subseteq Nat
  OBVIOUS
<1> HIDE DEF R
<1>3. PICK x \in T : \A y \in T : <<y, x>> \notin R
  BY <1>1, <1>2, WFMin, Zenon
<1>4. ASSUME NEW y \in T  PROVE x <= y
  <2>1. ~ (y < x)
    BY <1>3 DEF R
  <2> QED BY <2>1
<1> QED BY <1>4

(* A set of offsets that holds 0 has a largest member at or before p.      *)
LEMMA LargestBelow ==
  ASSUME NEW D \in SUBSET Nat, 0 \in D, NEW p \in Nat
  PROVE  \E k \in D : k <= p /\ \A j \in D : j <= p => j <= k
<1> DEFINE T == {d \in Nat : \E k \in D : k <= p /\ d = p - k}
<1>1. T \in SUBSET Nat /\ T # {}
  <2>1. p - 0 \in T
    OBVIOUS
  <2> QED BY <2>1
<1>2. PICK d \in T : \A e \in T : d <= e
  BY <1>1, LeastNumber
<1>3. PICK k \in D : k <= p /\ d = p - k
  BY <1>2
<1>4. ASSUME NEW j \in D, j <= p  PROVE j <= k
  <2>1. p - j \in T
    BY <1>4
  <2> QED BY <2>1, <1>2, <1>3, <1>4
<1> QED BY <1>3, <1>4

-----------------------------------------------------------------------------
(* A cache that covers offsets of a text of n characters.                  *)
Map(m, n) == \E D \in SUBSET (0..n) : 0 \in D /\ m \in [D -> Nat]

LEMMA MapFields ==
  ASSUME NEW n \in Nat, NEW m, Map(m, n)
  PROVE  /\ DOMAIN m \in SUBSET (0..n) /\ DOMAIN m \in SUBSET Nat
         /\ 0 \in DOMAIN m
         /\ \A k \in DOMAIN m : m[k] \in Nat
BY DEF Map

(* What Floor returns.                                                     *)
LEMMA FloorIsLargest ==
  ASSUME NEW m, DOMAIN m \in SUBSET Nat, 0 \in DOMAIN m, NEW p \in Nat
  PROVE  /\ Floor(m, p) \in DOMAIN m
         /\ Floor(m, p) <= p
         /\ \A j \in DOMAIN m : j <= p => j <= Floor(m, p)
<1> DEFINE D == DOMAIN m
<1>1. \E k \in D : k <= p /\ \A j \in D : j <= p => j <= k
  <2> HIDE DEF D
  <2>1. D \in SUBSET Nat /\ 0 \in D
    BY DEF D
  <2> QED BY <2>1, LargestBelow
<1> QED BY <1>1 DEF Floor

LEMMA LineCountType ==
  ASSUME NEW t, NEW a \in Nat, NEW b \in Nat
  PROVE  /\ IsFiniteSet(LineStarts(t, a, b))
         /\ Cardinality(LineStarts(t, a, b)) \in Nat
<1>1. IsFiniteSet((a + 1)..b)
  BY FS_Interval
<1>2. LineStarts(t, a, b) \in SUBSET ((a + 1)..b)
  BY DEF LineStarts
<1> QED BY <1>1, <1>2, FS_Subset, FS_CardinalityType

(* Lines are counted piece by piece.                                       *)
LEMMA LineCountAdds ==
  ASSUME NEW t, NEW a \in Nat, NEW b \in Nat, NEW c \in Nat, a <= b, b <= c
  PROVE  Cardinality(LineStarts(t, a, c))
           = Cardinality(LineStarts(t, a, b)) + Cardinality(LineStarts(t, b, c))
<1> DEFINE L == LineStarts(t, a, b)
           R == LineStarts(t, b, c)
           W == LineStarts(t, a, c)
<1>1. /\ IsFiniteSet(L) /\ IsFiniteSet(R)
      /\ Cardinality(L) \in Nat /\ Cardinality(R) \in Nat
  BY LineCountType
<1>2. W = L \cup R /\ L \cap R = {}
  BY DEF LineStarts
<1> HIDE DEF L, R, W
<1>4. Cardinality(L \cup R) = Cardinality(L) + Cardinality(R) - Cardinality({})
  BY <1>1, <1>2, FS_Union
<1>5. Cardinality({}) = 0
  BY FS_EmptySet
<1> QED BY <1>1, <1>2, <1>4, <1>5 DEF L, R, W

(* Texts that agree on their first n characters have the same lines there. *)
LEMMA SameLines ==
  ASSUME NEW t, NEW u, NEW n \in Nat, NEW k \in 0..n,
         \A j \in 1..n : u[j] = t[j]
  PROVE  LineStarts(u, 0, k) = LineStarts(t, 0, k)
BY DEF LineStarts

-----------------------------------------------------------------------------
(* Get: the cache it leaves is as good as the one it found, and knows      *)
(* every line up to p.                                                     *)
LEMMA LookupCorrect ==
  ASSUME NEW n \in Nat, NEW p \in 0..n, Map(map, n), Complete(map, text)
  PROVE  LET after == Lookup(map, p)
         IN  /\ Map(after, n)
             /\ Complete(after, text)
             /\ \A j \in 1..p : text[j] = Newline => j \in DOMAIN after
<1> DEFINE D == DOMAIN map
           s == Floor(map, p)
           found == LineStarts(text, s, p)
           after == UpdateCache(map, s, map[s], p)
<1>1. D \in SUBSET (0..n) /\ 0 \in D /\ \A k \in D : map[k] \in Nat
  BY MapFields
<1>2. CASE p = 0 \/ \E k \in D : k >= p
  BY <1>1, <1>2 DEF Lookup, Complete
<1>3. CASE ~ (p = 0 \/ \E k \in D : k >= p)
  <2>1. /\ s \in D /\ s \in Nat /\ s <= p
        /\ \A j \in D : j <= s
    BY <1>1, <1>3, FloorIsLargest, MapFields
  <2>2. /\ s = 0 \/ text[s] = Newline
        /\ \A j \in 1..s : text[j] = Newline => j \in D
        /\ map[s] = 1 + Cardinality(LineStarts(text, 0, s))
    BY <2>1 DEF Complete
  <2>3. /\ found \in SUBSET (1..p)
        /\ \A k \in found : k > s /\ text[k] = Newline
        /\ \A j \in 1..p : j > s /\ text[j] = Newline => j \in found
    BY <2>1 DEF LineStarts
  <2> HIDE DEF s, found
  <2>4. /\ DOMAIN after = D \cup found
        /\ \A k \in found : after[k] = map[s] + Cardinality(LineStarts(text, s, k))
        /\ \A k \in D \ found : after[k] = map[k]
    BY DEF UpdateCache, found
  <2>5. \A k \in found : after[k] = 1 + Cardinality(LineStarts(text, 0, k))
    <3> SUFFICES ASSUME NEW k \in found
                 PROVE  after[k] = 1 + Cardinality(LineStarts(text, 0, k))
      OBVIOUS
    <3> DEFINE A == Cardinality(LineStarts(text, 0, s))
               B == Cardinality(LineStarts(text, s, k))
               C == Cardinality(LineStarts(text, 0, k))
    <3>1. k \in Nat /\ s <= k /\ 0 <= s
      BY <2>1, <2>3
    <3>2. C = A + B
      BY <3>1, <2>1, LineCountAdds
    <3>3. A \in Nat /\ B \in Nat
      BY <3>1, <2>1, LineCountType
    <3>4. after[k] = (1 + A) + B
      BY <2>2, <2>4
    <3> HIDE DEF A, B, C, after
    <3>5. after[k] = 1 + C
      BY <3>2, <3>3, <3>4
    <3> QED BY <3>5 DEF C
  <2>5a. found \in SUBSET (0..n)
    <3>1. p <= n /\ p \in Nat
      OBVIOUS
    <3> QED BY <2>3, <3>1
  <2>6. \A k \in D \cup found : Cardinality(LineStarts(text, 0, k)) \in Nat
    <3> SUFFICES ASSUME NEW k \in D \cup found
                 PROVE  Cardinality(LineStarts(text, 0, k)) \in Nat
      OBVIOUS
    <3>1. k \in 0..n
      BY <1>1, <2>5a
    <3> QED BY <3>1, LineCountType
  <2> HIDE DEF after
  <2>7. Map(after, n)
    <3>1. D \cup found \in SUBSET (0..n) /\ 0 \in D \cup found
      BY <1>1, <2>5a
    <3>2. \A k \in D \cup found : after[k] \in Nat
      BY <1>1, <2>4, <2>5, <2>6
    <3>3. after = [k \in D \cup found |-> after[k]]
      BY DEF after, UpdateCache, found
    <3>4. after \in [D \cup found -> Nat]
      BY <3>2, <3>3
    <3> QED BY <3>1, <3>4 DEF Map
  <2>8. Complete(after, text)
    <3> SUFFICES ASSUME NEW k \in D \cup found
                 PROVE  /\ k = 0 \/ text[k] = Newline
                        /\ \A j \in 1..k : text[j] = Newline => j \in D \cup found
                        /\ after[k] = 1 + Cardinality(LineStarts(text, 0, k))
      BY <2>4 DEF Complete
    <3>1. CASE k \in found
      <4>1. \A j \in 1..k : text[j] = Newline => j \in D \cup found
        <5> SUFFICES ASSUME NEW j \in 1..k, text[j] = Newline
                     PROVE  j \in D \cup found
          OBVIOUS
        <5>1. CASE j <= s
          BY <5>1, <2>1, <2>2
        <5>2. CASE j > s
          BY <5>2, <2>3, <3>1
        <5> QED BY <5>1, <5>2, <2>1
      <4> QED BY <3>1, <4>1, <2>3, <2>5
    <3>2. CASE k \in D \ found
      BY <3>2, <2>4 DEF Complete
    <3> QED BY <3>1, <3>2
  <2>9. \A j \in 1..p : text[j] = Newline => j \in D \cup found
    <3> SUFFICES ASSUME NEW j \in 1..p, text[j] = Newline
                 PROVE  j \in D \cup found
      OBVIOUS
    <3>1. CASE j <= s
      BY <3>1, <2>1, <2>2
    <3>2. CASE j > s
      BY <3>2, <2>3
    <3> QED BY <3>1, <3>2, <2>1
  <2>10. Lookup(map, p) = after
    BY <1>3 DEF Lookup, after, s
  <2> QED BY <2>4, <2>7, <2>8, <2>9, <2>10
<1> QED BY <1>2, <1>3

(* An edit that leaves the first p characters alone: what InvalidateCache  *)
(* keeps of the cache is right for the new text u, of n characters.        *)
LEMMA InvalidateCorrect ==
  ASSUME NEW p \in 0..Len(text), NEW u, NEW n \in Nat, p <= n,
         \A j \in 1..p : u[j] = text[j],
         Len(text) \in Nat,
         Map(map, Len(text)), Complete(map, text)
  PROVE  /\ Map(InvalidateCache(map, p), n)
         /\ Complete(InvalidateCache(map, p), u)
<1> DEFINE D == DOMAIN map
           after == InvalidateCache(map, p)
<1>1. D \in SUBSET (0..Len(text)) /\ 0 \in D /\ \A k \in D : map[k] \in Nat
  BY MapFields
<1>2. CASE p = 0
  <2>1. after = [k \in {0} |-> 1]
    BY <1>2 DEF InvalidateCache
  <2>2. LineStarts(u, 0, 0) = {}
    BY DEF LineStarts
  <2>3. Cardinality(LineStarts(u, 0, 0)) = 0
    BY <2>2, FS_EmptySet
  <2>4. Map(after, n)
    <3>1. {0} \in SUBSET (0..n) /\ after \in [{0} -> Nat]
      BY <2>1
    <3> QED BY <3>1 DEF Map
  <2>5. Complete(after, u)
    BY <2>1, <2>3 DEF Complete
  <2> QED BY <2>4, <2>5
<1>3. CASE p # 0
  <2> DEFINE E == {j \in D : j < p}
  <2>1. after = [k \in E |-> map[k]]
    BY <1>3 DEF InvalidateCache
  <2>2. Map(after, n)
    <3>1. E \in SUBSET (0..n) /\ 0 \in E /\ after \in [E -> Nat]
      BY <1>1, <1>3, <2>1
    <3> QED BY <3>1 DEF Map
  <2>3. Complete(after, u)
    <3> SUFFICES ASSUME NEW k \in E
                 PROVE  /\ k = 0 \/ u[k] = Newline
                        /\ \A j \in 1..k : u[j] = Newline => j \in E
                        /\ map[k] = 1 + Cardinality(LineStarts(u, 0, k))
      BY <2>1 DEF Complete
    <3>1. k \in D /\ k \in 0..p /\ k < p
      BY <1>1
    <3>2. /\ k = 0 \/ text[k] = Newline
          /\ \A j \in 1..k : text[j] = Newline => j \in D
          /\ map[k] = 1 + Cardinality(LineStarts(text, 0, k))
      BY <3>1 DEF Complete
    <3>3. LineStarts(u, 0, k) = LineStarts(text, 0, k)
      BY <3>1, SameLines
    <3> QED BY <3>1, <3>2, <3>3
  <2> QED BY <2>2, <2>3
<1> QED BY <1>2, <1>3

-----------------------------------------------------------------------------
LEMMA InitInv == Init => TypeOK /\ CacheComplete
<1> SUFFICES ASSUME Init PROVE TypeOK /\ CacheComplete
  OBVIOUS
<1>1. LineStarts(text, 0, 0) = {}
  BY DEF LineStarts
<1>2. Cardinality(LineStarts(text, 0, 0)) = 0
  BY <1>1, FS_EmptySet
<1>3. text \in Seq(Char) /\ Len(text) = 0
  BY DEF Init
<1>4. {0} \in SUBSET (0..Len(text)) /\ map \in [{0} -> Nat]
  BY <1>3 DEF Init
<1>5. TypeOK
  BY <1>3, <1>4 DEF TypeOK
<1> QED BY <1>2, <1>5 DEF Init, CacheComplete, Complete

LEMMA StepInv ==
  ASSUME TypeOK, CacheComplete, [Next]_vars
  PROVE  TypeOK' /\ CacheComplete'
<1> USE DEF CacheComplete
<1>1. /\ text \in Seq(Char) /\ Len(text) \in Nat
      /\ Map(map, Len(text)) /\ Complete(map, text)
  BY DEF TypeOK, Map
<1>2. ASSUME NEW p \in 0..Len(text), Get(p)  PROVE TypeOK' /\ CacheComplete'
  <2>1. Map(map', Len(text)) /\ Complete(map', text)
    BY <1>1, <1>2, LookupCorrect DEF Get
  <2> QED BY <1>1, <1>2, <2>1 DEF Get, TypeOK, Map
<1>3. ASSUME NEW p \in 0..Len(text), NEW s \in Texts, InsertBefore(p, s)
      PROVE  TypeOK' /\ CacheComplete'
  <2>1. s \in Seq(Char) /\ Len(s) \in Nat
    BY TextsAssumption
  <2>2. /\ text' \in Seq(Char) /\ Len(text') = Len(text) + Len(s)
        /\ \A j \in 1..p : text'[j] = text[j]
    <3>1. text' = Inserted(text, p, s)
      BY <1>3 DEF InsertBefore
    <3>2. \A i \in 1..(Len(text) + Len(s)) : Inserted(text, p, s)[i] \in Char
      BY <1>1, <2>1 DEF Inserted
    <3>3. Inserted(text, p, s) \in [1..(Len(text) + Len(s)) -> Char]
      BY <3>2 DEF Inserted
    <3>4. Len(text) + Len(s) \in Nat
      BY <1>1, <2>1
    <3>5. text' \in Seq(Char) /\ Len(text') = Len(text) + Len(s)
      BY <3>1, <3>3, <3>4
    <3> QED BY <3>1, <3>5, <1>1, <2>1 DEF Inserted
  <2>3. Map(map', Len(text')) /\ Complete(map', text')
    <3>1. p <= Len(text') /\ Len(text') \in Nat
      BY <1>1, <2>1, <2>2
    <3>2. map' = InvalidateCache(map, p)
      BY <1>3 DEF InsertBefore
    <3> QED BY <1>1, <2>2, <3>1, <3>2, InvalidateCorrect
  <2> QED BY <2>2, <2>3 DEF TypeOK, Map
<1>4. ASSUME NEW start \in 0..Len(text), NEW end \in 0..Len(text), Delete(start, end)
      PROVE  TypeOK' /\ CacheComplete'
  <2> DEFINE n == Len(text) - (end - start)
  <2>1. start < end /\ text' = Removed(text, start, end)
    BY <1>4 DEF Delete
  <2>2. /\ text' \in Seq(Char) /\ Len(text') = n /\ n \in Nat /\ start <= n
        /\ \A j \in 1..start : text'[j] = text[j]
    <3>1. n \in Nat /\ start <= n
      BY <1>1, <2>1
    <3>2. \A i \in 1..n : Removed(text, start, end)[i] \in Char
      BY <1>1, <2>1 DEF Removed
    <3>3. Removed(text, start, end) \in [1..n -> Char]
      BY <3>2 DEF Removed
    <3>4. text' \in Seq(Char) /\ Len(text') = n
      BY <2>1, <3>1, <3>3
    <3> QED BY <2>1, <3>1, <3>4, <1>1 DEF Removed
  <2>3. Map(map', Len(text')) /\ Complete(map', text')
    <3>1. map' = InvalidateCache(map, start)
      BY <1>4 DEF Delete
    <3> QED BY <1>1, <2>2, <3>1, InvalidateCorrect
  <2> QED BY <2>2, <2>3 DEF TypeOK, Map
<1>5. CASE UNCHANGED vars
  BY <1>1, <1>5 DEF vars, TypeOK, Map
<1> QED BY <1>2, <1>3, <1>4, <1>5 DEF Next

LEMMA InvImpliesAnswersRight ==
  ASSUME TypeOK, CacheComplete
  PROVE  AnswersRight
<1> SUFFICES ASSUME NEW p \in 0..Len(text)
             PROVE  /\ Answer(map, p).number = 1 + Cardinality(LineStarts(text, 0, p))
                    /\ Answer(map, p).offset = ComputeStartOfLine(text, p)
  BY DEF AnswersRight
<1> DEFINE after == Lookup(map, p)
           start == Floor(after, p)
<1>1. Len(text) \in Nat /\ Map(map, Len(text)) /\ Complete(map, text)
  BY DEF TypeOK, Map, CacheComplete
<1>2. /\ Map(after, Len(text)) /\ Complete(after, text)
      /\ \A j \in 1..p : text[j] = Newline => j \in DOMAIN after
  BY <1>1, LookupCorrect
<1> HIDE DEF after
<1>3. /\ DOMAIN after \in SUBSET Nat /\ 0 \in DOMAIN after
  BY <1>1, <1>2, MapFields
<1>4. /\ start \in DOMAIN after /\ start \in Nat /\ start <= p
      /\ \A j \in DOMAIN after : j <= p => j <= start
  BY <1>3, FloorIsLargest
<1> HIDE DEF start
<1>5. /\ start = 0 \/ text[start] = Newline
      /\ after[start] = 1 + Cardinality(LineStarts(text, 0, start))
  BY <1>2, <1>4 DEF Complete
<1>6. \A j \in (start + 1)..p : text[j] # Newline
  BY <1>2, <1>4
<1>7. LineStarts(text, 0, start) = LineStarts(text, 0, p)
  BY <1>4, <1>6 DEF LineStarts
<1>8. ComputeStartOfLine(text, p) = start
  <2>1. \A s \in 0..p : (/\ s = 0 \/ text[s] = Newline
                         /\ \A j \in (s + 1)..p : text[j] # Newline) => s = start
    BY <1>4, <1>5, <1>6
  <2>2. start \in 0..p
    BY <1>4
  <2> QED BY <1>5, <1>6, <2>1, <2>2 DEF ComputeStartOfLine
<1> QED BY <1>5, <1>7, <1>8 DEF Answer, after, start

-----------------------------------------------------------------------------
(* The cache never has a hole, whatever was asked and edited               *)
(* (line_number_cache.cc: InvalidateCache and UpdateCache).                *)
THEOREM CacheIsComplete == Spec => [](TypeOK /\ CacheComplete)
<1>1. Init => TypeOK /\ CacheComplete
  BY InitInv
<1>2. (TypeOK /\ CacheComplete) /\ [Next]_vars => (TypeOK /\ CacheComplete)'
  BY StepInv
<1> QED BY <1>1, <1>2, PTL DEF Spec

(* GetLineAndColumn always finds the line an offset is in, for texts of    *)
(* any length.                                                             *)
THEOREM AnswersCorrect == Spec => []AnswersRight
<1>1. (TypeOK /\ CacheComplete) => AnswersRight
  BY InvImpliesAnswersRight
<1> QED BY <1>1, CacheIsComplete, PTL

-----------------------------------------------------------------------------
(***************************************************************************)
(* The ranges.  RangesInside and CacheComplete are inductive: the offsets  *)
(* of a range move in order and never behind the text, and setting a range *)
(* or its text cuts and orders the ends anew.                              *)
(***************************************************************************)

Ends == [start : Nat, end : Nat]

Inside(rs, n) ==
  /\ rs \in [Holder -> Ends]
  /\ \A h \in Holder : rs[h].start <= rs[h].end /\ rs[h].end <= n

LEMMA EndsFields ==
  ASSUME NEW e \in Ends
  PROVE  e.start \in Nat /\ e.end \in Nat
BY DEF Ends

LEMMA EndsIntro ==
  ASSUME NEW a \in Nat, NEW b \in Nat
  PROVE  /\ [start |-> a, end |-> b] \in Ends
         /\ [start |-> a, end |-> b].start = a /\ [start |-> a, end |-> b].end = b
BY DEF Ends

(* set_text takes an empty text, too.                                      *)
LEMMA NewTextType ==
  ASSUME NEW s \in Texts \cup {<< >>}
  PROVE  s \in Seq(Char) /\ Len(s) \in Nat
<1>1. CASE s \in Texts
  BY <1>1, TextsAssumption
<1>2. CASE s = << >>
  BY <1>2
<1>3. QED
  BY <1>1, <1>2

-----------------------------------------------------------------------------
(* The text after an edit, character by character.                         *)
LEMMA InsertedText ==
  ASSUME NEW t \in Seq(Char), NEW p \in 0..Len(t), NEW s \in Seq(Char)
  PROVE  /\ Inserted(t, p, s) \in Seq(Char)
         /\ Len(Inserted(t, p, s)) = Len(t) + Len(s)
         /\ \A i \in 1..(Len(t) + Len(s)) :
              Inserted(t, p, s)[i] = IF i <= p THEN t[i]
                                     ELSE IF i <= p + Len(s) THEN s[i - p]
                                     ELSE t[i - Len(s)]
<1> DEFINE n == Len(t) + Len(s)
<1>1. Len(t) \in Nat /\ Len(s) \in Nat /\ n \in Nat
  OBVIOUS
<1>2. \A i \in 1..n : Inserted(t, p, s)[i] \in Char
  BY <1>1 DEF Inserted
<1>3. Inserted(t, p, s) \in [1..n -> Char]
  BY <1>2 DEF Inserted
<1>4. Inserted(t, p, s) \in Seq(Char) /\ Len(Inserted(t, p, s)) = n
  BY <1>1, <1>3
<1>5. QED
  BY <1>4 DEF Inserted

LEMMA RemovedText ==
  ASSUME NEW t \in Seq(Char), NEW start \in 0..Len(t), NEW end \in 0..Len(t), start <= end
  PROVE  /\ Removed(t, start, end) \in Seq(Char)
         /\ Len(Removed(t, start, end)) = Len(t) - (end - start)
         /\ \A i \in 1..(Len(t) - (end - start)) :
              Removed(t, start, end)[i] = IF i <= start THEN t[i] ELSE t[i + (end - start)]
<1> DEFINE n == Len(t) - (end - start)
<1>1. Len(t) \in Nat /\ n \in Nat /\ start <= n
  OBVIOUS
<1>2. \A i \in 1..n : Removed(t, start, end)[i] \in Char
  BY <1>1 DEF Removed
<1>3. Removed(t, start, end) \in [1..n -> Char]
  BY <1>2 DEF Removed
<1>4. Removed(t, start, end) \in Seq(Char) /\ Len(Removed(t, start, end)) = n
  BY <1>1, <1>3
<1>5. QED
  BY <1>4 DEF Removed

-----------------------------------------------------------------------------
(* What each operation does to the ranges.                                 *)
LEMMA DeletedInside ==
  ASSUME NEW n \in Nat, Inside(range, n),
         NEW start \in 0..n, NEW end \in 0..n, start <= end
  PROVE  Inside(RangesAfterDelete(start, end), n - (end - start))
<1>1. ASSUME NEW h \in Holder
      PROVE  /\ RangesAfterDelete(start, end)[h] \in Ends
             /\ RangesAfterDelete(start, end)[h].start <= RangesAfterDelete(start, end)[h].end
             /\ RangesAfterDelete(start, end)[h].end <= n - (end - start)
  <2> DEFINE a == OffsetAfterDelete(range[h].start, start, end)
             b == OffsetAfterDelete(range[h].end, start, end)
  <2>1. range[h].start \in Nat /\ range[h].end \in Nat
    BY EndsFields DEF Inside
  <2>2. a \in Nat /\ b \in Nat /\ a <= b /\ b <= n - (end - start)
    BY <2>1 DEF OffsetAfterDelete, Inside
  <2>3. RangesAfterDelete(start, end)[h] = [start |-> a, end |-> b]
    BY DEF RangesAfterDelete
  <2> HIDE DEF a, b
  <2>4. QED
    BY <2>2, <2>3, EndsIntro
<1>2. RangesAfterDelete(start, end) \in [Holder -> Ends]
  BY <1>1 DEF RangesAfterDelete
<1>3. QED
  BY <1>1, <1>2 DEF Inside

LEMMA InsertedInside ==
  ASSUME NEW n \in Nat, NEW rs, Inside(rs, n), NEW p \in 0..n, NEW k \in Nat
  PROVE  Inside(RangesAfterInsert(rs, p, k), n + k)
<1>1. ASSUME NEW h \in Holder
      PROVE  /\ RangesAfterInsert(rs, p, k)[h] \in Ends
             /\ RangesAfterInsert(rs, p, k)[h].start <= RangesAfterInsert(rs, p, k)[h].end
             /\ RangesAfterInsert(rs, p, k)[h].end <= n + k
  <2> DEFINE a == OffsetAfterInsert(rs[h].start, p, k)
             b == OffsetAfterInsert(rs[h].end, p, k)
  <2>1. rs[h].start \in Nat /\ rs[h].end \in Nat
    BY EndsFields DEF Inside
  <2>2. a \in Nat /\ b \in Nat /\ a <= b /\ b <= n + k
    BY <2>1 DEF OffsetAfterInsert, Inside
  <2>3. RangesAfterInsert(rs, p, k)[h] = [start |-> a, end |-> b]
    BY DEF RangesAfterInsert
  <2> HIDE DEF a, b
  <2>4. QED
    BY <2>2, <2>3, EndsIntro
<1>2. RangesAfterInsert(rs, p, k) \in [Holder -> Ends]
  BY <1>1 DEF RangesAfterInsert
<1>3. QED
  BY <1>1, <1>2 DEF Inside

LEMMA NewRangeInside ==
  ASSUME NEW start \in Nat, NEW end \in Nat, NEW n \in Nat
  PROVE  /\ NewRange(start, end, n) \in Ends
         /\ NewRange(start, end, n).start <= NewRange(start, end, n).end
         /\ NewRange(start, end, n).end <= n
         /\ start <= end /\ end <= n => NewRange(start, end, n) = [start |-> start, end |-> end]
<1> DEFINE x == Ensured(start, n)
           y == Ensured(end, n)
           a == IF x <= y THEN x ELSE y
           b == IF x <= y THEN y ELSE x
<1>1. /\ a \in Nat /\ b \in Nat /\ a <= b /\ b <= n
      /\ start <= end /\ end <= n => a = start /\ b = end
  BY DEF Ensured
<1>2. NewRange(start, end, n) = [start |-> a, end |-> b]
  BY DEF NewRange
<1> HIDE DEF a, b
<1>3. QED
  BY <1>1, <1>2, EndsIntro

LEMMA SetInside ==
  ASSUME NEW n \in Nat, NEW rs, Inside(rs, n), NEW h \in Holder, NEW e \in Ends,
         e.start <= e.end, e.end <= n
  PROVE  Inside([rs EXCEPT ![h] = e], n)
BY DEF Inside

-----------------------------------------------------------------------------
RangesInv == RangesInside /\ CacheComplete

LEMMA InvFields ==
  RangesInv <=> /\ text \in Seq(Char)
                /\ Map(map, Len(text)) /\ Complete(map, text)
                /\ Inside(range, Len(text))
BY DEF RangesInv, RangesInside, CacheComplete, TypeOK, Map, Inside, Ends

LEMMA RangesInitInv == RangesInit => RangesInv
<1> SUFFICES ASSUME RangesInit PROVE RangesInv
  OBVIOUS
<1>1. TypeOK /\ CacheComplete
  BY InitInv DEF RangesInit
<1>2. Len(text) = 0
  BY DEF RangesInit, Init
<1>3. range \in [Holder -> Ends]
  BY EndsIntro DEF RangesInit
<1>4. \A h \in Holder : range[h].start = 0 /\ range[h].end = 0
  BY DEF RangesInit
<1>5. QED
  BY <1>1, <1>2, <1>3, <1>4 DEF RangesInv, RangesInside, Ends

(* set_text, the two edits and the new range at once.                      *)
LEMMA SetTextEffect ==
  ASSUME RangesInv, NEW h \in Holder, NEW s \in Texts \cup {<< >>}, SetText(h, s)
  PROVE  /\ RangesInv'
         /\ range'[h] = [start |-> range[h].start, end |-> range[h].start + Len(s)]
         /\ \A i \in 1..Len(s) : text'[range[h].start + i] = s[i]
<1> DEFINE start == range[h].start
           end == range[h].end
           rest == Removed(text, start, end)
           moved == RangesAfterInsert(RangesAfterDelete(start, end), start, Len(s))
           n == Len(rest) + Len(s)
           new == NewRange(start, start + Len(s), n)
<1>1. /\ text \in Seq(Char) /\ Len(text) \in Nat
      /\ Map(map, Len(text)) /\ Complete(map, text)
      /\ Inside(range, Len(text))
  BY InvFields
<1>2. /\ start \in Nat /\ end \in Nat /\ start <= end /\ end <= Len(text)
      /\ start \in 0..Len(text) /\ end \in 0..Len(text)
  BY <1>1, EndsFields DEF Inside
<1>3. s \in Seq(Char) /\ Len(s) \in Nat
  BY NewTextType
<1>4. /\ text' = Inserted(rest, start, s)
      /\ map' = IF start = end /\ s = << >> THEN map ELSE InvalidateCache(map, start)
      /\ range' = [moved EXCEPT ![h] = new]
  BY DEF SetText, TextStart
<1> HIDE DEF start, end
<1>5. /\ rest \in Seq(Char) /\ Len(rest) = Len(text) - (end - start) /\ Len(rest) \in Nat
      /\ \A i \in 1..start : rest[i] = text[i]
      /\ start = end => \A i \in 1..Len(text) : rest[i] = text[i]
      /\ start \in 0..Len(rest)
  <2>1. /\ rest \in Seq(Char) /\ Len(rest) = Len(text) - (end - start)
        /\ \A i \in 1..(Len(text) - (end - start)) :
             rest[i] = IF i <= start THEN text[i] ELSE text[i + (end - start)]
    BY <1>1, <1>2, RemovedText
  <2> HIDE DEF rest
  <2>2. Len(text) - (end - start) \in Nat /\ start <= Len(text) - (end - start)
    BY <1>1, <1>2
  <2>3. start = end => \A i \in 1..Len(text) : rest[i] = text[i]
    BY <1>1, <1>2, <2>1
  <2>4. QED
    BY <1>2, <2>1, <2>2, <2>3
<1>6. Inside(moved, n)
  <2>1. Inside(RangesAfterDelete(start, end), Len(rest))
    BY <1>1, <1>2, <1>5, DeletedInside
  <2> HIDE DEF rest
  <2>2. QED
    BY <1>3, <1>5, <2>1, InsertedInside
<1> HIDE DEF rest, moved
<1>7. /\ text' \in Seq(Char) /\ Len(text') = n /\ n \in Nat
      /\ \A i \in 1..n : text'[i] = IF i <= start THEN rest[i]
                                    ELSE IF i <= start + Len(s) THEN s[i - start]
                                    ELSE rest[i - Len(s)]
  <2>1. n = Len(rest) + Len(s) /\ n \in Nat
    BY <1>3, <1>5
  <2>2. QED
    BY <1>3, <1>4, <1>5, <2>1, InsertedText
<1>8. /\ new = [start |-> start, end |-> start + Len(s)] /\ new \in Ends
      /\ new.start <= new.end /\ new.end <= n
  <2>1. start + Len(s) \in Nat /\ start <= start + Len(s) /\ start + Len(s) <= n /\ n \in Nat
    BY <1>2, <1>3, <1>5
  <2> HIDE DEF n
  <2>2. QED
    BY <1>2, <2>1, NewRangeInside
<1>9. Inside(range', n) /\ range'[h] = new
  <2> HIDE DEF new, n
  <2>1. Inside([moved EXCEPT ![h] = new], n)
    BY <1>6, <1>7, <1>8, SetInside
  <2>2. [moved EXCEPT ![h] = new][h] = new
    BY <1>6 DEF Inside
  <2>3. QED
    BY <1>4, <2>1, <2>2
<1>10. Map(map', n) /\ Complete(map', text')
  <2>1. start <= n /\ \A j \in 1..start : text'[j] = text[j]
    BY <1>2, <1>3, <1>5, <1>7
  <2>2. CASE start = end /\ s = << >>
    <3>1. Len(s) = 0
      BY <2>2
    <3>2. n = Len(text)
      BY <1>1, <1>2, <1>5, <2>2, <3>1
    <3>3. \A i \in 1..Len(text) : text'[i] = text[i]
      <4>1. \A i \in 1..Len(text) : rest[i] = text[i]
        BY <1>5, <2>2
      <4>2. QED
        BY <1>1, <1>2, <1>7, <2>2, <3>1, <3>2, <4>1
    <3>4. text' = text
      BY <1>1, <1>7, <3>2, <3>3
    <3>5. QED
      BY <1>1, <1>4, <2>2, <3>2, <3>4
  <2>3. CASE ~(start = end /\ s = << >>)
    BY <1>1, <1>2, <1>4, <1>7, <2>1, <2>3, InvalidateCorrect
  <2>4. QED
    BY <2>2, <2>3
<1>11. RangesInv'
  BY <1>7, <1>9, <1>10 DEF RangesInv, RangesInside, CacheComplete, TypeOK, Map, Inside, Ends
<1>12. \A i \in 1..Len(s) : text'[start + i] = s[i]
  <2> SUFFICES ASSUME NEW i \in 1..Len(s) PROVE text'[start + i] = s[i]
    OBVIOUS
  <2>1. start + i \in 1..n /\ ~(start + i <= start) /\ start + i <= start + Len(s)
    BY <1>2, <1>3, <1>5
  <2>2. (start + i) - start = i
    BY <1>2, <1>3
  <2>3. QED
    BY <1>7, <2>1, <2>2
<1>13. QED
  BY <1>8, <1>9, <1>11, <1>12 DEF start

LEMMA RangesNextInv == RangesInv /\ [RangesNext]_allVars => RangesInv'
<1> SUFFICES ASSUME RangesInv, [RangesNext]_allVars PROVE RangesInv'
  OBVIOUS
<1>1. /\ TypeOK /\ CacheComplete /\ text \in Seq(Char) /\ Len(text) \in Nat
      /\ Inside(range, Len(text))
  BY InvFields DEF RangesInv, RangesInside
<1>2. ASSUME TypeOK', CacheComplete', Inside(range', Len(text')) PROVE RangesInv'
  BY <1>2 DEF RangesInv, RangesInside, Inside, Ends
<1>3. ASSUME NEW p \in 0..Len(text), GetLine(p) PROVE RangesInv'
  <2>1. Next /\ text' = text /\ range' = range
    BY <1>3 DEF GetLine, Next, Get
  <2>2. QED
    BY <1>1, <1>2, <2>1, StepInv
<1>4. ASSUME NEW p \in 0..Len(text), NEW s \in Texts, Insert(p, s) PROVE RangesInv'
  <2>1. Next
    BY <1>4 DEF Insert, Next
  <2>2. s \in Seq(Char) /\ Len(s) \in Nat
    BY TextsAssumption
  <2>3. text' = Inserted(text, p, s) /\ range' = RangesAfterInsert(range, p, Len(s))
    BY <1>4 DEF Insert, InsertBefore
  <2>4. Len(text') = Len(text) + Len(s)
    BY <1>1, <2>2, <2>3, InsertedText
  <2>5. QED
    BY <1>1, <1>2, <2>1, <2>2, <2>3, <2>4, StepInv, InsertedInside
<1>5. ASSUME NEW start \in 0..Len(text), NEW end \in 0..Len(text), Remove(start, end)
      PROVE  RangesInv'
  <2>1. Next
    BY <1>5 DEF Remove, Next
  <2>2. /\ start <= end /\ text' = Removed(text, start, end)
        /\ range' = RangesAfterDelete(start, end)
    BY <1>1, <1>5 DEF Remove, Delete
  <2>3. Len(text') = Len(text) - (end - start)
    BY <1>1, <2>2, RemovedText
  <2>4. QED
    BY <1>1, <1>2, <2>1, <2>2, <2>3, StepInv, DeletedInside
<1>6. ASSUME NEW h \in Holder, NEW start \in 0..(MaxLength + 1), NEW end \in 0..(MaxLength + 1),
             SetRange(h, start, end)
      PROVE  RangesInv'
  <2> DEFINE new == NewRange(start, end, Len(text))
  <2>1. text' = text /\ map' = map /\ range' = [range EXCEPT ![h] = new]
    BY <1>6 DEF SetRange, vars
  <2>2. start \in Nat /\ end \in Nat
    BY MaxLengthAssumption
  <2>3. new \in Ends /\ new.start <= new.end /\ new.end <= Len(text)
    BY <1>1, <2>2, NewRangeInside
  <2> HIDE DEF new
  <2>4. Inside(range', Len(text'))
    BY <1>1, <2>1, <2>3, SetInside
  <2>5. TypeOK' /\ CacheComplete'
    BY <1>1, <2>1, StepInv DEF vars
  <2>6. QED
    BY <1>2, <2>4, <2>5
<1>7. ASSUME NEW h \in Holder, NEW s \in Texts \cup {<< >>}, SetText(h, s) PROVE RangesInv'
  BY <1>7, SetTextEffect
<1>8. CASE UNCHANGED allVars
  <2>1. UNCHANGED vars /\ text' = text /\ range' = range
    BY <1>8 DEF allVars, vars
  <2>2. QED
    BY <1>1, <1>2, <2>1, StepInv
<1>9. QED
  BY <1>3, <1>4, <1>5, <1>6, <1>7, <1>8 DEF RangesNext

LEMMA RangesSpecInv == RangesSpec => []RangesInv
BY RangesInitInv, RangesNextInv, PTL DEF RangesSpec

(* However texts shrink and grow under them and whatever offsets they are  *)
(* set to, ranges stay inside of the text with their ends in order         *)
(* (range_set.cc, range.cc).                                               *)
THEOREM RangesStayInside == RangesSpec => []RangesInside
<1>1. RangesInv => RangesInside
  BY DEF RangesInv
<1>2. QED
  BY <1>1, RangesSpecInv, PTL

(* Line numbers stay right when ranges edit the buffer, too: set_text is   *)
(* two edits that the cache observes one by one.                           *)
THEOREM AnswersStayRight == RangesSpec => []AnswersRight
<1>1. RangesInv => AnswersRight
  BY InvImpliesAnswersRight DEF RangesInv, RangesInside
<1>2. QED
  BY <1>1, RangesSpecInv, PTL

LEMMA SliceText ==
  ASSUME NEW t, NEW from \in Nat, NEW to \in Nat, from <= to
  PROVE  /\ Len(Slice(t, from, to)) = to - from
         /\ DOMAIN Slice(t, from, to) = 1..(to - from)
         /\ \A i \in 1..(to - from) : Slice(t, from, to)[i] = t[from + i]
BY DEF Slice

(* After set_text the range covers the new text, although its own edits    *)
(* moved it like any other range (Range::set_text).                        *)
THEOREM RangeCoversItsText == RangesSpec => SetTextCovers
<1>1. ASSUME RangesInv, NEW h \in Holder, NEW s \in Texts \cup {<< >>}, SetText(h, s)
      PROVE  Covered(text', range'[h]) = s
  <2>1. s \in Seq(Char) /\ Len(s) \in Nat
    BY NewTextType
  <2>2. range[h].start \in Nat
    BY <1>1, InvFields, EndsFields DEF Inside
  <2>3. /\ range'[h].start = range[h].start /\ range'[h].end = range[h].start + Len(s)
        /\ \A i \in 1..Len(s) : text'[range[h].start + i] = s[i]
    <3>1. /\ range'[h] = [start |-> range[h].start, end |-> range[h].start + Len(s)]
          /\ \A i \in 1..Len(s) : text'[range[h].start + i] = s[i]
      BY <1>1, SetTextEffect
    <3>2. QED
      BY <3>1
  <2>4. (range[h].start + Len(s)) - range[h].start = Len(s)
    BY <2>1, <2>2
  <2>5. Covered(text', range'[h]) = [i \in 1..Len(s) |-> text'[range[h].start + i]]
    BY <2>3, <2>4 DEF Covered, Slice
  <2>6. s = [i \in 1..Len(s) |-> s[i]]
    BY <2>1
  <2>7. QED
    BY <2>3, <2>5, <2>6
<1>2. RangesInv /\ [RangesNext]_allVars
        => [\A h \in Holder : \A s \in Texts \cup {<< >>} :
              SetText(h, s) => Covered(text', range'[h]) = s]_allVars
  BY <1>1
<1>3. QED
  BY <1>2, RangesSpecInv, PTL DEF RangesSpec, SetTextCovers

-----------------------------------------------------------------------------
(* An offset of the text cut to a range.                                   *)
Clip(o, from, to) == IF o < from THEN from ELSE IF o > to THEN to ELSE o

LEMMA DeleteKeepsText ==
  ASSUME NEW t \in Seq(Char), NEW from \in Nat, NEW to \in Nat, from <= to, to <= Len(t),
         NEW start \in 0..Len(t), NEW end \in 0..Len(t), start < end
  PROVE  Slice(Removed(t, start, end), OffsetAfterDelete(from, start, end),
               OffsetAfterDelete(to, start, end)) =
           Removed(Slice(t, from, to), Clip(start, from, to) - from, Clip(end, from, to) - from)
<1> DEFINE u == Removed(t, start, end)
           from2 == OffsetAfterDelete(from, start, end)
           to2 == OffsetAfterDelete(to, start, end)
           a == Clip(start, from, to) - from
           b == Clip(end, from, to) - from
           c == Slice(t, from, to)
           n == (to - from) - (b - a)
<1>0. Len(t) \in Nat /\ start <= end
  OBVIOUS
<1>1. Len(t) \in Nat /\ Len(c) = to - from
  BY <1>0, SliceText
<1>2. \A i \in 1..(to - from) : c[i] = t[from + i]
  BY SliceText
<1>3. \A i \in 1..(Len(t) - (end - start)) :
        u[i] = IF i <= start THEN t[i] ELSE t[i + (end - start)]
  BY <1>0, RemovedText
<1>4. /\ a \in Nat /\ b \in Nat /\ a <= b /\ b <= to - from /\ n \in Nat
      /\ from2 \in Nat /\ to2 - from2 = n /\ from2 + n <= Len(t) - (end - start)
  BY <1>1 DEF Clip, OffsetAfterDelete
<1>5. ASSUME NEW i \in 1..n
      PROVE  u[from2 + i] = IF i <= a THEN c[i] ELSE c[i + (b - a)]
  <2>1. from2 + i \in 1..(Len(t) - (end - start))
    <3>1. i \in Nat /\ 1 <= i /\ i <= n
      BY <1>4
    <3>2. from2 + i >= 1 /\ from2 + i <= from2 + n
      BY <1>4, <3>1
    <3> HIDE DEF n, from2
    <3> QED BY <1>0, <1>4, <3>1, <3>2
  <2>2. u[from2 + i] = IF from2 + i <= start THEN t[from2 + i]
                       ELSE t[(from2 + i) + (end - start)]
    BY <1>3, <2>1
  <2>3. CASE i <= a
    <3>1. from2 = from /\ from + i <= start /\ i \in 1..(to - from)
      BY <1>1, <1>4, <2>3 DEF Clip, OffsetAfterDelete
    <3>2. QED
      BY <1>2, <2>2, <2>3, <3>1
  <2>4. CASE i > a
    <3>1. /\ i + (b - a) \in 1..(to - from)
          /\ from + (i + (b - a)) = IF from2 + i <= start THEN from2 + i
                                    ELSE (from2 + i) + (end - start)
      BY <1>1, <1>4, <2>4 DEF Clip, OffsetAfterDelete
    <3>2. c[i + (b - a)] = t[from + (i + (b - a))]
      BY <1>2, <3>1
    <3> HIDE DEF c, u, from2, a, b
    <3>3. ~(i <= a)
      BY <1>4, <2>4
    <3>4. QED
      BY <2>2, <3>1, <3>2, <3>3
  <2>5. QED
    BY <1>4, <2>3, <2>4
<1>6. Slice(u, from2, to2) = [i \in 1..n |-> u[from2 + i]]
  BY <1>4 DEF Slice
<1>7. Removed(c, a, b) = [i \in 1..n |-> IF i <= a THEN c[i] ELSE c[i + (b - a)]]
  BY <1>1 DEF Removed
<1> HIDE DEF u, from2, to2, a, b, c, n
<1>8. Slice(u, from2, to2) = Removed(c, a, b)
  BY <1>5, <1>6, <1>7
<1>9. QED
  BY <1>8 DEF u, from2, to2, a, b, c

LEMMA InsertKeepsText ==
  ASSUME NEW t \in Seq(Char), NEW from \in Nat, NEW to \in Nat, from <= to, to <= Len(t),
         NEW p \in 0..Len(t), NEW s \in Seq(Char)
  PROVE  Slice(Inserted(t, p, s), OffsetAfterInsert(from, p, Len(s)),
               OffsetAfterInsert(to, p, Len(s))) =
           IF from < p /\ p <= to THEN Inserted(Slice(t, from, to), p - from, s)
           ELSE Slice(t, from, to)
<1> DEFINE u == Inserted(t, p, s)
           k == Len(s)
           from2 == OffsetAfterInsert(from, p, k)
           to2 == OffsetAfterInsert(to, p, k)
           c == Slice(t, from, to)
           a == p - from
<1>1. /\ Len(t) \in Nat /\ k \in Nat /\ Len(c) = to - from
      /\ \A i \in 1..(to - from) : c[i] = t[from + i]
  <2>1. Len(t) \in Nat /\ Len(s) \in Nat
    OBVIOUS
  <2>2. QED
    BY <2>1, SliceText
<1>2. \A i \in 1..(Len(t) + k) :
        u[i] = IF i <= p THEN t[i] ELSE IF i <= p + k THEN s[i - p] ELSE t[i - k]
  BY InsertedText
<1>3. c = [i \in 1..(to - from) |-> t[from + i]]
  BY DEF Slice
<1>4. Slice(u, from2, to2) = [i \in 1..(to2 - from2) |-> u[from2 + i]]
  BY DEF Slice
<1> HIDE DEF u, k, c
<1>5. CASE from < p /\ p <= to
  <2>1. from2 = from /\ to2 = to + k /\ to2 - from2 = (to - from) + k /\ a \in Nat
    BY <1>1, <1>5 DEF OffsetAfterInsert
  <2>2. ASSUME NEW i \in 1..((to - from) + k)
        PROVE  u[from + i] = IF i <= a THEN c[i] ELSE IF i <= a + k THEN s[i - a] ELSE c[i - k]
    <3>1. /\ from + i \in 1..(Len(t) + k)
          /\ from + i <= p <=> i <= a
          /\ from + i <= p + k <=> i <= a + k
          /\ (from + i) - p = i - a
          /\ (from + i) - k = from + (i - k)
          /\ i <= a => i \in 1..(to - from)
          /\ ~(i <= a + k) => i - k \in 1..(to - from)
      BY <1>1, <1>5
    <3>2. u[from + i] = IF from + i <= p THEN t[from + i]
                        ELSE IF from + i <= p + k THEN s[(from + i) - p] ELSE t[(from + i) - k]
      BY <1>2, <3>1
    <3> HIDE DEF a
    <3>3. QED
      BY <1>1, <3>1, <3>2
  <2>3. Inserted(c, a, s) = [i \in 1..((to - from) + k) |->
          IF i <= a THEN c[i] ELSE IF i <= a + k THEN s[i - a] ELSE c[i - k]]
    BY <1>1 DEF Inserted, k
  <2> HIDE DEF from2, to2, a
  <2>4. Slice(u, from2, to2) = Inserted(c, a, s)
    BY <1>4, <2>1, <2>2, <2>3
  <2>5. QED
    BY <1>5, <2>4 DEF u, k, c, from2, to2, a
<1>6. CASE ~(from < p /\ p <= to)
  <2>1. to2 - from2 = to - from /\ from2 \in Nat
    BY <1>1, <1>6 DEF OffsetAfterInsert
  <2>2. ASSUME NEW i \in 1..(to - from) PROVE u[from2 + i] = t[from + i]
    <3>1. from2 + i \in 1..(Len(t) + k)
      BY <1>1, <1>6 DEF OffsetAfterInsert
    <3>2. u[from2 + i] = IF from2 + i <= p THEN t[from2 + i]
                         ELSE IF from2 + i <= p + k THEN s[(from2 + i) - p]
                         ELSE t[(from2 + i) - k]
      BY <1>2, <3>1
    <3>3. CASE from >= p
      <4>1. ~(from2 + i <= p) /\ ~(from2 + i <= p + k) /\ (from2 + i) - k = from + i
        BY <1>1, <3>3 DEF OffsetAfterInsert
      <4> HIDE DEF from2
      <4>2. QED
        BY <3>2, <4>1
    <3>4. CASE to < p
      <4>1. from2 = from /\ from + i <= p
        BY <1>1, <3>4 DEF OffsetAfterInsert
      <4> HIDE DEF from2
      <4>2. QED
        BY <3>2, <4>1
    <3>5. QED
      BY <1>6, <3>3, <3>4
  <2> HIDE DEF from2, to2
  <2>3. Slice(u, from2, to2) = c
    BY <1>3, <1>4, <2>1, <2>2
  <2>4. QED
    BY <1>6, <2>3 DEF u, k, c, from2, to2
<1>7. QED
  BY <1>5, <1>6

(* What a range covers changes only where the text is edited               *)
(* (RangeSet::DidDeleteAt and DidInsertBefore).                            *)
THEOREM RangesKeepTheirText == RangesSpec => RangesKeepText
<1> DEFINE Kept(h) ==
      LET from == range[h].start
          to == range[h].end
          clip(o) == IF o < from THEN from ELSE IF o > to THEN to ELSE o
      IN  /\ \A start, end \in 0..Len(text) :
               Remove(start, end) =>
                 Covered(text', range'[h]) =
                   Removed(Covered(text, range[h]), clip(start) - from, clip(end) - from)
          /\ \A p \in 0..Len(text) : \A s \in Texts :
               Insert(p, s) =>
                 Covered(text', range'[h]) =
                   IF from < p /\ p <= to
                   THEN Inserted(Covered(text, range[h]), p - from, s)
                   ELSE Covered(text, range[h])
<1>1. ASSUME RangesInv, NEW h \in Holder PROVE Kept(h)
  <2> DEFINE from == range[h].start
             to == range[h].end
  <2>1. /\ text \in Seq(Char) /\ from \in Nat /\ to \in Nat
        /\ from <= to /\ to <= Len(text)
    BY <1>1, InvFields, EndsFields DEF Inside
  <2>2. ASSUME NEW start \in 0..Len(text), NEW end \in 0..Len(text), Remove(start, end)
        PROVE  Covered(text', range'[h]) =
                 Removed(Covered(text, range[h]),
                         Clip(start, from, to) - from, Clip(end, from, to) - from)
    <3>1. /\ start < end /\ text' = Removed(text, start, end)
          /\ range'[h] = [start |-> OffsetAfterDelete(from, start, end),
                          end |-> OffsetAfterDelete(to, start, end)]
      BY <2>2 DEF Remove, Delete, RangesAfterDelete
    <3>2. /\ range'[h].start = OffsetAfterDelete(from, start, end)
          /\ range'[h].end = OffsetAfterDelete(to, start, end)
      BY <3>1
    <3>3. QED
      BY <2>1, <3>1, <3>2, DeleteKeepsText DEF Covered
  <2>3. ASSUME NEW p \in 0..Len(text), NEW s \in Texts, Insert(p, s)
        PROVE  Covered(text', range'[h]) =
                 IF from < p /\ p <= to THEN Inserted(Covered(text, range[h]), p - from, s)
                 ELSE Covered(text, range[h])
    <3>1. /\ s \in Seq(Char) /\ text' = Inserted(text, p, s)
          /\ range'[h] = [start |-> OffsetAfterInsert(from, p, Len(s)),
                          end |-> OffsetAfterInsert(to, p, Len(s))]
      BY <2>3, TextsAssumption DEF Insert, InsertBefore, RangesAfterInsert
    <3>2. /\ range'[h].start = OffsetAfterInsert(from, p, Len(s))
          /\ range'[h].end = OffsetAfterInsert(to, p, Len(s))
      BY <3>1
    <3>3. QED
      BY <2>1, <3>1, <3>2, InsertKeepsText DEF Covered
  <2>4. QED
    BY <2>2, <2>3 DEF Clip
<1>2. RangesInv /\ [RangesNext]_allVars => [\A h \in Holder : Kept(h)]_allVars
  BY <1>1
<1>3. QED
  BY <1>2, RangesSpecInv, PTL DEF RangesSpec, RangesKeepText
=============================================================================
