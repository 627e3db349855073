--------------------------- MODULE UndoStackProofs ---------------------------
(***************************************************************************)
(* Proofs about the undo stack, for texts of any length, any number of     *)
(* edits and groups nested to any depth.                                   *)
(***************************************************************************)
EXTENDS UndoStack, FiniteSetTheorems, SequenceTheorems, WellFoundedInduction, TLAPS

-----------------------------------------------------------------------------
(* Numbers.  Induction is stated for sets, so that it can be used for any  *)
(* property of a number.                                                   *)

(* A set of natural numbers that is not empty has a least member.          *)
LEMMA LeastNumber ==
  ASSUME NEW T \in SUBSET Nat, T # {}
  PROVE  \E x \in T : \A y \in T : x <= y
<1> DEFINE R == {ss \in Nat \X Nat : ss[1] < ss[2]}
<1>1. IsWellFoundedOn(R, Nat)
  BY NatLessThanWellFounded, Zenon DEF OpToRel
<1>2. T \subseteq Nat
  OBVIOUS
<1> HIDE DEF R
<1>3. PICK x \in T : \A y \in T : <<y, x>> \notin R
  BY <1>1, <1>2, WFMin, Zenon
<1>4. ASSUME NEW y \in T  PROVE x <= y
  <2>1. ~ (y < x)
    BY <1>3 DEF R
  <2> QED BY <2>1
<1> QED BY <1>4

(* Among the numbers up to n, a set that is not empty has a greatest one.  *)
LEMMA GreatestNumber ==
  ASSUME NEW n \in Nat, NEW T \in SUBSET (1..n), T # {}
  PROVE  \E x \in T : \A y \in (x + 1)..n : y \notin T
<1> DEFINE D == {n - y : y \in T}
<1>1. D \in SUBSET Nat /\ D # {}
  <2>1. \A y \in T : n - y \in Nat
    OBVIOUS
  <2>2. PICK y \in T : TRUE
    OBVIOUS
  <2>3. n - y \in D
    BY <2>2
  <2> QED BY <2>1, <2>3
<1>2. PICK d \in D : \A e \in D : d <= e
  <2> HIDE DEF D
  <2> QED BY <1>1, LeastNumber
<1>3. PICK x \in T : d = n - x
  BY <1>2
<1>4. ASSUME NEW y \in (x + 1)..n, y \in T  PROVE FALSE
  <2>1. n - y \in D
    BY <1>4
  <2>2. d <= n - y
    BY <1>2, <2>1
  <2> QED BY <1>3, <1>4, <2>2
<1> QED BY <1>4

(* What holds for n + 1, and for i when it holds for i + 1, holds for all. *)
LEMMA Downwards ==
  ASSUME NEW n \in Nat, NEW k \in 1..(n + 1), NEW T, n + 1 \in T,
         \A i \in k..n : i + 1 \in T => i \in T
  PROVE  \A i \in k..(n + 1) : i \in T
<1> SUFFICES ASSUME NEW j \in k..(n + 1), j \notin T  PROVE FALSE
  OBVIOUS
<1> DEFINE D == {i \in k..n : i \notin T}
<1>1. j \in D /\ D \in SUBSET (1..n)
  BY SMT
<1>2. PICK x \in D : \A y \in (x + 1)..n : y \notin D
  <2> HIDE DEF D
  <2> QED BY <1>1, GreatestNumber
<1>3. x + 1 \in k..(n + 1) /\ x \in k..n /\ x \notin T
  BY <1>2
<1>4. x + 1 \in T
  BY <1>2, <1>3
<1> QED BY <1>3, <1>4

(* What holds for 0, and for i + 1 when it holds for i, holds for all.      *)
LEMMA Upwards ==
  ASSUME NEW n \in Nat, NEW T, 0 \in T,
         \A i \in 0..(n - 1) : i \in T => i + 1 \in T
  PROVE  \A i \in 0..n : i \in T
<1> SUFFICES ASSUME NEW j \in 0..n, j \notin T  PROVE FALSE
  OBVIOUS
<1> DEFINE D == {i \in 0..n : i \notin T}
<1>1. j \in D /\ D \in SUBSET Nat
  BY SMT
<1>2. PICK x \in D : \A y \in D : x <= y
  <2> HIDE DEF D
  <2> QED BY <1>1, LeastNumber
<1>3. x # 0 /\ x \in 0..n /\ x \notin T
  BY <1>2
<1>4. x - 1 \in 0..(n - 1) /\ x - 1 \notin D
  BY <1>2, <1>3
<1>5. x - 1 \in T
  BY <1>4
<1> QED BY <1>3, <1>4, <1>5

-----------------------------------------------------------------------------
(* Counting brackets                                                       *)

OfKind(s, lo, hi, kind) == {i \in lo..hi : s[i].kind = kind}

LEMMA CountType ==
  ASSUME NEW s, NEW lo \in Int, NEW hi \in Int, NEW kind
  PROVE  /\ IsFiniteSet(OfKind(s, lo, hi, kind))
         /\ CountKind(s, lo, hi, kind) = Cardinality(OfKind(s, lo, hi, kind))
         /\ CountKind(s, lo, hi, kind) \in Nat
<1>1. IsFiniteSet(lo..hi)
  BY FS_Interval
<1>2. OfKind(s, lo, hi, kind) \in SUBSET (lo..hi)
  BY DEF OfKind
<1>3. IsFiniteSet(OfKind(s, lo, hi, kind))
  BY <1>1, <1>2, FS_Subset, Zenon
<1>4. Cardinality(OfKind(s, lo, hi, kind)) \in Nat
  BY <1>3, FS_CardinalityType, Zenon
<1>5. CountKind(s, lo, hi, kind) = Cardinality(OfKind(s, lo, hi, kind))
  BY Zenon DEF CountKind, OfKind
<1> QED BY <1>3, <1>4, <1>5

LEMMA CountAdds ==
  ASSUME NEW s, NEW lo \in Int, NEW mid \in Int, NEW hi \in Int, NEW kind,
         lo <= mid + 1, mid <= hi
  PROVE  CountKind(s, lo, hi, kind)
           = CountKind(s, lo, mid, kind) + CountKind(s, mid + 1, hi, kind)
<1> DEFINE C == OfKind(s, lo, hi, kind)
           L == OfKind(s, lo, mid, kind)
           H == OfKind(s, mid + 1, hi, kind)
<1>1. C = L \cup H /\ L \cap H = {}
  BY DEF OfKind
<1>2. mid + 1 \in Int
  OBVIOUS
<1>3. /\ IsFiniteSet(L) /\ IsFiniteSet(H)
      /\ CountKind(s, lo, hi, kind) = Cardinality(C)
      /\ CountKind(s, lo, mid, kind) = Cardinality(L)
      /\ CountKind(s, mid + 1, hi, kind) = Cardinality(H)
      /\ CountKind(s, lo, mid, kind) \in Nat /\ CountKind(s, mid + 1, hi, kind) \in Nat
  BY <1>2, CountType
<1> HIDE DEF C, L, H
<1>4. Cardinality(L \cup H) = Cardinality(L) + Cardinality(H) - Cardinality({})
  BY <1>1, <1>3, FS_Union
<1>5. Cardinality({}) = 0
  BY FS_EmptySet
<1> QED BY <1>1, <1>3, <1>4, <1>5

LEMMA CountOne ==
  ASSUME NEW s, NEW i \in Int, NEW kind
  PROVE  CountKind(s, i, i, kind) = IF s[i].kind = kind THEN 1 ELSE 0
<1> DEFINE C == {j \in i..i : s[j].kind = kind}
<1>1. i..i = {i}
  BY SMT
<1>2. C = IF s[i].kind = kind THEN {i} ELSE {}
  BY <1>1, Zenon
<1>3. Cardinality({i}) = 1 /\ Cardinality({}) = 0
  BY FS_Singleton, FS_EmptySet, Zenon
<1> HIDE DEF C
<1>4. Cardinality(C) = IF s[i].kind = kind THEN 1 ELSE 0
  BY <1>2, <1>3
<1> QED BY <1>4 DEF CountKind, C

LEMMA CountNone ==
  ASSUME NEW s, NEW lo \in Int, NEW hi \in Int, hi < lo, NEW kind
  PROVE  CountKind(s, lo, hi, kind) = 0
<1>1. {i \in lo..hi : s[i].kind = kind} = {}
  BY SMT
<1> QED BY <1>1, FS_EmptySet DEF CountKind

LEMMA CountSame ==
  ASSUME NEW s, NEW t, NEW lo \in Int, NEW hi \in Int, NEW kind,
         \A i \in lo..hi : t[i].kind = s[i].kind
  PROVE  CountKind(t, lo, hi, kind) = CountKind(s, lo, hi, kind)
<1>1. {i \in lo..hi : t[i].kind = kind} = {i \in lo..hi : s[i].kind = kind}
  OBVIOUS
<1> QED BY <1>1 DEF CountKind

-----------------------------------------------------------------------------
(***************************************************************************)
(* Nesting, for the undo steps, where "begin" opens a group and "end"      *)
(* closes it, and for the redo steps, where it is the other way round.     *)
(***************************************************************************)
Brackets(a, b) == \/ a = "begin" /\ b = "end"
                  \/ a = "end" /\ b = "begin"

(* How many more opening than closing brackets the first i steps have.     *)
Excess(s, i, a, b) == CountKind(s, 1, i, a) - CountKind(s, 1, i, b)

Nested(s, a, b, open) ==
  /\ \A i \in 1..Len(s) : Excess(s, i, a, b) >= 0
  /\ Excess(s, Len(s), a, b) = open
  /\ \A i \in 2..Len(s) : ~ (s[i - 1].kind = a /\ s[i].kind = b)

LEMMA ExcessType ==
  ASSUME NEW s, NEW i \in Nat, NEW a, NEW b
  PROVE  Excess(s, i, a, b) \in Int /\ Excess(s, 0, a, b) = 0
<1>1. CountKind(s, 1, i, a) \in Nat /\ CountKind(s, 1, i, b) \in Nat
  BY CountType
<1>2. CountKind(s, 1, 0, a) = 0 /\ CountKind(s, 1, 0, b) = 0
  BY CountNone
<1> QED BY <1>1, <1>2 DEF Excess

LEMMA ExcessStep ==
  ASSUME NEW s, NEW i \in Nat \ {0}, NEW a, NEW b, Brackets(a, b)
  PROVE  /\ Excess(s, i - 1, a, b) \in Int
         /\ s[i].kind = a => Excess(s, i, a, b) = Excess(s, i - 1, a, b) + 1
         /\ s[i].kind = b => Excess(s, i, a, b) = Excess(s, i - 1, a, b) - 1
         /\ s[i].kind \notin {a, b} => Excess(s, i, a, b) = Excess(s, i - 1, a, b)
<1>1. a # b
  BY DEF Brackets
<1>2. ASSUME NEW kind
      PROVE  /\ CountKind(s, 1, i - 1, kind) \in Nat
             /\ CountKind(s, 1, i, kind)
                  = CountKind(s, 1, i - 1, kind) + (IF s[i].kind = kind THEN 1 ELSE 0)
  <2>1. i - 1 \in Int /\ 1 <= (i - 1) + 1 /\ i - 1 <= i /\ (i - 1) + 1 = i
    OBVIOUS
  <2>2. CountKind(s, 1, i - 1, kind) \in Nat
    BY <2>1, CountType
  <2>3. CountKind(s, 1, i, kind)
          = CountKind(s, 1, i - 1, kind) + CountKind(s, (i - 1) + 1, i, kind)
    BY <2>1, CountAdds
  <2>4. CountKind(s, i, i, kind) = IF s[i].kind = kind THEN 1 ELSE 0
    BY CountOne
  <2> QED BY <2>1, <2>2, <2>3, <2>4
<1>3. /\ CountKind(s, 1, i - 1, a) \in Nat
      /\ CountKind(s, 1, i, a)
           = CountKind(s, 1, i - 1, a) + (IF s[i].kind = a THEN 1 ELSE 0)
  BY <1>2
<1>4. /\ CountKind(s, 1, i - 1, b) \in Nat
      /\ CountKind(s, 1, i, b)
           = CountKind(s, 1, i - 1, b) + (IF s[i].kind = b THEN 1 ELSE 0)
  BY <1>2
<1> QED BY <1>1, <1>3, <1>4 DEF Excess

(* Only the kinds of the steps count.                                      *)
LEMMA ExcessSame ==
  ASSUME NEW s, NEW t, NEW i \in Nat, NEW a, NEW b,
         \A j \in 1..i : t[j].kind = s[j].kind
  PROVE  Excess(t, i, a, b) = Excess(s, i, a, b)
BY CountSame DEF Excess

LEMMA NestedSame ==
  ASSUME NEW s, NEW n \in Nat, Len(s) = n, NEW t, Len(t) = n,
         \A i \in 1..n : t[i].kind = s[i].kind,
         NEW a, NEW b, NEW open, Nested(s, a, b, open)
  PROVE  Nested(t, a, b, open)
<1>1. ASSUME NEW i \in 0..n  PROVE Excess(t, i, a, b) = Excess(s, i, a, b)
  <2>1. i \in Nat /\ \A j \in 1..i : t[j].kind = s[j].kind
    OBVIOUS
  <2> QED BY <2>1, ExcessSame
<1>2. ASSUME NEW i \in 1..n  PROVE Excess(t, i, a, b) >= 0
  <2>1. i \in 0..n
    OBVIOUS
  <2> QED BY <2>1, <1>1 DEF Nested
<1>3. ASSUME NEW i \in 2..n  PROVE ~ (t[i - 1].kind = a /\ t[i].kind = b)
  <2>1. i \in 1..n /\ i - 1 \in 1..n
    OBVIOUS
  <2> QED BY <2>1 DEF Nested
<1>4. n \in 0..n
  OBVIOUS
<1> QED BY <1>1, <1>2, <1>3, <1>4 DEF Nested

(* What is nested neither begins with a closing bracket nor ends with an   *)
(* opening one.                                                            *)
LEMMA NestedEnds ==
  ASSUME NEW s, Len(s) \in Nat \ {0}, NEW a, NEW b, Brackets(a, b), Nested(s, a, b, 0)
  PROVE  s[1].kind # b /\ s[Len(s)].kind # a
<1> DEFINE n == Len(s)
<1>1. n \in Nat \ {0} /\ n - 1 \in Nat /\ n >= 1 /\ 1 - 1 = 0
  OBVIOUS
<1>2. /\ \A i \in 1..n : Excess(s, i, a, b) >= 0
      /\ Excess(s, n, a, b) = 0
  BY DEF Nested
<1>3. Excess(s, 0, a, b) = 0 /\ Excess(s, n - 1, a, b) \in Int /\ Excess(s, n - 1, a, b) >= 0
  <2>1. Excess(s, 0, a, b) = 0 /\ Excess(s, n - 1, a, b) \in Int
    BY <1>1, ExcessType
  <2> HIDE DEF n
  <2>2. n - 1 = 0 \/ n - 1 \in 1..n
    BY <1>1
  <2> QED BY <1>2, <2>1, <2>2
<1> HIDE DEF n
<1>4. s[1].kind = b => Excess(s, 1, a, b) = Excess(s, 0, a, b) - 1
  BY <1>1, ExcessStep
<1>5. s[n].kind = a => Excess(s, n, a, b) = Excess(s, n - 1, a, b) + 1
  BY <1>1, ExcessStep
<1>6. Excess(s, 1, a, b) >= 0
  BY <1>1, <1>2
<1> QED BY <1>1, <1>2, <1>3, <1>4, <1>5, <1>6 DEF n

LEMMA ClosedExcess ==
  ASSUME NEW s, NEW n \in Nat, Len(s) = n, NEW i \in 1..n, NEW a, NEW b, Brackets(a, b)
  PROVE  Closed(s, i) <=> Excess(s, i - 1, a, b) = Excess(s, n, a, b)
<1>1. ASSUME NEW kind
      PROVE  /\ CountKind(s, 1, n, kind) = CountKind(s, 1, i - 1, kind) + CountKind(s, i, n, kind)
             /\ CountKind(s, 1, i - 1, kind) \in Nat
             /\ CountKind(s, i, n, kind) \in Nat
  <2>1. i - 1 \in Int /\ (i - 1) + 1 = i /\ 1 <= (i - 1) + 1 /\ i - 1 <= n
    OBVIOUS
  <2>2. CountKind(s, 1, n, kind) = CountKind(s, 1, i - 1, kind) + CountKind(s, (i - 1) + 1, n, kind)
    BY <2>1, CountAdds
  <2>3. CountKind(s, 1, i - 1, kind) \in Nat /\ CountKind(s, i, n, kind) \in Nat
    BY <2>1, CountType
  <2> QED BY <2>1, <2>2, <2>3
<1>2. /\ CountKind(s, 1, n, a) = CountKind(s, 1, i - 1, a) + CountKind(s, i, n, a)
      /\ CountKind(s, 1, i - 1, a) \in Nat /\ CountKind(s, i, n, a) \in Nat
  BY <1>1
<1>3. /\ CountKind(s, 1, n, b) = CountKind(s, 1, i - 1, b) + CountKind(s, i, n, b)
      /\ CountKind(s, 1, i - 1, b) \in Nat /\ CountKind(s, i, n, b) \in Nat
  BY <1>1
<1>4. Closed(s, i) <=> CountKind(s, i, n, a) = CountKind(s, i, n, b)
  BY DEF Closed, Brackets
<1> QED BY <1>2, <1>3, <1>4 DEF Excess

(* The unit on top of a stack is the shortest one that is closed.          *)
LEMMA UnitStartFacts ==
  ASSUME NEW s, NEW n \in Nat \ {0}, Len(s) = n, NEW a, NEW b, Brackets(a, b),
         Nested(s, a, b, 0)
  PROVE  /\ UnitStart(s) \in 1..n
         /\ Excess(s, UnitStart(s) - 1, a, b) = 0
         /\ \A i \in UnitStart(s)..(n - 1) : Excess(s, i, a, b) # 0
         /\ s[UnitStart(s)].kind # b
<1> DEFINE C == {i \in 1..n : Closed(s, i)}
           k == UnitStart(s)
<1>1. \A i \in 1..n : Closed(s, i) <=> Excess(s, i - 1, a, b) = 0
  BY ClosedExcess DEF Nested
<1>2. 1 \in C /\ C \in SUBSET (1..n)
  <2>1. Excess(s, 0, a, b) = 0
    BY ExcessType
  <2> QED BY <2>1, <1>1
<1>3. \E i \in 1..n : Closed(s, i) /\ \A j \in (i + 1)..n : ~ Closed(s, j)
  <2>1. PICK x \in C : \A y \in (x + 1)..n : y \notin C
    <3> HIDE DEF C
    <3> QED BY <1>2, GreatestNumber
  <2> QED BY <2>1
<1>4. k \in 1..n /\ Closed(s, k) /\ \A j \in (k + 1)..n : ~ Closed(s, j)
  BY <1>3, Zenon DEF UnitStart
<1> HIDE DEF k
<1>5. Excess(s, k - 1, a, b) = 0
  BY <1>1, <1>4
<1>6. ASSUME NEW i \in k..(n - 1)  PROVE Excess(s, i, a, b) # 0
  <2>1. i + 1 \in (k + 1)..n /\ i + 1 \in 1..n /\ (i + 1) - 1 = i
    BY <1>4
  <2> QED BY <2>1, <1>1, <1>4
<1>7. s[k].kind # b
  <2>1. k \in Nat \ {0}
    BY <1>4
  <2>2. s[k].kind = b => Excess(s, k, a, b) = Excess(s, k - 1, a, b) - 1
    BY <2>1, ExcessStep
  <2>3. Excess(s, k, a, b) >= 0
    BY <1>4 DEF Nested
  <2> QED BY <2>2, <2>3, <1>5
<1> QED BY <1>4, <1>5, <1>6, <1>7 DEF k

(* Without empty groups a stretch of steps that begins with no closing     *)
(* bracket and ends with no opening one has a text step.                   *)
LEMMA TextStepExists ==
  ASSUME NEW s, NEW lo \in Nat, NEW hi \in Nat, lo <= hi, NEW a, NEW b,
         \A i \in lo..hi : IsTextStep(s[i]) \/ s[i].kind \in {a, b},
         s[lo].kind # b, s[hi].kind # a,
         \A i \in (lo + 1)..hi : ~ (s[i - 1].kind = a /\ s[i].kind = b)
  PROVE  \E i \in lo..hi : IsTextStep(s[i])
<1> SUFFICES ASSUME \A i \in lo..hi : ~ IsTextStep(s[i])  PROVE FALSE
  OBVIOUS
<1>1. \A i \in lo..hi : s[i].kind = a \/ s[i].kind = b
  OBVIOUS
<1> DEFINE T == {i \in lo..hi : s[i].kind = b}
<1>2. hi \in T /\ T \in SUBSET Nat
  BY <1>1
<1>3. PICK x \in T : \A y \in T : x <= y
  <2> HIDE DEF T
  <2> QED BY <1>2, LeastNumber
<1>4. x \in lo..hi /\ x # lo /\ s[x].kind = b
  BY <1>3
<1>5. x - 1 \in lo..hi /\ x \in (lo + 1)..hi /\ x - 1 \notin T
  BY <1>3, <1>4
<1>6. s[x - 1].kind = a
  BY <1>1, <1>5
<1> QED BY <1>4, <1>5, <1>6

(* The unit on top of s turned around on top of r: how undo and redo move  *)
(* it from one stack to the other.                                         *)
Moved(s, r, w) ==
  /\ Len(w) = Len(r) + (Len(s) + 1 - UnitStart(s))
  /\ \A j \in 1..Len(r) : w[j].kind = r[j].kind
  /\ \A i \in 1..(Len(s) + 1 - UnitStart(s)) :
       w[Len(r) + i].kind = s[Len(s) + 1 - i].kind

LEMMA MovedExcess ==
  ASSUME NEW s, NEW n \in Nat \ {0}, Len(s) = n, NEW r, NEW m \in Nat, Len(r) = m, NEW w,
         NEW a, NEW b, Brackets(a, b), Nested(s, a, b, 0), Nested(r, b, a, 0),
         Moved(s, r, w),
         NEW i \in 0..(n + 1 - UnitStart(s))
  PROVE  Excess(w, m + i, b, a) = Excess(s, n - i, a, b)
<1> DEFINE k == UnitStart(s)
           T == {j \in 0..(n + 1 - k) : Excess(w, m + j, b, a) = Excess(s, n - j, a, b)}
<1>1. k \in 1..n
  BY UnitStartFacts
<1> HIDE DEF k
<1>2. 0 \in T
  <2>1. Excess(w, m, b, a) = Excess(r, m, b, a)
    BY ExcessSame DEF Moved
  <2>2. Excess(r, m, b, a) = 0 /\ Excess(s, n, a, b) = 0
    BY DEF Nested
  <2>3. m + 0 = m /\ n - 0 = n /\ 0 \in 0..(n + 1 - k)
    BY <1>1
  <2> QED BY <2>1, <2>2, <2>3
<1>3. ASSUME NEW j \in 0..((n + 1 - k) - 1), j \in T  PROVE j + 1 \in T
  <2>1. /\ n - j \in Nat \ {0} /\ m + j + 1 \in Nat \ {0} /\ j + 1 \in 1..(n + 1 - k)
        /\ j + 1 \in 0..(n + 1 - k)
        /\ (n - j) - 1 = n - (j + 1) /\ (m + j + 1) - 1 = m + j /\ m + (j + 1) = m + j + 1
        /\ n + 1 - (j + 1) = n - j
    BY <1>1
  <2>2. w[m + j + 1].kind = s[n - j].kind
    BY <2>1 DEF Moved, k
  <2>3. Brackets(b, a) /\ a # b
    BY DEF Brackets
  <2> DEFINE X == w[m + j + 1].kind
             Y == s[n - j].kind
             E1 == Excess(w, m + j + 1, b, a)
             E0 == Excess(w, m + j, b, a)
             F1 == Excess(s, n - j, a, b)
             F0 == Excess(s, n - (j + 1), a, b)
  <2>4. /\ E0 \in Int
        /\ X = b => E1 = E0 + 1
        /\ X = a => E1 = E0 - 1
        /\ X \notin {b, a} => E1 = E0
    BY <2>1, <2>3, ExcessStep
  <2>5. /\ F0 \in Int
        /\ Y = a => F1 = F0 + 1
        /\ Y = b => F1 = F0 - 1
        /\ Y \notin {a, b} => F1 = F0
    BY <2>1, <2>3, ExcessStep
  <2>6. E0 = F1
    BY <1>3
  <2>7. X = Y
    BY <2>2
  <2> HIDE DEF X, Y, E0, E1, F0, F1
  <2>8. E1 = F0
    BY <2>3, <2>4, <2>5, <2>6, <2>7
  <2> QED BY <2>1, <2>8 DEF E1, F0
<1>4. \A j \in 0..(n + 1 - k) : j \in T
  <2> HIDE DEF T
  <2>1. n + 1 - k \in Nat
    BY <1>1
  <2> QED BY <1>2, <1>3, <2>1, Upwards
<1> QED BY <1>4 DEF k

LEMMA MovedNested ==
  ASSUME NEW s, NEW n \in Nat \ {0}, Len(s) = n, NEW r, NEW m \in Nat, Len(r) = m, NEW w,
         NEW a, NEW b, Brackets(a, b), Nested(s, a, b, 0), Nested(r, b, a, 0),
         Moved(s, r, w)
  PROVE  Nested(w, b, a, 0) /\ UnitStart(w) = m + 1
<1> DEFINE k == UnitStart(s)
           len == n + 1 - k
<1>1. /\ k \in 1..n
      /\ Excess(s, k - 1, a, b) = 0
      /\ \A i \in k..(n - 1) : Excess(s, i, a, b) # 0
  BY UnitStartFacts
<1>2. /\ Len(w) = m + len
      /\ \A j \in 1..m : w[j].kind = r[j].kind
      /\ \A i \in 1..len : w[m + i].kind = s[n + 1 - i].kind
  BY DEF Moved
<1>3. \A i \in 0..len : Excess(w, m + i, b, a) = Excess(s, n - i, a, b)
  BY MovedExcess
<1> HIDE DEF k
<1>4. len \in 1..n /\ n - len = k - 1
  BY <1>1
<1>5. Excess(w, m + len, b, a) = 0
  <2>1. len \in 0..len
    BY <1>4
  <2> HIDE DEF len
  <2> QED BY <1>1, <1>3, <1>4, <2>1
<1> HIDE DEF len
<1>6. ASSUME NEW i \in 1..(m + len)  PROVE Excess(w, i, b, a) >= 0
  <2>1. CASE i <= m
    <3>1. i \in Nat /\ i \in 1..m
      BY <2>1
    <3>2. \A j \in 1..i : w[j].kind = r[j].kind
      BY <3>1, <2>1, <1>2
    <3>3. Excess(w, i, b, a) = Excess(r, i, b, a)
      BY <3>1, <3>2, ExcessSame
    <3> QED BY <3>1, <3>3 DEF Nested
  <2>2. CASE i > m
    <3>1. i - m \in 0..len /\ m + (i - m) = i /\ n - (i - m) \in 0..n
      BY <1>1, <1>4, <2>2
    <3>2. Excess(w, i, b, a) = Excess(s, n - (i - m), a, b)
      BY <3>1, <1>3
    <3>3. CASE n - (i - m) = 0
      BY <3>2, <3>3, ExcessType
    <3>4. CASE n - (i - m) \in 1..n
      BY <3>2, <3>4 DEF Nested
    <3> QED BY <3>1, <3>3, <3>4
  <2> QED BY <2>1, <2>2, <1>4
<1>7. ASSUME NEW i \in 2..(m + len), w[i - 1].kind = b, w[i].kind = a  PROVE FALSE
  <2>1. CASE i <= m
    <3>1. i \in 2..m /\ i - 1 \in 1..m /\ i \in 1..m
      BY <2>1
    <3>2. r[i - 1].kind = b /\ r[i].kind = a
      BY <3>1, <1>2, <1>7
    <3> QED BY <3>1, <3>2 DEF Nested
  <2>2. CASE i = m + 1
    <3>1. m \in Nat \ {0} /\ m \in 1..m /\ i - 1 = m
      BY <2>2
    <3>2. r[m].kind = b
      BY <3>1, <1>2, <1>7
    <3>3. r[m].kind # b
      BY <3>1, NestedEnds DEF Brackets
    <3> QED BY <3>2, <3>3
  <2>3. CASE i > m + 1
    <3> DEFINE x == n + 1 - (i - m)
    <3>1. /\ i - m \in 1..len /\ m + (i - m) = i
          /\ (i - m) - 1 \in 1..len /\ m + ((i - m) - 1) = i - 1
          /\ n + 1 - ((i - m) - 1) = x + 1 /\ x + 1 \in 2..n /\ (x + 1) - 1 = x
      BY <1>1, <1>4, <2>3
    <3>2. s[x].kind = a /\ s[x + 1].kind = b
      <4>1. w[m + (i - m)].kind = s[n + 1 - (i - m)].kind
        BY <3>1, <1>2
      <4>2. w[m + ((i - m) - 1)].kind = s[n + 1 - ((i - m) - 1)].kind
        BY <3>1, <1>2
      <4> QED BY <3>1, <4>1, <4>2, <1>7
    <3> HIDE DEF x
    <3> QED BY <3>1, <3>2 DEF Nested
  <2> QED BY <2>1, <2>2, <2>3, <1>4
<1>8. Nested(w, b, a, 0)
  BY <1>2, <1>5, <1>6, <1>7 DEF Nested
<1>9. UnitStart(w) = m + 1
  <2>1. Brackets(b, a) /\ m + len \in Nat /\ Len(w) = m + len
    BY <1>2, <1>4 DEF Brackets
  <2>2. \A i \in 1..(m + len) : Closed(w, i) <=> Excess(w, i - 1, b, a) = 0
    BY <2>1, <1>5, ClosedExcess
  <2>3. m + 1 \in 1..(m + len) /\ Closed(w, m + 1)
    <3>1. 0 \in 0..len /\ m + 0 = m /\ n - 0 = n /\ m + 1 \in 1..(m + len) /\ (m + 1) - 1 = m
      BY <1>4
    <3>2. Excess(w, m, b, a) = 0
      BY <3>1, <1>3 DEF Nested
    <3> QED BY <3>1, <3>2, <2>2
  <2>4. ASSUME NEW i \in ((m + 1) + 1)..(m + len)  PROVE ~ Closed(w, i)
    <3>1. /\ i \in 1..(m + len) /\ (i - 1) - m \in 0..len /\ m + ((i - 1) - m) = i - 1
          /\ n - ((i - 1) - m) \in k..(n - 1)
      BY <1>1, <1>4
    <3>2. Excess(w, i - 1, b, a) = Excess(s, n - ((i - 1) - m), a, b)
      BY <3>1, <1>3
    <3> QED BY <3>1, <3>2, <2>2, <1>1
  <2>5. \A x \in 1..(m + len) :
          Closed(w, x) /\ (\A j \in (x + 1)..(m + len) : ~ Closed(w, j)) => x = m + 1
    <3> TAKE x \in 1..(m + len)
    <3> HAVE Closed(w, x) /\ (\A j \in (x + 1)..(m + len) : ~ Closed(w, j))
    <3>1. ~ (x < m + 1)
      <4>1. x < m + 1 => m + 1 \in (x + 1)..(m + len)
        BY <2>3
      <4> QED BY <4>1, <2>3
    <3>2. ~ (x > m + 1)
      <4>1. x > m + 1 => x \in ((m + 1) + 1)..(m + len)
        OBVIOUS
      <4> QED BY <4>1, <2>4
    <3> QED BY <3>1, <3>2
  <2> DEFINE P(x) == Closed(w, x) /\ \A j \in (x + 1)..(m + len) : ~ Closed(w, j)
  <2>6. P(m + 1)
    BY <2>3, <2>4
  <2>7. UnitStart(w) = CHOOSE x \in 1..(m + len) : P(x)
    BY <2>1 DEF UnitStart
  <2>8. \A x \in 1..(m + len) : P(x) => x = m + 1
    BY <2>5
  <2> HIDE DEF P
  <2> QED BY <2>3, <2>6, <2>7, <2>8
<1> QED BY <1>8, <1>9

(* The first steps of a stack.                                             *)
LEMMA FirstSteps ==
  ASSUME NEW S, NEW s \in Seq(S), NEW k \in 1..Len(s)
  PROVE  /\ SubSeq(s, 1, k - 1) \in Seq(S) /\ Len(SubSeq(s, 1, k - 1)) = k - 1
         /\ \A i \in 1..(k - 1) : SubSeq(s, 1, k - 1)[i] = s[i]
<1> DEFINE n == Len(s)
           t == SubSeq(s, 1, k - 1)
<1>1. n \in Nat /\ k \in Int /\ 1 <= k /\ k <= n /\ k - 1 \in Int /\ 1 \in Int
      /\ \A i \in 1..n : s[i] \in S
  OBVIOUS
<1> HIDE DEF n, t
<1>2. ASSUME NEW i \in 1..(k - 1)  PROVE s[i] \in S
  BY <1>1
<1>3. /\ t \in Seq(S)
      /\ Len(t) = IF 1 <= k - 1 THEN (k - 1) - 1 + 1 ELSE 0
      /\ \A i \in 1..((k - 1) - 1 + 1) : t[i] = s[1 + i - 1]
  BY <1>1, <1>2, SubSeqProperties DEF t
<1>4. (k - 1) - 1 + 1 = k - 1 /\ Len(t) = k - 1
  BY <1>1, <1>3
<1>5. ASSUME NEW i \in 1..(k - 1)  PROVE t[i] = s[i]
  <2>1. 1 + i - 1 = i
    OBVIOUS
  <2> QED BY <1>3, <1>4, <2>1
<1> QED BY <1>3, <1>4, <1>5 DEF t

(* What stays on the stack the unit was taken from.                        *)
LEMMA RestNested ==
  ASSUME NEW S, NEW s \in Seq(S), s # << >>, NEW a, NEW b, Brackets(a, b), Nested(s, a, b, 0)
  PROVE  /\ RestOf(s) \in Seq(S) /\ Len(RestOf(s)) = UnitStart(s) - 1
         /\ \A i \in 1..(UnitStart(s) - 1) : RestOf(s)[i] = s[i]
         /\ Nested(RestOf(s), a, b, 0)
<1> DEFINE n == Len(s)
           k == UnitStart(s)
           t == RestOf(s)
<1>1. n \in Nat \ {0} /\ Len(s) = n
  OBVIOUS
<1> HIDE DEF n
<1>2. k \in 1..n /\ Excess(s, k - 1, a, b) = 0
  BY <1>1, UnitStartFacts
<1> HIDE DEF k
<1>3. t \in Seq(S) /\ Len(t) = k - 1 /\ \A i \in 1..(k - 1) : t[i] = s[i]
  <2>1. k \in 1..Len(s)
    BY <1>1, <1>2
  <2> QED BY <2>1, FirstSteps DEF RestOf, k
<1> HIDE DEF t
<1>4. ASSUME NEW i \in 0..(k - 1)  PROVE Excess(t, i, a, b) = Excess(s, i, a, b)
  <2>1. i \in Nat /\ \A j \in 1..i : t[j].kind = s[j].kind
    BY <1>2, <1>3
  <2> QED BY <2>1, ExcessSame
<1>5. ASSUME NEW i \in 1..(k - 1)  PROVE Excess(t, i, a, b) >= 0
  <2>1. i \in 0..(k - 1) /\ i \in 1..Len(s)
    BY <1>1, <1>2
  <2> QED BY <2>1, <1>4 DEF Nested
<1>6. Excess(t, k - 1, a, b) = 0
  <2>1. k - 1 \in 0..(k - 1)
    BY <1>2
  <2> QED BY <2>1, <1>2, <1>4
<1>7. ASSUME NEW i \in 2..(k - 1)  PROVE ~ (t[i - 1].kind = a /\ t[i].kind = b)
  <2>1. i \in 2..Len(s) /\ i \in 1..(k - 1) /\ i - 1 \in 1..(k - 1)
    BY <1>1, <1>2
  <2>2. t[i - 1] = s[i - 1] /\ t[i] = s[i]
    BY <2>1, <1>3
  <2> QED BY <2>1, <2>2 DEF Nested
<1>8. Nested(t, a, b, 0)
  BY <1>3, <1>5, <1>6, <1>7 DEF Nested
<1> QED BY <1>3, <1>8 DEF t, k

-----------------------------------------------------------------------------
(* Texts: what is cut out and put back                                     *)

LEMMA InsertedText ==
  ASSUME NEW t \in Seq(Char), NEW s \in Seq(Char), NEW p \in 0..Len(t)
  PROVE  /\ Inserted(t, p, s) \in Seq(Char)
         /\ Len(Inserted(t, p, s)) = Len(t) + Len(s)
         /\ \A i \in 1..(Len(t) + Len(s)) :
              Inserted(t, p, s)[i] = IF i <= p THEN t[i]
                                     ELSE IF i <= p + Len(s) THEN s[i - p]
                                     ELSE t[i - Len(s)]
<1> DEFINE n == Len(t)
           m == Len(s)
<1>1. n \in Nat /\ m \in Nat /\ p \in Nat /\ p <= n
  OBVIOUS
<1>2. /\ \A i \in 1..n : t[i] \in Char
      /\ \A i \in 1..m : s[i] \in Char
  OBVIOUS
<1> DEFINE f == Inserted(t, p, s)
<1>3. f = [i \in 1..(n + m) |-> IF i <= p THEN t[i]
                                ELSE IF i <= p + m THEN s[i - p] ELSE t[i - m]]
  BY DEF Inserted
<1> HIDE DEF n, m, f
<1>4. ASSUME NEW i \in 1..(n + m)
      PROVE  (IF i <= p THEN t[i] ELSE IF i <= p + m THEN s[i - p] ELSE t[i - m]) \in Char
  BY <1>1, <1>2
<1>5. f \in [1..(n + m) -> Char]
  BY <1>3, <1>4
<1>6. f \in Seq(Char) /\ Len(f) = n + m
  BY <1>1, <1>5
<1> QED BY <1>3, <1>6 DEF n, m, f

LEMMA RemovedText ==
  ASSUME NEW t \in Seq(Char), NEW a \in 0..Len(t), NEW e \in a..Len(t)
  PROVE  /\ Removed(t, a, e) \in Seq(Char)
         /\ Len(Removed(t, a, e)) = Len(t) - (e - a)
         /\ \A i \in 1..(Len(t) - (e - a)) :
              Removed(t, a, e)[i] = IF i <= a THEN t[i] ELSE t[i + (e - a)]
<1> DEFINE n == Len(t)
           f == Removed(t, a, e)
<1>1. n \in Nat /\ a \in Nat /\ e \in Nat /\ a <= e /\ e <= n
  OBVIOUS
<1>2. \A i \in 1..n : t[i] \in Char
  OBVIOUS
<1>3. f = [i \in 1..(n - (e - a)) |-> IF i <= a THEN t[i] ELSE t[i + (e - a)]]
  BY DEF Removed
<1> HIDE DEF n, f
<1>4. ASSUME NEW i \in 1..(n - (e - a))
      PROVE  (IF i <= a THEN t[i] ELSE t[i + (e - a)]) \in Char
  BY <1>1, <1>2
<1>5. n - (e - a) \in Nat
  BY <1>1
<1>6. f \in Seq(Char) /\ Len(f) = n - (e - a)
  <2>1. f \in [1..(n - (e - a)) -> Char]
    BY <1>3, <1>4, Zenon
  <2> QED BY <2>1, <1>5
<1> QED BY <1>3, <1>6 DEF n, f

LEMMA SliceText ==
  ASSUME NEW t \in Seq(Char), NEW a \in 0..Len(t), NEW e \in a..Len(t)
  PROVE  /\ Slice(t, a, e) \in Seq(Char)
         /\ Len(Slice(t, a, e)) = e - a
         /\ \A i \in 1..(e - a) : Slice(t, a, e)[i] = t[a + i]
<1> DEFINE n == Len(t)
           f == Slice(t, a, e)
<1>1. n \in Nat /\ a \in Nat /\ e \in Nat /\ a <= e /\ e <= n
  OBVIOUS
<1>2. \A i \in 1..n : t[i] \in Char
  OBVIOUS
<1>3. f = [i \in 1..(e - a) |-> t[a + i]]
  BY DEF Slice
<1> HIDE DEF n, f
<1>4. ASSUME NEW i \in 1..(e - a)  PROVE t[a + i] \in Char
  BY <1>1, <1>2
<1>5. f \in [1..(e - a) -> Char] /\ e - a \in Nat
  BY <1>1, <1>3, <1>4
<1>6. f \in Seq(Char) /\ Len(f) = e - a
  BY <1>5
<1> QED BY <1>3, <1>6 DEF n, f

(* Undoing an insertion behind [a, p) together with what is in [a, p).     *)
LEMMA InsertUndone ==
  ASSUME NEW t \in Seq(Char), NEW s \in Seq(Char), NEW p \in 0..Len(t), NEW a \in 0..p
  PROVE  Removed(Inserted(t, p, s), a, p + Len(s)) = Removed(t, a, p)
<1> DEFINE n == Len(t)
           m == Len(s)
           u == Inserted(t, p, s)
           f == Removed(u, a, p + m)
           g == Removed(t, a, p)
<1>1. n \in Nat /\ m \in Nat /\ p \in Nat /\ a \in Nat /\ a <= p /\ p <= n
  OBVIOUS
<1>2. /\ u \in Seq(Char) /\ Len(u) = n + m
      /\ \A i \in 1..(n + m) :
           u[i] = IF i <= p THEN t[i] ELSE IF i <= p + m THEN s[i - p] ELSE t[i - m]
  BY InsertedText
<1>3. /\ g \in Seq(Char) /\ Len(g) = n - (p - a)
      /\ \A i \in 1..(n - (p - a)) : g[i] = IF i <= a THEN t[i] ELSE t[i + (p - a)]
  <2>1. a \in 0..Len(t) /\ p \in a..Len(t)
    BY <1>1
  <2> QED BY <2>1, RemovedText
<1> HIDE DEF u, n, m
<1>4. /\ f \in Seq(Char) /\ Len(f) = (n + m) - ((p + m) - a)
      /\ \A i \in 1..((n + m) - ((p + m) - a)) :
           f[i] = IF i <= a THEN u[i] ELSE u[i + ((p + m) - a)]
  <2>1. a \in 0..Len(u) /\ p + m \in a..Len(u)
    BY <1>1, <1>2
  <2>2. /\ f \in Seq(Char) /\ Len(f) = Len(u) - ((p + m) - a)
        /\ \A i \in 1..(Len(u) - ((p + m) - a)) :
             f[i] = IF i <= a THEN u[i] ELSE u[i + ((p + m) - a)]
    BY <1>2, <2>1, RemovedText
  <2> QED BY <1>2, <2>2
<1> HIDE DEF f, g
<1>5. Len(f) = Len(g)
  BY <1>1, <1>3, <1>4
<1>6. ASSUME NEW i \in 1..Len(f)  PROVE f[i] = g[i]
  <2>1. i \in 1..(n - (p - a)) /\ i \in 1..((n + m) - ((p + m) - a)) /\ i \in Int
    BY <1>5, <1>3, <1>4
  <2>2. CASE i <= a
    <3>1. i \in 1..(n + m) /\ i <= p
      BY <1>1, <2>1, <2>2
    <3> QED BY <1>2, <1>3, <1>4, <2>1, <2>2, <3>1
  <2>3. CASE i > a
    <3> DEFINE x == i + ((p + m) - a)
    <3>1. /\ x \in 1..(n + m) /\ x > p + m /\ x > p /\ x - m = i + (p - a)
          /\ ~ (x <= p) /\ ~ (x <= p + m) /\ ~ (i <= a)
      BY <1>1, <2>1, <2>3
    <3>2. f[i] = u[x] /\ g[i] = t[i + (p - a)]
      BY <1>3, <1>4, <2>1, <3>1
    <3> HIDE DEF x
    <3> QED BY <1>2, <3>1, <3>2
  <2> QED BY <1>1, <2>1, <2>2, <2>3
<1> QED BY <1>3, <1>4, <1>5, <1>6, SeqEqual DEF f, g, u, m, n

LEMMA NothingRemoved ==
  ASSUME NEW t \in Seq(Char), NEW p \in 0..Len(t)
  PROVE  Removed(t, p, p) = t
<1> DEFINE f == Removed(t, p, p)
           n == Len(t)
<1>1. n \in Nat /\ p \in 0..n /\ p \in p..n /\ n - (p - p) = n
  OBVIOUS
<1>2. /\ f \in Seq(Char) /\ Len(f) = n
      /\ \A i \in 1..n : f[i] = IF i <= p THEN t[i] ELSE t[i + (p - p)]
  BY <1>1, RemovedText
<1> HIDE DEF f, n
<1>3. ASSUME NEW i \in 1..n  PROVE f[i] = t[i]
  <2>1. i + (p - p) = i
    BY <1>1
  <2> QED BY <1>2, <2>1
<1> QED BY <1>2, <1>3, SeqEqual DEF f, n

(* The characters of two deletions that meet, of which the second took the *)
(* characters in front of the first (Backspace key) or behind it (Delete   *)
(* key): [a, e) of the text before both.                                   *)
LEMMA RemovedInFront ==
  ASSUME NEW t \in Seq(Char), NEW a \in 0..Len(t), NEW b \in a..Len(t), NEW e \in b..Len(t)
  PROVE  /\ Removed(Removed(t, b, e), a, b) = Removed(t, a, e)
         /\ Slice(Removed(t, b, e), a, b) \o Slice(t, b, e) = Slice(t, a, e)
<1> DEFINE n == Len(t)
           u == Removed(t, b, e)
           f == Removed(u, a, b)
           g == Removed(t, a, e)
           l == Slice(u, a, b)
           r == Slice(t, b, e)
           w == Slice(t, a, e)
           v == l \o r
<1>1. /\ n \in Nat /\ a \in Nat /\ b \in Nat /\ e \in Nat /\ a <= b /\ b <= e /\ e <= n
      /\ a \in 0..n /\ b \in 0..n /\ e \in a..n /\ e \in b..n
  OBVIOUS
<1>2. /\ u \in Seq(Char) /\ Len(u) = n - (e - b)
      /\ \A i \in 1..(n - (e - b)) : u[i] = IF i <= b THEN t[i] ELSE t[i + (e - b)]
  BY <1>1, RemovedText
<1>3. /\ g \in Seq(Char) /\ Len(g) = n - (e - a)
      /\ \A i \in 1..(n - (e - a)) : g[i] = IF i <= a THEN t[i] ELSE t[i + (e - a)]
  BY <1>1, RemovedText
<1>4. /\ r \in Seq(Char) /\ Len(r) = e - b /\ \A i \in 1..(e - b) : r[i] = t[b + i]
      /\ w \in Seq(Char) /\ Len(w) = e - a /\ \A i \in 1..(e - a) : w[i] = t[a + i]
  BY <1>1, SliceText
<1> HIDE DEF u, n
<1>5. /\ a \in 0..Len(u) /\ b \in a..Len(u)
  BY <1>1, <1>2
<1>6. /\ f \in Seq(Char) /\ Len(f) = (n - (e - b)) - (b - a)
      /\ \A i \in 1..((n - (e - b)) - (b - a)) : f[i] = IF i <= a THEN u[i] ELSE u[i + (b - a)]
  <2>1. /\ f \in Seq(Char) /\ Len(f) = Len(u) - (b - a)
        /\ \A i \in 1..(Len(u) - (b - a)) : f[i] = IF i <= a THEN u[i] ELSE u[i + (b - a)]
    BY <1>2, <1>5, RemovedText
  <2> QED BY <1>2, <2>1
<1>7. l \in Seq(Char) /\ Len(l) = b - a /\ \A i \in 1..(b - a) : l[i] = u[a + i]
  BY <1>2, <1>5, SliceText
<1> HIDE DEF f, g, l, r, w
<1>8. f = g
  <2>1. Len(f) = Len(g)
    BY <1>1, <1>3, <1>6
  <2>2. ASSUME NEW i \in 1..Len(f)  PROVE f[i] = g[i]
    <3>1. i \in 1..(n - (e - a)) /\ i \in 1..((n - (e - b)) - (b - a)) /\ i \in Int
      BY <2>1, <1>3, <1>6
    <3>2. CASE i <= a
      <4>1. i \in 1..(n - (e - b)) /\ i <= b
        BY <1>1, <3>1, <3>2
      <4> QED BY <1>2, <1>3, <1>6, <3>1, <3>2, <4>1
    <3>3. CASE i > a
      <4> DEFINE x == i + (b - a)
      <4>1. /\ x \in 1..(n - (e - b)) /\ ~ (x <= b) /\ ~ (i <= a) /\ x + (e - b) = i + (e - a)
        BY <1>1, <3>1, <3>3
      <4>2. f[i] = u[x] /\ g[i] = t[i + (e - a)]
        BY <1>3, <1>6, <3>1, <4>1
      <4> HIDE DEF x
      <4> QED BY <1>2, <4>1, <4>2
    <3> QED BY <1>1, <3>1, <3>2, <3>3
  <2> QED BY <1>3, <1>6, <2>1, <2>2, SeqEqual
<1>9. v = w
  <2>1. /\ v \in Seq(Char) /\ Len(v) = Len(l) + Len(r)
        /\ \A i \in 1..(Len(l) + Len(r)) : v[i] = IF i <= Len(l) THEN l[i] ELSE r[i - Len(l)]
    BY <1>4, <1>7, ConcatProperties
  <2> HIDE DEF v
  <2>2. Len(v) = e - a /\ Len(l) + Len(r) = e - a
    BY <1>1, <1>4, <1>7, <2>1
  <2>3. ASSUME NEW i \in 1..Len(v)  PROVE v[i] = w[i]
    <3>1. i \in 1..(e - a) /\ i \in Int
      BY <2>2
    <3>2. v[i] = IF i <= b - a THEN l[i] ELSE r[i - (b - a)]
      BY <2>1, <2>2, <3>1, <1>7
    <3>3. w[i] = t[a + i]
      BY <1>4, <3>1
    <3>4. CASE i <= b - a
      <4>1. i \in 1..(b - a) /\ a + i \in 1..(n - (e - b)) /\ a + i <= b
        BY <1>1, <3>1, <3>4
      <4>2. l[i] = u[a + i] /\ u[a + i] = t[a + i]
        BY <4>1, <1>2, <1>7
      <4> QED BY <3>2, <3>3, <3>4, <4>2
    <3>5. CASE i > b - a
      <4>1. i - (b - a) \in 1..(e - b) /\ b + (i - (b - a)) = a + i /\ ~ (i <= b - a)
        BY <1>1, <3>1, <3>5
      <4>2. r[i - (b - a)] = t[b + (i - (b - a))]
        BY <4>1, <1>4
      <4> QED BY <3>2, <3>3, <4>1, <4>2
    <3> QED BY <1>1, <3>1, <3>4, <3>5
  <2> QED BY <1>4, <2>1, <2>2, <2>3, SeqEqual
<1> QED BY <1>8, <1>9 DEF f, g, u, v, w, l, r

LEMMA RemovedBehind ==
  ASSUME NEW t \in Seq(Char), NEW a \in 0..Len(t), NEW b \in a..Len(t), NEW e \in b..Len(t)
  PROVE  /\ Removed(Removed(t, a, b), a, a + (e - b)) = Removed(t, a, e)
         /\ Slice(t, a, b) \o Slice(Removed(t, a, b), a, a + (e - b)) = Slice(t, a, e)
<1> DEFINE n == Len(t)
           d == e - b
           u == Removed(t, a, b)
           f == Removed(u, a, a + d)
           g == Removed(t, a, e)
           l == Slice(t, a, b)
           r == Slice(u, a, a + d)
           w == Slice(t, a, e)
           v == l \o r
<1>1. /\ n \in Nat /\ a \in Nat /\ b \in Nat /\ e \in Nat /\ a <= b /\ b <= e /\ e <= n
      /\ a \in 0..n /\ b \in 0..n /\ b \in a..n /\ e \in a..n /\ d \in Nat /\ d = e - b
  OBVIOUS
<1>2. /\ u \in Seq(Char) /\ Len(u) = n - (b - a)
      /\ \A i \in 1..(n - (b - a)) : u[i] = IF i <= a THEN t[i] ELSE t[i + (b - a)]
  BY <1>1, RemovedText
<1>3. /\ g \in Seq(Char) /\ Len(g) = n - (e - a)
      /\ \A i \in 1..(n - (e - a)) : g[i] = IF i <= a THEN t[i] ELSE t[i + (e - a)]
  BY <1>1, RemovedText
<1>4. /\ l \in Seq(Char) /\ Len(l) = b - a /\ \A i \in 1..(b - a) : l[i] = t[a + i]
      /\ w \in Seq(Char) /\ Len(w) = e - a /\ \A i \in 1..(e - a) : w[i] = t[a + i]
  BY <1>1, SliceText
<1> HIDE DEF u, n, d
<1>5. a \in 0..Len(u) /\ a + d \in a..Len(u) /\ (a + d) - a = d
  BY <1>1, <1>2
<1>6. /\ f \in Seq(Char) /\ Len(f) = (n - (b - a)) - d
      /\ \A i \in 1..((n - (b - a)) - d) : f[i] = IF i <= a THEN u[i] ELSE u[i + d]
  <2>1. /\ f \in Seq(Char) /\ Len(f) = Len(u) - ((a + d) - a)
        /\ \A i \in 1..(Len(u) - ((a + d) - a)) :
             f[i] = IF i <= a THEN u[i] ELSE u[i + ((a + d) - a)]
    BY <1>2, <1>5, RemovedText
  <2> HIDE DEF f
  <2> QED BY <1>2, <1>5, <2>1
<1>7. r \in Seq(Char) /\ Len(r) = d /\ \A i \in 1..d : r[i] = u[a + i]
  <2>1. /\ r \in Seq(Char) /\ Len(r) = (a + d) - a
        /\ \A i \in 1..((a + d) - a) : r[i] = u[a + i]
    BY <1>2, <1>5, SliceText
  <2> HIDE DEF r
  <2> QED BY <1>5, <2>1
<1> HIDE DEF f, g, l, r, w
<1>8. f = g
  <2>1. Len(f) = Len(g)
    BY <1>1, <1>3, <1>6
  <2>2. ASSUME NEW i \in 1..Len(f)  PROVE f[i] = g[i]
    <3>1. i \in 1..(n - (e - a)) /\ i \in 1..((n - (b - a)) - d) /\ i \in Int
      BY <2>1, <1>3, <1>6
    <3>2. CASE i <= a
      <4>1. i \in 1..(n - (b - a))
        BY <1>1, <3>1, <3>2
      <4> QED BY <1>2, <1>3, <1>6, <3>1, <3>2, <4>1
    <3>3. CASE i > a
      <4> DEFINE x == i + d
      <4>1. /\ x \in 1..(n - (b - a)) /\ ~ (x <= a) /\ ~ (i <= a) /\ x + (b - a) = i + (e - a)
        BY <1>1, <3>1, <3>3
      <4>2. f[i] = u[x] /\ g[i] = t[i + (e - a)]
        BY <1>3, <1>6, <3>1, <4>1
      <4> HIDE DEF x
      <4> QED BY <1>2, <4>1, <4>2
    <3> QED BY <1>1, <3>1, <3>2, <3>3
  <2> QED BY <1>3, <1>6, <2>1, <2>2, SeqEqual
<1>9. v = w
  <2>1. /\ v \in Seq(Char) /\ Len(v) = Len(l) + Len(r)
        /\ \A i \in 1..(Len(l) + Len(r)) : v[i] = IF i <= Len(l) THEN l[i] ELSE r[i - Len(l)]
    BY <1>4, <1>7, ConcatProperties
  <2> HIDE DEF v
  <2>2. Len(v) = e - a /\ Len(l) + Len(r) = e - a
    BY <1>1, <1>4, <1>7, <2>1
  <2>3. ASSUME NEW i \in 1..Len(v)  PROVE v[i] = w[i]
    <3>1. i \in 1..(e - a) /\ i \in Int
      BY <2>2
    <3>2. v[i] = IF i <= b - a THEN l[i] ELSE r[i - (b - a)]
      BY <2>1, <2>2, <3>1, <1>4
    <3>3. w[i] = t[a + i]
      BY <1>4, <3>1
    <3>4. CASE i <= b - a
      <4>1. i \in 1..(b - a)
        BY <1>1, <3>1, <3>4
      <4> QED BY <3>2, <3>3, <3>4, <4>1, <1>4
    <3>5. CASE i > b - a
      <4> DEFINE x == a + (i - (b - a))
      <4>1. /\ i - (b - a) \in 1..d /\ x \in 1..(n - (b - a)) /\ ~ (x <= a)
            /\ x + (b - a) = a + i /\ ~ (i <= b - a)
        BY <1>1, <3>1, <3>5
      <4>2. r[i - (b - a)] = u[x]
        BY <4>1, <1>7
      <4> HIDE DEF x
      <4>3. u[x] = t[a + i]
        BY <4>1, <1>2
      <4> QED BY <3>2, <3>3, <4>1, <4>2, <4>3
    <3> QED BY <1>1, <3>1, <3>4, <3>5
  <2> QED BY <1>4, <2>1, <2>2, <2>3, SeqEqual
<1> QED BY <1>8, <1>9 DEF f, g, u, v, w, l, r, d

(* Characters that are cut out and put back where they were.               *)
LEMMA PutBack ==
  ASSUME NEW t \in Seq(Char), NEW a \in 0..Len(t), NEW e \in a..Len(t)
  PROVE  Inserted(Removed(t, a, e), a, Slice(t, a, e)) = t
<1> DEFINE n == Len(t)
           u == Removed(t, a, e)
           s == Slice(t, a, e)
           f == Inserted(u, a, s)
<1>1. n \in Nat /\ a \in Nat /\ e \in Nat /\ a <= e /\ e <= n
  OBVIOUS
<1>2. /\ u \in Seq(Char) /\ Len(u) = n - (e - a)
      /\ \A i \in 1..(n - (e - a)) : u[i] = IF i <= a THEN t[i] ELSE t[i + (e - a)]
  BY RemovedText
<1>3. s \in Seq(Char) /\ Len(s) = e - a /\ \A i \in 1..(e - a) : s[i] = t[a + i]
  BY SliceText
<1> HIDE DEF n, u, s
<1>4. a \in 0..Len(u) /\ Len(u) + Len(s) = n
  BY <1>1, <1>2, <1>3
<1>5. /\ f \in Seq(Char) /\ Len(f) = Len(u) + Len(s)
      /\ \A i \in 1..(Len(u) + Len(s)) :
           f[i] = IF i <= a THEN u[i] ELSE IF i <= a + Len(s) THEN s[i - a] ELSE u[i - Len(s)]
  BY <1>2, <1>3, <1>4, InsertedText
<1> HIDE DEF f
<1>6. ASSUME NEW i \in 1..n  PROVE f[i] = t[i]
  <2>1. i \in Int /\ 1 <= i /\ i <= n /\ i \in 1..(Len(u) + Len(s))
    BY <1>1, <1>4
  <2>2. f[i] = IF i <= a THEN u[i] ELSE IF i <= e THEN s[i - a] ELSE u[i - (e - a)]
    <3>1. a + Len(s) = e
      BY <1>1, <1>3
    <3> QED BY <1>3, <1>5, <2>1, <3>1
  <2>3. CASE i <= a
    <3>1. i \in 1..(n - (e - a))
      BY <1>1, <2>1, <2>3
    <3> QED BY <1>2, <2>2, <2>3, <3>1
  <2>4. CASE i > a /\ i <= e
    <3>1. i - a \in 1..(e - a) /\ a + (i - a) = i /\ ~ (i <= a)
      BY <1>1, <2>1, <2>4
    <3> QED BY <1>3, <2>2, <2>4, <3>1
  <2>5. CASE i > a /\ i > e
    <3> DEFINE x == i - (e - a)
    <3>1. x \in 1..(n - (e - a)) /\ ~ (x <= a) /\ x + (e - a) = i /\ ~ (i <= a) /\ ~ (i <= e)
      BY <1>1, <2>1, <2>5
    <3>2. f[i] = u[x]
      BY <2>2, <3>1
    <3> HIDE DEF x
    <3> QED BY <1>2, <3>1, <3>2
  <2> QED BY <1>1, <2>1, <2>3, <2>4, <2>5
<1>7. Len(f) = Len(t)
  BY <1>4, <1>5 DEF n
<1> QED BY <1>5, <1>6, <1>7, SeqEqual DEF f, u, s, n

-----------------------------------------------------------------------------
(* Single steps                                                            *)

Text == {t \in Seq(Char) : Len(t) <= MaxLength}
Past == [text : Text, revision : Nat]

(* What is played on: text, revision and the stack that receives the steps. *)
Played1 == [text : Text, revision : Nat, steps : Seq(Steps)]

(* The edit of `step` made `after` of the text in h.                       *)
Fits(step, h, after) ==
  /\ step.kind = "insert" =>
       step.end <= Len(after) /\ h.text = Removed(after, step.start, step.end)
  /\ step.kind = "delete" =>
       /\ step.end <= Len(h.text) /\ after = Removed(h.text, step.start, step.end)
       /\ step.text = Slice(h.text, step.start, step.end)
  /\ IsTextStep(step) => step.start < step.end /\ step.revision = h.revision
  /\ ~ IsTextStep(step) => after = h.text

(* The text after Redo of a step, and the step as Undo leaves it.          *)
Replayed(step, t) ==
  CASE step.kind = "insert" -> Inserted(t, step.start, step.text)
    [] step.kind = "delete" -> Removed(t, step.start, step.end)
    [] OTHER -> t

Undid(step, after) == IF step.kind = "insert" THEN WithText(after, step) ELSE step

LEMMA StepFields ==
  ASSUME NEW step \in Steps
  PROVE  /\ IsTextStep(step) => /\ step.start \in Nat /\ step.end \in Nat
                                /\ step.revision \in Nat /\ step.text \in Seq(Char)
                                /\ step = [kind |-> step.kind, start |-> step.start,
                                           end |-> step.end, revision |-> step.revision,
                                           text |-> step.text]
         /\ step.kind = "insert" \/ step.kind = "delete" \/ step = BeginStep \/ step = EndStep
         /\ step.kind = "begin" <=> step = BeginStep
         /\ step.kind = "end" <=> step = EndStep
         /\ IsTextStep(step) <=> step.kind = "insert" \/ step.kind = "delete"
<1>1. BeginStep.kind = "begin" /\ EndStep.kind = "end"
  BY DEF BeginStep, EndStep
<1>2. CASE step = BeginStep \/ step = EndStep
  BY <1>1, <1>2 DEF IsTextStep
<1>3. CASE step \in [kind : {"insert", "delete"}, start : Nat, end : Nat, revision : Nat,
                     text : Seq(Char)]
  BY <1>1, <1>3 DEF IsTextStep
<1> QED BY <1>2, <1>3 DEF Steps

LEMMA StepIntro ==
  ASSUME NEW kind \in {"insert", "delete"}, NEW start \in Nat, NEW end \in Nat,
         NEW rev \in Nat, NEW txt \in Seq(Char)
  PROVE  LET step == [kind |-> kind, start |-> start, end |-> end, revision |-> rev,
                      text |-> txt]
         IN  /\ step \in Steps /\ IsTextStep(step)
             /\ step.kind = kind /\ step.start = start /\ step.end = end
             /\ step.revision = rev /\ step.text = txt
BY DEF Steps, IsTextStep

(* A step with another text and another bound.                             *)
LEMMA StepChanged ==
  ASSUME NEW s, NEW kind, NEW start, NEW end, NEW rev, NEW txt,
         s = [kind |-> kind, start |-> start, end |-> end, revision |-> rev, text |-> txt],
         NEW d, NEW y
  PROVE  /\ [s EXCEPT !.text = d, !.start = y]
              = [kind |-> kind, start |-> y, end |-> end, revision |-> rev, text |-> d]
         /\ [s EXCEPT !.text = d, !.end = y]
              = [kind |-> kind, start |-> start, end |-> y, revision |-> rev, text |-> d]
<1>1. ASSUME NEW z, z = [s EXCEPT !.text = d, !.start = y]
      PROVE  z = [kind |-> kind, start |-> y, end |-> end, revision |-> rev, text |-> d]
  <2>1. /\ z.kind = kind /\ z.start = y /\ z.end = end /\ z.revision = rev /\ z.text = d
        /\ z = [kind |-> z.kind, start |-> z.start, end |-> z.end, revision |-> z.revision,
                text |-> z.text]
    BY <1>1
  <2> QED BY <2>1
<1>2. ASSUME NEW z, z = [s EXCEPT !.text = d, !.end = y]
      PROVE  z = [kind |-> kind, start |-> start, end |-> y, revision |-> rev, text |-> d]
  <2>1. /\ z.kind = kind /\ z.start = start /\ z.end = y /\ z.revision = rev /\ z.text = d
        /\ z = [kind |-> z.kind, start |-> z.start, end |-> z.end, revision |-> z.revision,
                text |-> z.text]
    BY <1>2
  <2> QED BY <2>1
<1> QED BY <1>1, <1>2, Zenon

(* The range of a step lies in the text it is cut from.                    *)
LEMMA FitsRange ==
  ASSUME NEW step \in Steps, NEW h \in Past, NEW after \in Text, Fits(step, h, after)
  PROVE  /\ step.kind = "insert" =>
              /\ step.start \in 0..Len(after) /\ step.end \in step.start..Len(after)
              /\ ClampedEnd(after, step.end) = step.end /\ Deletes(after, step)
         /\ step.kind = "delete" =>
              /\ step.start \in 0..Len(h.text) /\ step.end \in step.start..Len(h.text)
              /\ ClampedEnd(h.text, step.end) = step.end /\ Deletes(h.text, step)
         /\ after \in Seq(Char) /\ h.text \in Seq(Char)
         /\ Len(after) \in Nat /\ Len(h.text) \in Nat
<1>1. /\ after \in Seq(Char) /\ h.text \in Seq(Char)
      /\ Len(after) \in Nat /\ Len(h.text) \in Nat
  BY DEF Text, Past
<1>2. ASSUME step.kind = "insert"
      PROVE  /\ step.start \in 0..Len(after) /\ step.end \in step.start..Len(after)
             /\ ClampedEnd(after, step.end) = step.end /\ Deletes(after, step)
  <2>1. /\ step.start \in Nat /\ step.end \in Nat /\ step.start < step.end
        /\ step.end <= Len(after)
    BY <1>2, StepFields DEF Fits
  <2> QED BY <2>1, <1>1 DEF ClampedEnd, Deletes
<1>3. ASSUME step.kind = "delete"
      PROVE  /\ step.start \in 0..Len(h.text) /\ step.end \in step.start..Len(h.text)
             /\ ClampedEnd(h.text, step.end) = step.end /\ Deletes(h.text, step)
  <2>1. /\ step.start \in Nat /\ step.end \in Nat /\ step.start < step.end
        /\ step.end <= Len(h.text)
    BY <1>3, StepFields DEF Fits
  <2> QED BY <2>1, <1>1 DEF ClampedEnd, Deletes
<1> QED BY <1>1, <1>2, <1>3

(* What Undo makes of a step: the same edit, with the text a Redo needs.   *)
LEMMA UndidFits ==
  ASSUME NEW step \in Steps, NEW h \in Past, NEW after \in Text, Fits(step, h, after)
  PROVE  /\ Undid(step, after) \in Steps
         /\ Undid(step, after).kind = step.kind
         /\ IsTextStep(step) => /\ Undid(step, after).start = step.start
                                /\ Undid(step, after).end = step.end
                                /\ Undid(step, after).revision = step.revision
         /\ Fits(Undid(step, after), h, after)
         /\ Replayed(Undid(step, after), h.text) = after
<1>1. CASE step.kind = "insert"
  <2> DEFINE s == Slice(after, step.start, step.end)
             u == Undid(step, after)
  <2>1. /\ step.start \in 0..Len(after) /\ step.end \in step.start..Len(after)
        /\ after \in Seq(Char) /\ ClampedEnd(after, step.end) = step.end
        /\ Deletes(after, step)
    BY <1>1, FitsRange
  <2>2. s \in Seq(Char)
    BY <2>1, SliceText
  <2>3. Inserted(Removed(after, step.start, step.end), step.start, s) = after
    BY <2>1, PutBack
  <2>4. /\ step.start \in Nat /\ step.end \in Nat /\ step.revision \in Nat
        /\ step = [kind |-> step.kind, start |-> step.start, end |-> step.end,
                   revision |-> step.revision, text |-> step.text]
    BY <1>1, StepFields
  <2>5. u = [step EXCEPT !.text = s]
    BY <1>1, <2>1 DEF Undid, WithText
  <2> HIDE DEF s, u
  <2>6. u = [kind |-> step.kind, start |-> step.start, end |-> step.end,
             revision |-> step.revision, text |-> s]
    BY <2>4, <2>5
  <2>7. /\ u \in Steps /\ IsTextStep(u) /\ u.kind = step.kind /\ u.start = step.start
        /\ u.end = step.end /\ u.revision = step.revision /\ u.text = s
    BY <1>1, <2>2, <2>4, <2>6, StepIntro
  <2>8. Fits(u, h, after)
    BY <1>1, <2>7, StepFields DEF Fits
  <2>9. Replayed(u, h.text) = after
    BY <1>1, <2>3, <2>7 DEF Fits, Replayed
  <2> QED BY <2>7, <2>8, <2>9 DEF u
<1>2. CASE step.kind # "insert"
  <2>1. Undid(step, after) = step
    BY <1>2 DEF Undid
  <2>2. Replayed(step, h.text) = after
    BY <1>2, StepFields DEF Fits, Replayed
  <2> QED BY <2>1, <2>2
<1> QED BY <1>1, <1>2

LEMMA UndoOne ==
  ASSUME NEW step \in Steps, NEW h \in Past, NEW b \in Played1, Fits(step, h, b.text)
  PROVE  /\ UndoStep(b, step) \in Played1
         /\ UndoStep(b, step).text = h.text
         /\ IsTextStep(step) => UndoStep(b, step).revision = h.revision
         /\ ~ IsTextStep(step) => UndoStep(b, step).revision = b.revision
         /\ UndoStep(b, step).steps = Append(b.steps, Undid(step, b.text))
<1>1. b.text \in Text /\ b.revision \in Nat /\ b.steps \in Seq(Steps)
      /\ b = [text |-> b.text, revision |-> b.revision, steps |-> b.steps]
      /\ h.text \in Text /\ h.revision \in Nat
  BY DEF Played1, Past
<1>2. Undid(step, b.text) \in Steps
  BY <1>1, UndidFits
<1> DEFINE q == Append(b.steps, Undid(step, b.text))
<1>3. q \in Seq(Steps)
  BY <1>1, <1>2
<1>4. CASE step.kind = "insert"
  <2>1. ClampedEnd(b.text, step.end) = step.end
    BY <1>1, <1>4, FitsRange
  <2>2. IsTextStep(step) /\ step.revision = h.revision
        /\ h.text = Removed(b.text, step.start, step.end)
    BY <1>4, StepFields DEF Fits
  <2>3. UndoStep(b, step) = [text |-> h.text, revision |-> h.revision, steps |-> q]
    BY <1>4, <2>1, <2>2 DEF UndoStep, UndoInsert, DeletedFrom, Undid
  <2> HIDE DEF q
  <2> QED BY <1>1, <1>3, <2>2, <2>3 DEF Played1, q
<1>5. CASE step.kind = "delete"
  <2>1. step.start \in 0..Len(h.text) /\ step.end \in step.start..Len(h.text)
    BY <1>1, <1>5, FitsRange
  <2>2. /\ IsTextStep(step) /\ step.revision = h.revision
        /\ b.text = Removed(h.text, step.start, step.end)
        /\ step.text = Slice(h.text, step.start, step.end)
    BY <1>5, StepFields DEF Fits
  <2>3. Inserted(b.text, step.start, step.text) = h.text
    BY <1>1, <2>1, <2>2, PutBack DEF Text
  <2>4. UndoStep(b, step) = [text |-> h.text, revision |-> h.revision, steps |-> q]
    BY <1>5, <2>2, <2>3 DEF UndoStep, UndoDelete, Undid
  <2> HIDE DEF q
  <2> QED BY <1>1, <1>3, <2>2, <2>4 DEF Played1, q
<1>6. CASE ~ (step.kind = "insert" \/ step.kind = "delete")
  <2>1. ~ IsTextStep(step) /\ b.text = h.text
    BY <1>6, StepFields DEF Fits
  <2>2. UndoStep(b, step) = [b EXCEPT !.steps = q]
    BY <1>6 DEF UndoStep, Undid
  <2> HIDE DEF q
  <2>3. UndoStep(b, step) = [text |-> b.text, revision |-> b.revision, steps |-> q]
    BY <1>1, <2>2
  <2> QED BY <1>1, <1>3, <2>1, <2>3 DEF Played1, q
<1> QED BY <1>4, <1>5, <1>6

LEMMA RedoOne ==
  ASSUME NEW step \in Steps, NEW h \in Past, NEW b \in Played1, b.text = h.text,
         Replayed(step, h.text) \in Text, Fits(step, h, Replayed(step, h.text))
  PROVE  /\ RedoStep(b, step) \in Played1
         /\ RedoStep(b, step).text = Replayed(step, h.text)
         /\ RedoStep(b, step).steps = Append(b.steps, step)
<1> DEFINE after == Replayed(step, h.text)
           q == Append(b.steps, step)
<1>1. b.text \in Text /\ b.revision \in Nat /\ b.steps \in Seq(Steps)
      /\ b = [text |-> b.text, revision |-> b.revision, steps |-> b.steps]
      /\ b.revision + 1 \in Nat
  BY DEF Played1
<1>2. q \in Seq(Steps) /\ after \in Text
  BY <1>1
<1>3. CASE step.kind = "insert"
  <2>1. after = Inserted(b.text, step.start, step.text)
    BY <1>3 DEF Replayed
  <2>2. RedoStep(b, step) = [text |-> after, revision |-> b.revision + 1, steps |-> q]
    BY <1>3, <2>1 DEF RedoStep, RedoInsert
  <2> HIDE DEF q, after
  <2> QED BY <1>1, <1>2, <2>2 DEF Played1, q, after
<1>4. CASE step.kind = "delete"
  <2>1. ClampedEnd(h.text, step.end) = step.end /\ Deletes(h.text, step)
    BY <1>2, <1>4, FitsRange
  <2>2. after = Removed(b.text, step.start, step.end)
    BY <1>4 DEF Replayed
  <2>3. RedoStep(b, step) = [text |-> after, revision |-> b.revision + 1, steps |-> q]
    BY <1>4, <2>1, <2>2 DEF RedoStep, RedoDelete, DeletedFrom
  <2> HIDE DEF q, after
  <2> QED BY <1>1, <1>2, <2>3 DEF Played1, q, after
<1>5. CASE ~ (step.kind = "insert" \/ step.kind = "delete")
  <2>1. after = b.text
    BY <1>5 DEF Replayed
  <2>2. RedoStep(b, step) = [b EXCEPT !.steps = q]
    BY <1>5 DEF RedoStep
  <2> HIDE DEF q, after
  <2>3. RedoStep(b, step) = [text |-> b.text, revision |-> b.revision, steps |-> q]
    BY <1>1, <2>2
  <2> QED BY <1>1, <1>2, <2>1, <2>3 DEF Played1, q, after
<1> QED BY <1>3, <1>4, <1>5

(* A step fits the text it has made, when it is undone, and the text it was *)
(* made in, when it is redone.                                             *)
LEMMA FitsPlayed ==
  ASSUME NEW step \in Steps, NEW h \in Past, NEW after \in Text, Fits(step, h, after)
  PROVE  /\ StepFits(FALSE, after, step)
         /\ Replayed(step, h.text) = after => StepFits(TRUE, h.text, step)
<1>1. CASE step.kind = "insert"
  <2>1. /\ step.start \in 0..Len(after) /\ step.end \in step.start..Len(after)
        /\ ClampedEnd(after, step.end) = step.end
        /\ after \in Seq(Char) /\ h.text \in Seq(Char)
        /\ Len(after) \in Nat /\ Len(h.text) \in Nat
    BY <1>1, FitsRange
  <2>2. h.text = Removed(after, step.start, step.end)
    BY <1>1 DEF Fits
  <2>3. Len(h.text) = Len(after) - (step.end - step.start)
    BY <2>1, <2>2, RemovedText
  <2>4. step.start <= Len(h.text)
    BY <2>1, <2>3
  <2>5. ASSUME Replayed(step, h.text) = after
        PROVE  Len(step.text) = step.end - step.start
    <3>1. after = Inserted(h.text, step.start, step.text)
      BY <2>5, <1>1 DEF Replayed
    <3>2. step.text \in Seq(Char) /\ Len(step.text) \in Nat /\ step.start \in 0..Len(h.text)
      BY <1>1, <2>1, <2>4, StepFields
    <3>3. Len(after) = Len(h.text) + Len(step.text)
      BY <3>1, <3>2, <2>1, InsertedText
    <3> DEFINE la == Len(after)
               lh == Len(h.text)
               ls == Len(step.text)
    <3>4. /\ la \in Nat /\ lh \in Nat /\ ls \in Nat /\ la = lh + ls
          /\ lh = la - (step.end - step.start) /\ step.end \in Nat /\ step.start \in Nat
      BY <3>2, <3>3, <1>1, <2>1, <2>3, StepFields
    <3> HIDE DEF la, lh, ls
    <3>5. ls = step.end - step.start
      BY <3>4
    <3> QED BY <3>5 DEF ls
  <2>6. step.start <= ClampedEnd(after, step.end)
    BY <2>1
  <2> QED BY <1>1, <2>4, <2>5, <2>6 DEF StepFits, InsertionFits, DeletionFits
<1>2. CASE step.kind = "delete"
  <2>1. /\ step.start \in 0..Len(h.text) /\ step.end \in step.start..Len(h.text)
        /\ ClampedEnd(h.text, step.end) = step.end
        /\ h.text \in Seq(Char) /\ Len(h.text) \in Nat
    BY <1>2, FitsRange
  <2>2. after = Removed(h.text, step.start, step.end)
    BY <1>2 DEF Fits
  <2>3. Len(after) = Len(h.text) - (step.end - step.start)
    BY <2>1, <2>2, RemovedText
  <2>4. step.start <= Len(after) /\ step.start <= ClampedEnd(h.text, step.end)
    BY <2>1, <2>3
  <2> QED BY <1>2, <2>4 DEF StepFits, InsertionFits, DeletionFits
<1>3. CASE ~ (step.kind = "insert" \/ step.kind = "delete")
  BY <1>3 DEF StepFits
<1> QED BY <1>1, <1>2, <1>3

-----------------------------------------------------------------------------
(* The loop of Undo and Redo, as the function that Played defines.         *)

Plays(play, redo, b, s, lo) ==
  play = [i \in lo..(Len(s) + 1) |->
            IF i > Len(s) THEN b ELSE PlayStep(redo, play[i + 1], s[i])]

PlayedBy(play, redo, b, s) ==
  /\ play[Len(s) + 1] = b
  /\ \A i \in 1..Len(s) : play[i] = PlayStep(redo, play[i + 1], s[i])
  /\ Played(redo, b, s) = play[UnitStart(s)]
  /\ CheckFails(redo, b, s) <=>
       \E x \in 0..(Len(s) - UnitStart(s)) :
         ~ StepFits(redo, play[Len(s) + 1 - x].text, s[Len(s) - x])

LEMMA PlayedSteps ==
  ASSUME NEW s, Len(s) \in Nat, NEW b, NEW redo
  PROVE  \E play : PlayedBy(play, redo, b, s)
<1> DEFINE n == Len(s)
<1>0. n \in Nat /\ n = Len(s)
  OBVIOUS
<1> HIDE DEF n
<1> DEFINE T == {k \in 1..(n + 1) : \E play : Plays(play, redo, b, s, k)}
<1>1. n + 1 \in T
  <2> DEFINE f == [i \in (n + 1)..(n + 1) |-> b]
  <2>1. \A i \in (n + 1)..(n + 1) : i > n
    BY <1>0
  <2>2. f = [i \in (n + 1)..(n + 1) |-> IF i > n THEN b ELSE PlayStep(redo, f[i + 1], s[i])]
    BY <2>1
  <2>3. Plays(f, redo, b, s, n + 1)
    BY <1>0, <2>2 DEF Plays
  <2>4. n + 1 \in 1..(n + 1)
    BY <1>0
  <2> QED BY <2>3, <2>4
<1>2. ASSUME NEW k \in 1..n, k + 1 \in T  PROVE k \in T
  <2>1. PICK f : Plays(f, redo, b, s, k + 1)
    BY <1>2
  <2>2. f = [i \in (k + 1)..(n + 1) |-> IF i > n THEN b ELSE PlayStep(redo, f[i + 1], s[i])]
    BY <1>0, <2>1 DEF Plays
  <2> DEFINE g == [i \in k..(n + 1) |-> IF i = k THEN PlayStep(redo, f[k + 1], s[k]) ELSE f[i]]
  <2>3. ASSUME NEW i \in k..(n + 1)
        PROVE  g[i] = IF i > n THEN b ELSE PlayStep(redo, g[i + 1], s[i])
    <3>1. CASE i = k
      <4>1. k + 1 \in k..(n + 1) /\ k + 1 # k /\ ~ (k > n)
        BY <1>0
      <4>2. g[k + 1] = f[k + 1] /\ g[k] = PlayStep(redo, f[k + 1], s[k])
        BY <1>0, <4>1
      <4> HIDE DEF g
      <4> QED BY <3>1, <4>1, <4>2
    <3>2. CASE i # k
      <4>1. i \in (k + 1)..(n + 1) /\ i \in Nat
        BY <3>2
      <4>2. g[i] = f[i]
        BY <3>2
      <4>3. f[i] = IF i > n THEN b ELSE PlayStep(redo, f[i + 1], s[i])
        BY <2>2, <4>1
      <4>4. CASE i > n
        BY <4>2, <4>3, <4>4
      <4>5. CASE ~ (i > n)
        <5>1. i + 1 \in k..(n + 1) /\ i + 1 # k
          BY <1>0, <4>1, <4>5
        <5>2. g[i + 1] = f[i + 1]
          BY <5>1
        <5> HIDE DEF g
        <5> QED BY <4>2, <4>3, <4>5, <5>2
      <4> QED BY <4>4, <4>5
    <3> QED BY <3>1, <3>2
  <2>4. g = [i \in k..(n + 1) |-> g[i]]
    BY <1>0
  <2> HIDE DEF g
  <2>5. g = [i \in k..(n + 1) |-> IF i > n THEN b ELSE PlayStep(redo, g[i + 1], s[i])]
    BY <2>3, <2>4
  <2>6. Plays(g, redo, b, s, k)
    BY <1>0, <2>5 DEF Plays
  <2>7. k \in 1..(n + 1)
    BY <1>0
  <2> QED BY <2>6, <2>7
<1>3. 1 \in T
  <2> HIDE DEF T
  <2>1. 1 \in 1..(n + 1)
    BY <1>0
  <2>2. \A i \in 1..(n + 1) : i \in T
    BY <1>0, <1>1, <1>2, <2>1, Downwards
  <2> QED BY <2>1, <2>2
<1> DEFINE play == CHOOSE f : Plays(f, redo, b, s, 1)
<1>4. Plays(play, redo, b, s, 1)
  <2>1. \E f : Plays(f, redo, b, s, 1)
    BY <1>3
  <2> QED BY <2>1, Zenon
<1>4a. play = PlayedTo(redo, b, s)
  BY Zenon DEF PlayedTo, Plays
<1>5. /\ Played(redo, b, s) = play[UnitStart(s)]
      /\ CheckFails(redo, b, s) <=>
           \E x \in 0..(Len(s) - UnitStart(s)) :
             ~ StepFits(redo, play[Len(s) + 1 - x].text, s[Len(s) - x])
  <2> HIDE DEF play
  <2> QED BY <1>4a, Zenon DEF Played, CheckFails
<1> HIDE DEF play
<1>6. play = [i \in 1..(n + 1) |-> IF i > n THEN b ELSE PlayStep(redo, play[i + 1], s[i])]
  BY <1>0, <1>4 DEF Plays
<1>7. play[n + 1] = b
  <2>1. n + 1 \in 1..(n + 1) /\ n + 1 > n
    BY <1>0
  <2> QED BY <1>6, <2>1
<1>8. ASSUME NEW i \in 1..n  PROVE play[i] = PlayStep(redo, play[i + 1], s[i])
  <2>1. i \in 1..(n + 1) /\ ~ (i > n)
    BY <1>0
  <2> QED BY <1>6, <2>1
<1> QED BY <1>0, <1>5, <1>7, <1>8 DEF PlayedBy

-----------------------------------------------------------------------------
(***************************************************************************)
(* The invariant.  Undo steps are a chain of edits that leads to the text  *)
(* of the buffer: each fits the text before it, which the history holds,   *)
(* and the text before the next one.  The chain holds above the lowest     *)
(* `low` steps, the broken ones.  The redo steps above the lowest `stale`  *)
(* ones, which are older than an edit, are a chain that begins at the text *)
(* of the buffer.  A begin step does not change the revision.              *)
(***************************************************************************)
After(txt, bs, i) == IF i = Len(bs) THEN txt ELSE bs[i + 1].text
RevisionAfter(rev, bs, i) == IF i = Len(bs) THEN rev ELSE bs[i + 1].revision

UndoInv(txt, rev, us, bs, open, low) ==
  /\ us \in Seq(Steps) /\ bs \in Seq(Past) /\ Len(bs) = Len(us)
  /\ Nested(us, "begin", "end", open)
  /\ low \in 0..Len(us) /\ (low > 0 => us[low].kind # "begin")
  /\ \A i \in (low + 1)..Len(us) :
       /\ Fits(us[i], bs[i], After(txt, bs, i))
       /\ us[i].kind = "begin" => bs[i].revision = RevisionAfter(rev, bs, i)

RedoInv(txt, rs, qs, stale) ==
  /\ rs \in Seq(Steps) /\ qs \in Seq(Past) /\ Len(qs) = Len(rs)
  /\ Nested(rs, "end", "begin", 0)
  /\ stale \in 0..Len(rs) /\ Excess(rs, stale, "end", "begin") = 0
  /\ \A j \in (stale + 1)..Len(rs) :
       /\ Replayed(rs[j], qs[j].text) \in Text
       /\ Fits(rs[j], qs[j], Replayed(rs[j], qs[j].text))
       /\ j > stale + 1 =>
            /\ qs[j - 1].text = Replayed(rs[j], qs[j].text)
            /\ rs[j].kind = "begin" => qs[j - 1].revision = qs[j].revision
  /\ stale < Len(rs) => qs[Len(rs)].text = txt

LEMMA AppendFields ==
  ASSUME NEW S, NEW q \in Seq(S), NEW x \in S
  PROVE  /\ Append(q, x) \in Seq(S) /\ Len(q) \in Nat
         /\ Len(Append(q, x)) = Len(q) + 1
         /\ \A i \in 1..(Len(q) + 1) : Append(q, x)[i] = IF i <= Len(q) THEN q[i] ELSE x
OBVIOUS

LEMMA ChainTexts ==
  ASSUME NEW txt \in Text, NEW rev \in Nat, NEW bs \in Seq(Past), NEW i \in 1..Len(bs)
  PROVE  /\ After(txt, bs, i) \in Text
         /\ bs[i] \in Past /\ bs[i].text \in Text /\ bs[i].revision \in Nat
<1>1. \A j \in 1..Len(bs) : bs[j] \in Past
  OBVIOUS
<1>2. \A j \in 1..Len(bs) : bs[j].text \in Text /\ bs[j].revision \in Nat
  BY <1>1 DEF Past
<1>3. i # Len(bs) => i + 1 \in 1..Len(bs)
  OBVIOUS
<1> QED BY <1>1, <1>2, <1>3 DEF After

(* The unit on top of a stack played backwards, onto the stack rs.         *)
UndoPlays(b, txt, us, bs, rs) ==
  LET k == UnitStart(us)
      n == Len(us)
      m == Len(rs)
  IN  /\ b \in Played1 /\ b.text = bs[k].text /\ b.revision = bs[k].revision
      /\ Len(b.steps) = m + (n + 1 - k)
      /\ \A j \in 1..m : b.steps[j] = rs[j]
      /\ \A x \in 1..(n + 1 - k) :
           b.steps[m + x] = Undid(us[n + 1 - x], After(txt, bs, n + 1 - x))

LEMMA UndoPlayed ==
  ASSUME NEW txt \in Text, NEW rev \in Nat, NEW us, NEW bs, NEW low,
         UndoInv(txt, rev, us, bs, 0, low),
         us # << >>, UnitStart(us) > low, NEW rs \in Seq(Steps)
  PROVE  LET b == [text |-> txt, revision |-> rev, steps |-> rs]
         IN  /\ UndoPlays(Played(FALSE, b, us), txt, us, bs, rs)
             /\ ~ CheckFails(FALSE, b, us)
<1> DEFINE b0 == [text |-> txt, revision |-> rev, steps |-> rs]
           n == Len(us)
           m == Len(rs)
           k == UnitStart(us)
           Turned(x) == Undid(us[n + 1 - x], After(txt, bs, n + 1 - x))
<1>a. n \in Nat \ {0} /\ Len(us) = n /\ m \in Nat /\ Len(rs) = m /\ k = UnitStart(us)
  BY DEF UndoInv
<1> HIDE DEF n, m, k
<1> USE <1>a
<1>0. PICK play : PlayedBy(play, FALSE, b0, us)
  <2> HIDE DEF b0
  <2> QED BY PlayedSteps
<1>1. /\ play[n + 1] = b0
      /\ \A i \in 1..n : play[i] = PlayStep(FALSE, play[i + 1], us[i])
      /\ Played(FALSE, b0, us) = play[k]
      /\ CheckFails(FALSE, b0, us) <=>
           \E x \in 0..(n - k) : ~ StepFits(FALSE, play[n + 1 - x].text, us[n - x])
  BY <1>0 DEF PlayedBy, k
<1> DEFINE P(i) ==
             /\ play[i] \in Played1
             /\ play[i].text = IF i = n + 1 THEN txt ELSE bs[i].text
             /\ i <= n /\ us[i].kind # "end" => play[i].revision = bs[i].revision
             /\ Len(play[i].steps) = m + (n + 1 - i)
             /\ \A j \in 1..m : play[i].steps[j] = rs[j]
             /\ \A x \in 1..(n + 1 - i) : play[i].steps[m + x] = Turned(x)
           T == {i \in 1..(n + 1) : P(i)}
<1>b. /\ us \in Seq(Steps) /\ bs \in Seq(Past) /\ Len(bs) = n
      /\ Nested(us, "begin", "end", 0) /\ Brackets("begin", "end")
      /\ \A i \in 1..n : us[i] \in Steps
  BY DEF UndoInv, Brackets
<1>5. k \in 1..n /\ us[k].kind # "end"
  <2>1. UnitStart(us) \in 1..n /\ us[UnitStart(us)].kind # "end"
    BY <1>b, UnitStartFacts
  <2> QED BY <2>1 DEF k
<1>2. /\ us \in Seq(Steps) /\ bs \in Seq(Past) /\ Len(bs) = n
      /\ Nested(us, "begin", "end", 0) /\ Brackets("begin", "end")
      /\ \A i \in 1..n : us[i] \in Steps
      /\ \A i \in k..n : Fits(us[i], bs[i], After(txt, bs, i))
      /\ \A i \in k..n : us[i].kind = "begin" => bs[i].revision = RevisionAfter(rev, bs, i)
  <2>1. \A i \in k..n : i \in (low + 1)..Len(us)
    BY <1>5 DEF UndoInv
  <2> QED BY <2>1, <1>b DEF UndoInv
<1>3. n + 1 \in T
  <2>1. b0 \in Played1 /\ b0.text = txt /\ b0.steps = rs
    BY DEF Played1
  <2>2. Len(b0.steps) = m + (n + 1 - (n + 1)) /\ ~ (n + 1 <= n) /\ n + 1 \in 1..(n + 1)
        /\ \A x \in 1..(n + 1 - (n + 1)) : FALSE
    BY <2>1
  <2> HIDE DEF b0, Turned
  <2>3. P(n + 1)
    BY <1>1, <2>1, <2>2
  <2> QED BY <2>2, <2>3
<1>4. ASSUME NEW i \in k..n, i + 1 \in T  PROVE i \in T
  <2> DEFINE c == play[i + 1]
             d == play[i]
             q == c.steps
             s == Undid(us[i], After(txt, bs, i))
  <2>0. i \in 1..n
    BY <1>5
  <2> USE <2>0
  <2>1. P(i + 1)
    BY <1>4
  <2>2. /\ c \in Played1 /\ q \in Seq(Steps) /\ c.text = After(txt, bs, i)
        /\ Len(q) = m + (n - i)
    <3>1. i + 1 = n + 1 <=> i = n
      OBVIOUS
    <3>2. c \in Played1 /\ c.text = After(txt, bs, i)
      BY <2>1, <3>1, <1>2 DEF After
    <3>3. Len(q) = m + (n + 1 - (i + 1)) /\ n + 1 - (i + 1) = n - i
      BY <2>1
    <3> QED BY <3>2, <3>3 DEF Played1
  <2>3. /\ d \in Played1 /\ d.text = bs[i].text
        /\ IsTextStep(us[i]) => d.revision = bs[i].revision
        /\ ~ IsTextStep(us[i]) => d.revision = c.revision
        /\ d.steps = Append(q, s)
    <3>1. d = UndoStep(c, us[i])
      BY <1>1 DEF PlayStep
    <3>2. Fits(us[i], bs[i], c.text) /\ us[i] \in Steps /\ bs[i] \in Past
      BY <1>2, <2>2
    <3> HIDE DEF c, d
    <3> QED BY <2>2, <3>1, <3>2, UndoOne DEF d
  <2>4. s \in Steps
    <3>1. After(txt, bs, i) \in Text /\ bs[i] \in Past
      BY <1>2, ChainTexts
    <3> QED BY <1>2, <3>1, UndidFits
  <2>5. /\ Len(d.steps) = m + (n - i) + 1
        /\ \A j \in 1..(m + (n - i) + 1) : d.steps[j] = IF j <= m + (n - i) THEN q[j] ELSE s
    <3> HIDE DEF c, d, q, s
    <3> QED BY <2>2, <2>3, <2>4, AppendFields
  <2>6. us[i].kind # "end" => d.revision = bs[i].revision
    <3> SUFFICES ASSUME us[i].kind = "begin"  PROVE d.revision = bs[i].revision
      BY <1>2, <2>3, StepFields
    <3>1. ~ IsTextStep(us[i])
      BY DEF IsTextStep
    <3>2. us[n].kind # "begin"
      BY <1>2, NestedEnds
    <3>3. i + 1 \in 2..n /\ (i + 1) - 1 = i /\ i # n /\ i + 1 <= n
      BY <3>2
    <3>4. us[i + 1].kind # "end"
      BY <1>2, <3>3 DEF Nested
    <3>5. c.revision = bs[i + 1].revision
      BY <2>1, <3>3, <3>4
    <3>6. bs[i].revision = bs[i + 1].revision
      BY <1>2, <3>3 DEF RevisionAfter
    <3> HIDE DEF c, d
    <3> QED BY <2>3, <3>1, <3>5, <3>6
  <2>7. \A j \in 1..m : d.steps[j] = rs[j]
    <3> TAKE j \in 1..m
    <3>1. j \in 1..(m + (n - i) + 1) /\ j <= m + (n - i)
      OBVIOUS
    <3>2. q[j] = rs[j]
      BY <2>1
    <3> HIDE DEF d, q
    <3> QED BY <2>5, <3>1, <3>2
  <2>8. \A x \in 1..(n + 1 - i) : d.steps[m + x] = Turned(x)
    <3> TAKE x \in 1..(n + 1 - i)
    <3>1. m + x \in 1..(m + (n - i) + 1)
      OBVIOUS
    <3>2. CASE x <= n - i
      <4>1. m + x <= m + (n - i) /\ x \in 1..(n + 1 - (i + 1))
        BY <3>2
      <4>2. q[m + x] = Turned(x)
        BY <2>1, <4>1
      <4> HIDE DEF d, q, Turned, s
      <4> QED BY <2>5, <3>1, <4>1, <4>2
    <3>3. CASE x = n + 1 - i
      <4>1. ~ (m + x <= m + (n - i)) /\ n + 1 - x = i
        BY <3>3
      <4>2. Turned(x) = s
        BY <4>1
      <4> HIDE DEF d, q, Turned, s
      <4> QED BY <2>5, <3>1, <4>1, <4>2
    <3>4. x <= n - i \/ x = n + 1 - i
      OBVIOUS
    <3> QED BY <3>2, <3>3, <3>4
  <2>9. Len(d.steps) = m + (n + 1 - i) /\ i # n + 1 /\ i \in 1..(n + 1)
    <3>1. m + (n - i) + 1 = m + (n + 1 - i)
      OBVIOUS
    <3> HIDE DEF d
    <3> QED BY <2>5, <3>1
  <2> HIDE DEF Turned
  <2> QED BY <2>3, <2>6, <2>7, <2>8, <2>9
<1>6. P(k) /\ \A i \in k..(n + 1) : P(i)
  <2> HIDE DEF T
  <2>1. k \in 1..(n + 1)
    BY <1>5
  <2>2. \A i \in k..(n + 1) : i \in T
    BY <1>3, <1>4, <2>1, Downwards
  <2>3. k \in k..(n + 1)
    BY <1>5
  <2>4. k \in T /\ \A i \in k..(n + 1) : i \in T
    BY <2>2, <2>3
  <2> QED BY <2>4 DEF T
<1> HIDE DEF b0, Turned
<1>7. k # n + 1 /\ k <= n
  BY <1>5
<1>8. /\ play[k] \in Played1 /\ play[k].text = bs[k].text /\ play[k].revision = bs[k].revision
      /\ Len(play[k].steps) = m + (n + 1 - k)
      /\ \A j \in 1..m : play[k].steps[j] = rs[j]
      /\ \A x \in 1..(n + 1 - k) : play[k].steps[m + x] = Turned(x)
  BY <1>5, <1>6, <1>7
<1>9. ASSUME NEW x \in 0..(n - k)
      PROVE  StepFits(FALSE, play[n + 1 - x].text, us[n - x])
  <2> DEFINE i == n - x
             t == play[i + 1].text
  <2>1. i \in k..n /\ i \in 1..n /\ i + 1 = n + 1 - x /\ i + 1 \in k..(n + 1)
        /\ (i + 1 = n + 1 <=> i = n)
    BY <1>5
  <2> HIDE DEF i
  <2>2. t = After(txt, bs, i)
    BY <1>2, <1>6, <2>1 DEF After
  <2>3. /\ us[i] \in Steps /\ bs[i] \in Past /\ t \in Text
        /\ Fits(us[i], bs[i], t)
    BY <1>2, <2>1, <2>2, ChainTexts
  <2>4. StepFits(FALSE, t, us[i])
    <3> HIDE DEF t
    <3> QED BY <2>3, FitsPlayed
  <2> QED BY <2>1, <2>4 DEF i
<1> QED BY <1>1, <1>8, <1>9 DEF b0, Turned, UndoPlays, n, m, k

-----------------------------------------------------------------------------
(* Undo                                                                    *)

(* What stays on the stack when the unit on top is taken away.             *)
LEMMA RestInv ==
  ASSUME NEW txt, NEW rev, NEW us, NEW bs, NEW low, UndoInv(txt, rev, us, bs, 0, low),
         us # << >>, UnitStart(us) > low, NEW newRev
  PROVE  UndoInv(bs[UnitStart(us)].text, newRev, RestOf(us),
                 SubSeq(bs, 1, UnitStart(us) - 1), 0, low)
<1> DEFINE n == Len(us)
           k == UnitStart(us)
           r == RestOf(us)
           h == SubSeq(bs, 1, k - 1)
           t == bs[k].text
<1>1. /\ us \in Seq(Steps) /\ bs \in Seq(Past) /\ Len(bs) = n
      /\ Nested(us, "begin", "end", 0) /\ Brackets("begin", "end")
      /\ n \in Nat \ {0} /\ Len(us) = n
      /\ low \in 0..n /\ (low > 0 => us[low].kind # "begin")
      /\ \A i \in (low + 1)..n :
           /\ Fits(us[i], bs[i], After(txt, bs, i))
           /\ us[i].kind = "begin" => bs[i].revision = RevisionAfter(rev, bs, i)
  BY DEF UndoInv, Brackets
<1> HIDE DEF n
<1>2. k \in 1..n /\ low \in 0..(k - 1) /\ (low > 0 => low \in 1..(k - 1))
  BY <1>1, UnitStartFacts
<1>3. /\ r \in Seq(Steps) /\ Len(r) = k - 1 /\ Nested(r, "begin", "end", 0)
      /\ \A i \in 1..(k - 1) : r[i] = us[i]
  BY <1>1, RestNested
<1>4. /\ h \in Seq(Past) /\ Len(h) = k - 1
      /\ \A i \in 1..(k - 1) : h[i] = bs[i]
  BY <1>1, <1>2, FirstSteps
<1> HIDE DEF r, h, k, t
<1>5. ASSUME NEW i \in (low + 1)..(k - 1)
      PROVE  /\ Fits(r[i], h[i], After(t, h, i))
             /\ r[i].kind = "begin" => h[i].revision = RevisionAfter(newRev, h, i)
  <2>1. i \in (low + 1)..n /\ i \in 1..(k - 1) /\ i \in 1..n /\ i # n /\ i + 1 \in 1..n
    BY <1>1, <1>2
  <2>2. /\ Fits(us[i], bs[i], bs[i + 1].text)
        /\ us[i].kind = "begin" => bs[i].revision = bs[i + 1].revision
    BY <1>1, <2>1 DEF After, RevisionAfter
  <2>3. r[i] = us[i] /\ h[i] = bs[i]
    BY <1>3, <1>4, <2>1
  <2>4. CASE i = k - 1
    <3>1. After(t, h, i) = bs[i + 1].text
      BY <1>2, <1>4, <2>1, <2>4 DEF After, t, k
    <3>2. r[i].kind # "begin"
      <4>1. Len(r) \in Nat \ {0} /\ i = Len(r)
        BY <1>2, <1>3, <2>1, <2>4
      <4> QED BY <4>1, <1>1, <1>3, NestedEnds
    <3> QED BY <2>2, <2>3, <3>1, <3>2
  <2>5. CASE i # k - 1
    <3>1. i + 1 \in 1..(k - 1) /\ i # Len(h)
      BY <1>2, <1>4, <2>1, <2>5
    <3>2. h[i + 1] = bs[i + 1]
      BY <1>4, <3>1
    <3> QED BY <2>2, <2>3, <3>1, <3>2 DEF After, RevisionAfter
  <2> QED BY <2>4, <2>5
<1>6. UndoInv(t, newRev, r, h, 0, low)
  BY <1>1, <1>2, <1>3, <1>4, <1>5 DEF UndoInv
<1> QED BY <1>6 DEF t, r, h, k

(* A unit of the history.                                                  *)
LEMMA UnitFields ==
  ASSUME NEW S, NEW s, NEW h \in Seq(S), NEW n \in Nat, Len(s) = n, Len(h) = n,
         UnitStart(s) \in 1..n
  PROVE  /\ UnitOf(s, h) \in Seq(S) /\ Len(UnitOf(s, h)) = n + 1 - UnitStart(s)
         /\ \A x \in 1..(n + 1 - UnitStart(s)) : UnitOf(s, h)[x] = h[n + 1 - x]
<1> DEFINE k == UnitStart(s)
           f == UnitOf(s, h)
<1>1. f = [x \in 1..(n + 1 - k) |-> h[n + 1 - x]]
  BY DEF UnitOf
<1>2. \A i \in 1..n : h[i] \in S
  OBVIOUS
<1> HIDE DEF k, f
<1>3. k \in 1..n
  BY DEF k
<1>4. ASSUME NEW x \in 1..(n + 1 - k)  PROVE h[n + 1 - x] \in S
  <2>1. n + 1 - x \in 1..n
    BY <1>3
  <2> QED BY <1>2, <2>1
<1>5. f \in [1..(n + 1 - k) -> S]
  BY <1>1, <1>4, Zenon
<1>6. n + 1 - k \in Nat
  BY <1>3
<1>7. f \in Seq(S) /\ Len(f) = n + 1 - k
  BY <1>5, <1>6
<1> QED BY <1>1, <1>7 DEF k, f

(* The redo steps after Undo: the unit turned around, on top.              *)
LEMMA UndoneRedo ==
  ASSUME NEW txt \in Text, NEW rev \in Nat, NEW us, NEW bs, NEW low,
         UndoInv(txt, rev, us, bs, 0, low), us # << >>, UnitStart(us) > low,
         NEW rs, NEW qs, NEW stale, RedoInv(txt, rs, qs, stale),
         NEW w \in Seq(Steps), Len(w) = Len(rs) + (Len(us) + 1 - UnitStart(us)),
         \A j \in 1..Len(rs) : w[j] = rs[j],
         \A x \in 1..(Len(us) + 1 - UnitStart(us)) :
           w[Len(rs) + x] = Undid(us[Len(us) + 1 - x], After(txt, bs, Len(us) + 1 - x))
  PROVE  /\ RedoInv(bs[UnitStart(us)].text, w, qs \o UnitOf(us, bs), stale)
         /\ UnitStart(w) = Len(rs) + 1
<1> DEFINE n == Len(us)
           k == UnitStart(us)
           m == Len(rs)
           len == n + 1 - k
           h == UnitOf(us, bs)
           q == qs \o h
           t == bs[k].text
<1>1. /\ us \in Seq(Steps) /\ bs \in Seq(Past) /\ Len(bs) = n
      /\ Nested(us, "begin", "end", 0) /\ Brackets("begin", "end") /\ Brackets("end", "begin")
      /\ n \in Nat \ {0} /\ n \in Nat /\ Len(us) = n
      /\ \A i \in 1..n : us[i] \in Steps
      /\ low \in Nat /\ k > low
      /\ \A i \in (low + 1)..n : Fits(us[i], bs[i], After(txt, bs, i))
      /\ \A i \in (low + 1)..n :
           us[i].kind = "begin" => bs[i].revision = RevisionAfter(rev, bs, i)
  BY DEF UndoInv, Brackets
<1>2. /\ rs \in Seq(Steps) /\ qs \in Seq(Past) /\ Len(qs) = m /\ m \in Nat /\ Len(rs) = m
      /\ Nested(rs, "end", "begin", 0)
      /\ stale \in 0..m /\ Excess(rs, stale, "end", "begin") = 0
      /\ \A j \in (stale + 1)..m :
           /\ Replayed(rs[j], qs[j].text) \in Text
           /\ Fits(rs[j], qs[j], Replayed(rs[j], qs[j].text))
           /\ j > stale + 1 =>
                /\ qs[j - 1].text = Replayed(rs[j], qs[j].text)
                /\ rs[j].kind = "begin" => qs[j - 1].revision = qs[j].revision
      /\ stale < m => qs[m].text = txt
  BY DEF RedoInv
<1> HIDE DEF n, m
<1>3. k \in 1..n
  BY <1>1, UnitStartFacts
<1>4. /\ h \in Seq(Past) /\ Len(h) = len
      /\ \A x \in 1..len : h[x] = bs[n + 1 - x]
  BY <1>1, <1>3, UnitFields
<1> HIDE DEF h, k
<1>5. /\ len \in 1..n /\ n + 1 - len = k
      /\ \A x \in 1..len : /\ n + 1 - x \in k..n /\ n + 1 - x \in 1..n
                            /\ n + 1 - x \in (low + 1)..n
  BY <1>1, <1>3
<1>6. /\ q \in Seq(Past) /\ Len(q) = m + len
      /\ \A j \in 1..m : q[j] = qs[j]
      /\ \A x \in 1..len : q[m + x] = bs[n + 1 - x]
  <2>0. qs \in Seq(Past) /\ h \in Seq(Past)
    BY <1>2, <1>4
  <2>1. /\ q \in Seq(Past) /\ Len(q) = Len(qs) + Len(h)
        /\ \A j \in 1..(Len(qs) + Len(h)) : q[j] = IF j <= Len(qs) THEN qs[j] ELSE h[j - Len(qs)]
    BY <2>0, ConcatProperties, Zenon
  <2> HIDE DEF q, len
  <2>2. \A j \in 1..m : q[j] = qs[j]
    BY <2>1, <1>2, <1>4, <1>5
  <2>3. ASSUME NEW x \in 1..len  PROVE q[m + x] = bs[n + 1 - x]
    <3>1. m + x \in 1..(m + len) /\ ~ (m + x <= m) /\ (m + x) - m = x
      BY <1>2, <1>5
    <3> QED BY <2>1, <3>1, <1>2, <1>4
  <2> QED BY <2>1, <2>2, <2>3, <1>2, <1>4
<1>7. /\ Len(w) = m + len
      /\ \A j \in 1..m : w[j] = rs[j]
      /\ \A x \in 1..len : w[m + x] = Undid(us[n + 1 - x], After(txt, bs, n + 1 - x))
  BY DEF n, m, k
<1> HIDE DEF q, len, t
<1>8. ASSUME NEW x \in 1..len
      PROVE  LET i == n + 1 - x
             IN  /\ w[m + x].kind = us[i].kind
                 /\ Fits(w[m + x], q[m + x], After(txt, bs, i))
                 /\ Replayed(w[m + x], q[m + x].text) = After(txt, bs, i)
                 /\ After(txt, bs, i) \in Text
  <2> DEFINE i == n + 1 - x
  <2>1. i \in 1..n /\ i \in (low + 1)..n
    BY <1>5
  <2> HIDE DEF i
  <2>2. us[i] \in Steps /\ bs[i] \in Past /\ After(txt, bs, i) \in Text
        /\ Fits(us[i], bs[i], After(txt, bs, i))
    BY <1>1, <2>1, ChainTexts
  <2>3. /\ Undid(us[i], After(txt, bs, i)).kind = us[i].kind
        /\ Fits(Undid(us[i], After(txt, bs, i)), bs[i], After(txt, bs, i))
        /\ Replayed(Undid(us[i], After(txt, bs, i)), bs[i].text) = After(txt, bs, i)
    BY <2>2, UndidFits
  <2>4. w[m + x] = Undid(us[i], After(txt, bs, i)) /\ q[m + x] = bs[i]
    BY <1>6, <1>7 DEF i
  <2>5. /\ w[m + x].kind = us[i].kind
        /\ Fits(w[m + x], q[m + x], After(txt, bs, i))
        /\ Replayed(w[m + x], q[m + x].text) = After(txt, bs, i)
        /\ After(txt, bs, i) \in Text
    BY <2>2, <2>3, <2>4
  <2> QED BY <2>5 DEF i
<1>9. Nested(w, "end", "begin", 0) /\ UnitStart(w) = m + 1
  <2>1. Moved(us, rs, w)
    <3>1. \A x \in 1..len : w[m + x].kind = us[n + 1 - x].kind
      BY <1>8
    <3>2. \A j \in 1..m : w[j].kind = rs[j].kind
      BY <1>7
    <3>3. Len(us) = n /\ Len(rs) = m /\ len = n + 1 - UnitStart(us)
      BY <1>1, <1>2 DEF len, k
    <3> QED BY <1>7, <3>1, <3>2, <3>3 DEF Moved
  <2> QED BY <2>1, <1>1, <1>2, MovedNested
<1>10. stale \in 0..(m + len) /\ Excess(w, stale, "end", "begin") = 0
  <2>1. stale \in Nat /\ stale \in 0..(m + len) /\ \A j \in 1..stale : j \in 1..m
    BY <1>2, <1>5
  <2>2. \A j \in 1..stale : w[j].kind = rs[j].kind
    BY <2>1, <1>7
  <2>3. Excess(w, stale, "end", "begin") = Excess(rs, stale, "end", "begin")
    BY <2>1, <2>2, ExcessSame
  <2> QED BY <2>1, <2>3, <1>2
<1>11. ASSUME NEW j \in (stale + 1)..(m + len)
       PROVE  /\ Replayed(w[j], q[j].text) \in Text
              /\ Fits(w[j], q[j], Replayed(w[j], q[j].text))
              /\ j > stale + 1 => q[j - 1].text = Replayed(w[j], q[j].text)
  <2>1. CASE j <= m
    <3>1. j \in (stale + 1)..m /\ j \in 1..m /\ (j > stale + 1 => j - 1 \in 1..m)
      BY <1>2, <1>5, <2>1
    <3>2. w[j] = rs[j] /\ q[j] = qs[j] /\ (j > stale + 1 => q[j - 1] = qs[j - 1])
      BY <3>1, <1>6, <1>7
    <3> QED BY <3>1, <3>2, <1>2
  <2>2. CASE j > m
    <3> DEFINE x == j - m
               i == n + 1 - x
    <3>1. x \in 1..len /\ m + x = j /\ i = n + 1 - x
      BY <1>2, <1>5, <2>2
    <3>2. /\ i \in 1..n /\ i \in (low + 1)..n /\ (x > 1 <=> i # n)
          /\ x > 1 => x - 1 \in 1..len /\ m + (x - 1) = j - 1 /\ n + 1 - (x - 1) = i + 1
      <4> HIDE DEF x, i
      <4>1. i \in 1..n /\ i \in (low + 1)..n
        BY <3>1, <1>5
      <4>2. len \in Int /\ m \in Int /\ n \in Int
        BY <1>1, <1>2, <1>5
      <4>3. x \in Int /\ 1 <= x /\ x <= len
        BY <3>1, <4>2
      <4>4. x > 1 <=> i # n
        BY <3>1, <4>2, <4>3
      <4>5. x > 1 => x - 1 \in 1..len
        BY <4>2, <4>3
      <4>6. m + (x - 1) = j - 1
        BY <3>1, <4>2, <4>3
      <4>7. n + 1 - (x - 1) = i + 1
        BY <3>1, <4>2, <4>3
      <4> QED BY <4>1, <4>4, <4>5, <4>6, <4>7
    <3>3. /\ Fits(w[j], q[j], After(txt, bs, i))
          /\ Replayed(w[j], q[j].text) = After(txt, bs, i)
          /\ After(txt, bs, i) \in Text
      BY <3>1, <1>8
    <3> HIDE DEF x, i
    <3>4. ASSUME j > stale + 1  PROVE q[j - 1].text = After(txt, bs, i)
      <4>1. CASE x > 1
        <5>1. q[j - 1] = bs[i + 1]
          BY <1>6, <3>2, <4>1
        <5>2. After(txt, bs, i) = bs[i + 1].text
          BY <1>1, <3>2, <4>1 DEF After
        <5> QED BY <5>1, <5>2
      <4>2. CASE ~ (x > 1)
        <5>1. i = n /\ j = m + 1 /\ j - 1 = m /\ stale < m /\ m \in 1..m
          BY <1>2, <3>1, <3>2, <3>4, <4>2
        <5>2. q[m] = qs[m] /\ qs[m].text = txt
          BY <5>1, <1>2, <1>6
        <5>3. After(txt, bs, i) = txt
          BY <5>1, <1>1 DEF After
        <5> QED BY <5>1, <5>2, <5>3
      <4> QED BY <4>1, <4>2
    <3> QED BY <3>3, <3>4
  <2>3. j <= m \/ j > m
    BY <1>2, <1>5
  <2> QED BY <2>1, <2>2, <2>3
<1>12. q[m + len].text = t
  <2>1. len \in 1..len
    BY <1>5
  <2> QED BY <2>1, <1>5, <1>6 DEF t
<1>13. ASSUME NEW j \in (stale + 1)..(m + len), j > stale + 1, w[j].kind = "begin"
       PROVE  q[j - 1].revision = q[j].revision
  <2>1. CASE j <= m
    <3>1. j \in (stale + 1)..m /\ j \in 1..m /\ j - 1 \in 1..m
      BY <1>2, <1>13, <2>1
    <3>2. w[j] = rs[j] /\ q[j] = qs[j] /\ q[j - 1] = qs[j - 1]
      BY <3>1, <1>6, <1>7
    <3> QED BY <3>1, <3>2, <1>2, <1>13
  <2>2. CASE j > m
    <3> DEFINE x == j - m
               i == n + 1 - x
    <3>1. x \in 1..len /\ m + x = j /\ i = n + 1 - x
      BY <1>2, <1>5, <2>2
    <3>2. /\ i \in 1..n /\ i \in (low + 1)..n /\ (x > 1 <=> i # n)
          /\ x > 1 => x - 1 \in 1..len /\ m + (x - 1) = j - 1 /\ n + 1 - (x - 1) = i + 1
      <4> HIDE DEF x, i
      <4>1. i \in 1..n /\ i \in (low + 1)..n
        BY <3>1, <1>5
      <4>2. len \in Int /\ m \in Int /\ n \in Int
        BY <1>1, <1>2, <1>5
      <4>3. x \in Int /\ 1 <= x /\ x <= len
        BY <3>1, <4>2
      <4>4. x > 1 <=> i # n
        BY <3>1, <4>2, <4>3
      <4>5. x > 1 => x - 1 \in 1..len
        BY <4>2, <4>3
      <4>6. m + (x - 1) = j - 1
        BY <3>1, <4>2, <4>3
      <4>7. n + 1 - (x - 1) = i + 1
        BY <3>1, <4>2, <4>3
      <4> QED BY <4>1, <4>4, <4>5, <4>6, <4>7
    <3>3. us[i].kind = "begin" /\ q[j] = bs[i]
      BY <3>1, <1>6, <1>8, <1>13
    <3> HIDE DEF x, i
    <3>4. us[n].kind # "begin"
      BY <1>1, NestedEnds
    <3>5. x > 1 /\ i # n
      BY <3>2, <3>3, <3>4
    <3>6. q[j - 1] = bs[i + 1]
      BY <1>6, <3>2, <3>5
    <3>7. bs[i].revision = bs[i + 1].revision
      BY <1>1, <3>2, <3>3, <3>5 DEF RevisionAfter
    <3> QED BY <3>3, <3>6, <3>7
  <2>3. j <= m \/ j > m
    BY <1>2, <1>5
  <2> QED BY <2>1, <2>2, <2>3
<1>14. RedoInv(t, w, q, stale)
  BY <1>6, <1>7, <1>9, <1>10, <1>11, <1>12, <1>13 DEF RedoInv
<1> QED BY <1>9, <1>14 DEF t, q, h, m, k

-----------------------------------------------------------------------------
(* Redo                                                                    *)

(* The unit on top of the redo steps is newer than the last edit when one  *)
(* of its steps is.                                                        *)
LEMMA RedoUnit ==
  ASSUME NEW txt, NEW rs, NEW qs, NEW stale, RedoInv(txt, rs, qs, stale), stale < Len(rs)
  PROVE  /\ UnitStart(rs) \in (stale + 1)..Len(rs) /\ rs[UnitStart(rs)].kind # "begin"
         /\ Len(rs) \in Nat \ {0} /\ stale \in Nat
<1> DEFINE m == Len(rs)
           k == UnitStart(rs)
<1>1. /\ m \in Nat \ {0} /\ Len(rs) = m /\ stale \in 0..m /\ stale < m
      /\ Nested(rs, "end", "begin", 0) /\ Brackets("end", "begin")
      /\ Excess(rs, stale, "end", "begin") = 0
  BY DEF RedoInv, Brackets
<1> HIDE DEF m
<1>2. /\ k \in 1..m /\ rs[k].kind # "begin"
      /\ \A i \in k..(m - 1) : Excess(rs, i, "end", "begin") # 0
  BY <1>1, UnitStartFacts
<1> HIDE DEF k
<1>3. ~ (stale >= k)
  <2>1. stale >= k => stale \in k..(m - 1)
    BY <1>1, <1>2
  <2> QED BY <2>1, <1>1, <1>2
<1>4. k \in (stale + 1)..m
  BY <1>1, <1>2, <1>3
<1> QED BY <1>1, <1>2, <1>4 DEF k, m

(* The unit on top of the redo steps played forwards, onto the stack us.   *)
RedoPlays(b, us, rs, qs) ==
  LET k == UnitStart(rs)
      n == Len(us)
      m == Len(rs)
  IN  /\ b \in Played1 /\ b.text = Replayed(rs[k], qs[k].text)
      /\ Len(b.steps) = n + (m + 1 - k)
      /\ \A j \in 1..n : b.steps[j] = us[j]
      /\ \A x \in 1..(m + 1 - k) : b.steps[n + x] = rs[m + 1 - x]

LEMMA RedoPlayed ==
  ASSUME NEW txt \in Text, NEW rev \in Nat, NEW rs, NEW qs, NEW stale,
         RedoInv(txt, rs, qs, stale), stale < Len(rs), NEW us \in Seq(Steps)
  PROVE  LET b == [text |-> txt, revision |-> rev, steps |-> us]
         IN  /\ RedoPlays(Played(TRUE, b, rs), us, rs, qs)
             /\ ~ CheckFails(TRUE, b, rs)
<1> DEFINE b0 == [text |-> txt, revision |-> rev, steps |-> us]
           n == Len(us)
           m == Len(rs)
           k == UnitStart(rs)
<1>a. m \in Nat \ {0} /\ Len(rs) = m /\ n \in Nat /\ Len(us) = n /\ k = UnitStart(rs)
      /\ stale < m
  BY RedoUnit
<1>2. /\ rs \in Seq(Steps) /\ qs \in Seq(Past) /\ Len(qs) = m
      /\ \A i \in 1..m : rs[i] \in Steps /\ qs[i] \in Past
      /\ stale \in 0..m /\ stale \in Nat
      /\ \A j \in (stale + 1)..m :
           /\ Replayed(rs[j], qs[j].text) \in Text
           /\ Fits(rs[j], qs[j], Replayed(rs[j], qs[j].text))
           /\ j > stale + 1 => qs[j - 1].text = Replayed(rs[j], qs[j].text)
      /\ qs[m].text = txt
  <2> USE DEF RedoInv
  <2>1. /\ rs \in Seq(Steps) /\ qs \in Seq(Past) /\ Len(qs) = m /\ qs[m].text = txt
    BY <1>a
  <2>2. /\ \A i \in 1..m : rs[i] \in Steps
        /\ \A i \in 1..m : qs[i] \in Past
    BY <1>a, <2>1
  <2>3. stale \in 0..m /\ stale \in Nat
    BY <1>a
  <2>4. \A j \in (stale + 1)..m :
           /\ Replayed(rs[j], qs[j].text) \in Text
           /\ Fits(rs[j], qs[j], Replayed(rs[j], qs[j].text))
           /\ j > stale + 1 => qs[j - 1].text = Replayed(rs[j], qs[j].text)
    BY <1>a
  <2> QED BY <2>1, <2>2, <2>3, <2>4
<1> HIDE DEF n, m, k
<1> USE <1>a
<1>0. PICK play : PlayedBy(play, TRUE, b0, rs)
  <2> HIDE DEF b0
  <2> QED BY PlayedSteps
<1>1. /\ play[m + 1] = b0
      /\ \A i \in 1..m : play[i] = PlayStep(TRUE, play[i + 1], rs[i])
      /\ Played(TRUE, b0, rs) = play[k]
      /\ CheckFails(TRUE, b0, rs) <=>
           \E x \in 0..(m - k) : ~ StepFits(TRUE, play[m + 1 - x].text, rs[m - x])
  BY <1>0 DEF PlayedBy, k
<1> DEFINE P(i) ==
             /\ play[i] \in Played1
             /\ play[i].text = IF i = m + 1 THEN txt ELSE Replayed(rs[i], qs[i].text)
             /\ Len(play[i].steps) = n + (m + 1 - i)
             /\ \A j \in 1..n : play[i].steps[j] = us[j]
             /\ \A x \in 1..(m + 1 - i) : play[i].steps[n + x] = rs[m + 1 - x]
           T == {i \in 1..(m + 1) : P(i)}
<1>3. m + 1 \in T
  <2>1. b0 \in Played1 /\ b0.text = txt /\ b0.steps = us
    BY DEF Played1
  <2>2. Len(b0.steps) = n + (m + 1 - (m + 1)) /\ m + 1 \in 1..(m + 1)
        /\ \A x \in 1..(m + 1 - (m + 1)) : FALSE
    BY <2>1
  <2> HIDE DEF b0
  <2>3. P(m + 1)
    BY <1>1, <2>1, <2>2
  <2> QED BY <2>2, <2>3
<1>4. ASSUME NEW i \in (stale + 1)..m, i + 1 \in T  PROVE i \in T
  <2> DEFINE c == play[i + 1]
             d == play[i]
             q == c.steps
  <2>0. i \in 1..m /\ i \in 1..(m + 1) /\ i # m + 1
    BY <1>2
  <2>1. P(i + 1)
    BY <1>4
  <2>2. /\ c \in Played1 /\ q \in Seq(Steps) /\ Len(q) = n + (m - i)
    <3>1. Len(q) = n + (m + 1 - (i + 1)) /\ m + 1 - (i + 1) = m - i
      BY <2>0, <2>1
    <3> QED BY <2>1, <3>1 DEF Played1
  <2>3. c.text = qs[i].text
    <3>1. CASE i = m
      BY <2>1, <3>1, <1>2
    <3>2. CASE i # m
      <4>1. i + 1 \in (stale + 1)..m /\ i + 1 > stale + 1 /\ (i + 1) - 1 = i /\ i + 1 # m + 1
        BY <1>2, <3>2
      <4>2. c.text = Replayed(rs[i + 1], qs[i + 1].text)
        BY <2>1, <4>1
      <4> HIDE DEF c
      <4> QED BY <1>2, <4>1, <4>2
    <3> QED BY <3>1, <3>2
  <2>4. /\ d \in Played1 /\ d.text = Replayed(rs[i], qs[i].text)
        /\ d.steps = Append(q, rs[i])
    <3>1. d = RedoStep(c, rs[i])
      BY <1>1, <2>0 DEF PlayStep
    <3>2. /\ rs[i] \in Steps /\ qs[i] \in Past /\ Replayed(rs[i], qs[i].text) \in Text
          /\ Fits(rs[i], qs[i], Replayed(rs[i], qs[i].text))
      BY <1>2, <2>0
    <3>3. c.steps = q /\ c \in Played1
      BY <2>2
    <3> HIDE DEF c, d, q
    <3>4. /\ RedoStep(c, rs[i]) \in Played1
          /\ RedoStep(c, rs[i]).text = Replayed(rs[i], qs[i].text)
          /\ RedoStep(c, rs[i]).steps = Append(c.steps, rs[i])
      BY <2>3, <3>2, <3>3, RedoOne
    <3> QED BY <3>1, <3>3, <3>4
  <2>5. /\ Len(d.steps) = n + (m - i) + 1
        /\ \A j \in 1..(n + (m - i) + 1) : d.steps[j] = IF j <= n + (m - i) THEN q[j] ELSE rs[i]
    <3>1. rs[i] \in Steps
      BY <1>2, <2>0
    <3> HIDE DEF c, d, q
    <3> QED BY <2>2, <2>4, <3>1, AppendFields
  <2>6. \A j \in 1..n : d.steps[j] = us[j]
    <3> TAKE j \in 1..n
    <3>1. j \in 1..(n + (m - i) + 1) /\ j <= n + (m - i)
      BY <2>0
    <3>2. q[j] = us[j]
      BY <2>1
    <3> HIDE DEF d, q
    <3> QED BY <2>5, <3>1, <3>2
  <2>7. \A x \in 1..(m + 1 - i) : d.steps[n + x] = rs[m + 1 - x]
    <3> TAKE x \in 1..(m + 1 - i)
    <3>1. n + x \in 1..(n + (m - i) + 1)
      BY <2>0
    <3>2. CASE x <= m - i
      <4>1. n + x <= n + (m - i) /\ x \in 1..(m + 1 - (i + 1))
        BY <2>0, <3>2
      <4>2. q[n + x] = rs[m + 1 - x]
        BY <2>1, <4>1
      <4> HIDE DEF d, q
      <4> QED BY <2>5, <3>1, <4>1, <4>2
    <3>3. CASE x = m + 1 - i
      <4>1. ~ (n + x <= n + (m - i)) /\ m + 1 - x = i
        BY <2>0, <3>3
      <4> HIDE DEF d, q
      <4> QED BY <2>5, <3>1, <4>1
    <3>4. x <= m - i \/ x = m + 1 - i
      BY <2>0
    <3> QED BY <3>2, <3>3, <3>4
  <2>8. Len(d.steps) = n + (m + 1 - i)
    <3>1. n + (m - i) + 1 = n + (m + 1 - i)
      BY <2>0
    <3> HIDE DEF d
    <3> QED BY <2>5, <3>1
  <2> QED BY <2>0, <2>4, <2>6, <2>7, <2>8
<1>5. k \in (stale + 1)..m
  <2>1. UnitStart(rs) \in (stale + 1)..Len(rs)
    BY RedoUnit
  <2> QED BY <2>1 DEF k
<1>6. P(k) /\ \A i \in (stale + 1)..(m + 1) : P(i)
  <2> HIDE DEF T
  <2>1. stale + 1 \in 1..(m + 1)
    BY <1>2
  <2>2. \A i \in (stale + 1)..(m + 1) : i \in T
    BY <1>3, <1>4, <2>1, Downwards
  <2>3. k \in (stale + 1)..(m + 1)
    BY <1>2, <1>5
  <2>4. k \in T /\ \A i \in (stale + 1)..(m + 1) : i \in T
    BY <2>2, <2>3
  <2> QED BY <2>4 DEF T
<1> HIDE DEF b0
<1>7. k # m + 1
  BY <1>2, <1>5
<1>8. /\ play[k] \in Played1 /\ play[k].text = Replayed(rs[k], qs[k].text)
      /\ Len(play[k].steps) = n + (m + 1 - k)
      /\ \A j \in 1..n : play[k].steps[j] = us[j]
      /\ \A x \in 1..(m + 1 - k) : play[k].steps[n + x] = rs[m + 1 - x]
  BY <1>6, <1>7
<1>9. ASSUME NEW x \in 0..(m - k)
      PROVE  StepFits(TRUE, play[m + 1 - x].text, rs[m - x])
  <2> DEFINE i == m - x
             t == play[i + 1].text
  <2>1. /\ i \in (stale + 1)..m /\ i \in 1..m /\ i + 1 = m + 1 - x
        /\ i + 1 \in (stale + 1)..(m + 1)
        /\ i # m => i + 1 \in (stale + 1)..m /\ i + 1 > stale + 1 /\ (i + 1) - 1 = i
        /\ (i + 1 = m + 1 <=> i = m)
    BY <1>2, <1>5
  <2> HIDE DEF i
  <2>2. t = qs[i].text
    BY <1>2, <1>6, <2>1
  <2>3. /\ rs[i] \in Steps /\ qs[i] \in Past /\ Replayed(rs[i], qs[i].text) \in Text
        /\ Fits(rs[i], qs[i], Replayed(rs[i], qs[i].text))
    BY <1>2, <2>1
  <2>4. StepFits(TRUE, t, rs[i])
    BY <2>2, <2>3, FitsPlayed
  <2> QED BY <2>1, <2>4 DEF i
<1> QED BY <1>1, <1>8, <1>9 DEF b0, RedoPlays, n, m, k

LEMMA RestRedo ==
  ASSUME NEW txt, NEW rs, NEW qs, NEW stale, RedoInv(txt, rs, qs, stale), stale < Len(rs)
  PROVE  RedoInv(Replayed(rs[UnitStart(rs)], qs[UnitStart(rs)].text), RestOf(rs),
                 SubSeq(qs, 1, UnitStart(rs) - 1), stale)
<1> DEFINE m == Len(rs)
           k == UnitStart(rs)
           r == RestOf(rs)
           h == SubSeq(qs, 1, k - 1)
           t == Replayed(rs[k], qs[k].text)
<1>1. /\ rs \in Seq(Steps) /\ qs \in Seq(Past) /\ Len(qs) = m /\ rs # << >>
      /\ Nested(rs, "end", "begin", 0) /\ Brackets("end", "begin")
      /\ Excess(rs, stale, "end", "begin") = 0
      /\ \A j \in (stale + 1)..m :
           /\ Replayed(rs[j], qs[j].text) \in Text
           /\ Fits(rs[j], qs[j], Replayed(rs[j], qs[j].text))
           /\ j > stale + 1 =>
                /\ qs[j - 1].text = Replayed(rs[j], qs[j].text)
                /\ rs[j].kind = "begin" => qs[j - 1].revision = qs[j].revision
  BY DEF RedoInv, Brackets
<1>2. k \in (stale + 1)..m /\ m \in Nat \ {0} /\ stale \in Nat
  BY RedoUnit
<1> HIDE DEF m
<1>3. /\ r \in Seq(Steps) /\ Len(r) = k - 1 /\ Nested(r, "end", "begin", 0)
      /\ \A i \in 1..(k - 1) : r[i] = rs[i]
  BY <1>1, RestNested
<1>4. /\ h \in Seq(Past) /\ Len(h) = k - 1
      /\ \A i \in 1..(k - 1) : h[i] = qs[i]
  <2>1. k \in 1..Len(qs)
    BY <1>1, <1>2
  <2> QED BY <1>1, <2>1, FirstSteps
<1> HIDE DEF r, h, k, t
<1>5. stale \in 0..(k - 1) /\ Excess(r, stale, "end", "begin") = 0
  <2>1. stale \in 0..(k - 1) /\ \A j \in 1..stale : j \in 1..(k - 1)
    BY <1>2
  <2>2. \A j \in 1..stale : r[j].kind = rs[j].kind
    BY <2>1, <1>3
  <2>3. Excess(r, stale, "end", "begin") = Excess(rs, stale, "end", "begin")
    BY <1>2, <2>2, ExcessSame
  <2> QED BY <2>1, <2>3, <1>1
<1>6. ASSUME NEW j \in (stale + 1)..(k - 1)
      PROVE  /\ Replayed(r[j], h[j].text) \in Text
             /\ Fits(r[j], h[j], Replayed(r[j], h[j].text))
             /\ j > stale + 1 =>
                  /\ h[j - 1].text = Replayed(r[j], h[j].text)
                  /\ r[j].kind = "begin" => h[j - 1].revision = h[j].revision
  <2>1. /\ j \in (stale + 1)..m /\ j \in 1..(k - 1)
        /\ j > stale + 1 => j - 1 \in 1..(k - 1)
    BY <1>2
  <2>2. r[j] = rs[j] /\ h[j] = qs[j] /\ (j > stale + 1 => h[j - 1] = qs[j - 1])
    BY <2>1, <1>3, <1>4
  <2> QED BY <1>1, <2>1, <2>2
<1>7. ASSUME stale < k - 1  PROVE h[k - 1].text = t
  <2>1. k - 1 \in 1..(k - 1) /\ k > stale + 1
    BY <1>2, <1>7
  <2>2. qs[k - 1].text = Replayed(rs[k], qs[k].text)
    BY <1>1, <1>2, <2>1
  <2> QED BY <2>1, <2>2, <1>4 DEF t
<1>9. RedoInv(t, r, h, stale)
  BY <1>3, <1>4, <1>5, <1>6, <1>7 DEF RedoInv
<1> QED BY <1>9 DEF t, r, h, k

(* The undo steps after Redo: the unit turned around again, on top.        *)
LEMMA RedoneUndo ==
  ASSUME NEW txt, NEW rev, NEW us, NEW bs, NEW low, UndoInv(txt, rev, us, bs, 0, low),
         NEW rs, NEW qs, NEW stale, RedoInv(txt, rs, qs, stale), stale < Len(rs), NEW newRev,
         NEW w \in Seq(Steps), Len(w) = Len(us) + (Len(rs) + 1 - UnitStart(rs)),
         \A j \in 1..Len(us) : w[j] = us[j],
         \A x \in 1..(Len(rs) + 1 - UnitStart(rs)) : w[Len(us) + x] = rs[Len(rs) + 1 - x]
  PROVE  UndoInv(Replayed(rs[UnitStart(rs)], qs[UnitStart(rs)].text), newRev, w,
                 bs \o UnitOf(rs, qs), 0, low)
<1> DEFINE n == Len(us)
           m == Len(rs)
           k == UnitStart(rs)
           len == m + 1 - k
           h == UnitOf(rs, qs)
           q == bs \o h
           t == Replayed(rs[k], qs[k].text)
<1>1. /\ us \in Seq(Steps) /\ bs \in Seq(Past) /\ Len(bs) = n
      /\ Nested(us, "begin", "end", 0) /\ Brackets("begin", "end") /\ Brackets("end", "begin")
      /\ n \in Nat /\ Len(us) = n
      /\ low \in 0..n /\ (low > 0 => us[low].kind # "begin")
      /\ \A i \in (low + 1)..n :
           /\ Fits(us[i], bs[i], After(txt, bs, i))
           /\ us[i].kind = "begin" => bs[i].revision = RevisionAfter(rev, bs, i)
  BY DEF UndoInv, Brackets
<1>2. /\ rs \in Seq(Steps) /\ qs \in Seq(Past) /\ Len(qs) = m /\ Len(rs) = m
      /\ Nested(rs, "end", "begin", 0)
      /\ \A j \in (stale + 1)..m :
           /\ Fits(rs[j], qs[j], Replayed(rs[j], qs[j].text))
           /\ j > stale + 1 =>
                /\ qs[j - 1].text = Replayed(rs[j], qs[j].text)
                /\ rs[j].kind = "begin" => qs[j - 1].revision = qs[j].revision
      /\ qs[m].text = txt
  BY DEF RedoInv
<1>3. k \in (stale + 1)..m /\ m \in Nat \ {0} /\ stale \in Nat /\ rs[k].kind # "begin"
  BY RedoUnit
<1> HIDE DEF n, m
<1>4. k \in 1..m /\ m \in Nat
  BY <1>3
<1>5. /\ h \in Seq(Past) /\ Len(h) = len
      /\ \A x \in 1..len : h[x] = qs[m + 1 - x]
  BY <1>2, <1>4, UnitFields
<1> HIDE DEF h, k
<1>6. len \in 1..m /\ m + 1 - len = k
  BY <1>4
<1>7. /\ q \in Seq(Past) /\ Len(q) = n + len
      /\ \A j \in 1..n : q[j] = bs[j]
      /\ \A x \in 1..len : q[n + x] = qs[m + 1 - x]
  <2>1. /\ q \in Seq(Past) /\ Len(q) = Len(bs) + Len(h)
        /\ \A j \in 1..(Len(bs) + Len(h)) : q[j] = IF j <= Len(bs) THEN bs[j] ELSE h[j - Len(bs)]
    BY <1>1, <1>5, ConcatProperties
  <2> HIDE DEF q, len
  <2>2. \A j \in 1..n : q[j] = bs[j]
    BY <2>1, <1>1, <1>5, <1>6
  <2>3. ASSUME NEW x \in 1..len  PROVE q[n + x] = qs[m + 1 - x]
    <3>1. n + x \in 1..(n + len) /\ ~ (n + x <= n) /\ (n + x) - n = x
      BY <1>1, <1>6
    <3> QED BY <2>1, <3>1, <1>1, <1>5
  <2> QED BY <2>1, <2>2, <2>3, <1>1, <1>5
<1>8. /\ Len(w) = n + len
      /\ \A j \in 1..n : w[j] = us[j]
      /\ \A x \in 1..len : w[n + x] = rs[m + 1 - x]
  BY DEF n, m, k
<1>9. Nested(w, "begin", "end", 0)
  <2>1. Moved(rs, us, w)
    <3>1. \A x \in 1..len : w[n + x].kind = rs[m + 1 - x].kind
      BY <1>8
    <3>2. \A j \in 1..n : w[j].kind = us[j].kind
      BY <1>8
    <3>3. Len(us) = n /\ Len(rs) = m /\ len = m + 1 - UnitStart(rs)
      BY <1>1, <1>2 DEF k
    <3> QED BY <1>8, <3>1, <3>2, <3>3 DEF Moved
  <2> QED BY <2>1, <1>1, <1>2, <1>3, MovedNested
<1>10. \A x \in 1..len : m + 1 - x \in k..m /\ m + 1 - x \in (stale + 1)..m
  BY <1>3
<1> HIDE DEF q, len, t
<1>11. ASSUME NEW j \in (low + 1)..(n + len)
       PROVE  /\ Fits(w[j], q[j], After(t, q, j))
              /\ w[j].kind = "begin" => q[j].revision = RevisionAfter(newRev, q, j)
  <2>1. CASE j < n
    <3>1. j \in (low + 1)..n /\ j \in 1..n /\ j + 1 \in 1..n /\ j # n /\ j # n + len
      BY <1>1, <1>6, <2>1
    <3>2. /\ w[j] = us[j] /\ q[j] = bs[j] /\ q[j + 1] = bs[j + 1]
          /\ After(t, q, j) = q[j + 1].text /\ After(txt, bs, j) = bs[j + 1].text
          /\ RevisionAfter(newRev, q, j) = q[j + 1].revision
          /\ RevisionAfter(rev, bs, j) = bs[j + 1].revision
      BY <3>1, <1>1, <1>7, <1>8 DEF After, RevisionAfter
    <3> QED BY <3>1, <3>2, <1>1
  <2>2. CASE j = n
    <3>1. /\ j \in (low + 1)..n /\ j \in 1..n /\ j # n + len /\ 1 \in 1..len
          /\ m + 1 - 1 = m /\ n + 1 = j + 1
      BY <1>1, <1>4, <1>6, <2>2
    <3>2. /\ w[j] = us[j] /\ q[j] = bs[j] /\ q[j + 1] = qs[m]
      BY <3>1, <1>7, <1>8
    <3>3. After(t, q, j) = txt /\ After(txt, bs, j) = txt
      BY <3>1, <3>2, <2>2, <1>1, <1>2, <1>7 DEF After
    <3>4. us[n].kind # "begin"
      <4>1. n \in Nat \ {0}
        BY <1>1, <3>1
      <4> QED BY <4>1, <1>1, NestedEnds
    <3> QED BY <3>1, <3>2, <3>3, <3>4, <2>2, <1>1
  <2>3. CASE j > n
    <3> DEFINE x == j - n
               i == m + 1 - x
    <3>1. x \in 1..len /\ n + x = j /\ i = m + 1 - x
      BY <1>1, <1>6, <2>3
    <3> HIDE DEF x, i
    <3>2. i \in k..m /\ i \in (stale + 1)..m
      BY <3>1, <1>10
    <3>3. w[j] = rs[i] /\ q[j] = qs[i]
      BY <3>1, <1>7, <1>8
    <3>4. Fits(rs[i], qs[i], Replayed(rs[i], qs[i].text))
      BY <3>2, <1>2
    <3>5. CASE j = n + len
      <4>1. i = k /\ After(t, q, j) = t
        BY <3>1, <3>5, <1>1, <1>6, <1>7 DEF After
      <4> QED BY <3>3, <3>4, <4>1, <1>3 DEF t
    <3>6. CASE j # n + len
      <4>1. x \in Int /\ 1 <= x /\ x < len /\ len \in Int /\ m \in Int /\ n \in Int
        BY <3>1, <3>6, <1>1, <1>4, <1>6
      <4>2. x + 1 \in 1..len /\ n + (x + 1) = j + 1 /\ m + 1 - (x + 1) = i - 1
        BY <3>1, <4>1
      <4>3. q[j + 1] = qs[i - 1]
        BY <4>2, <1>7
      <4>4. i > stale + 1 /\ i \in 2..m
        <5>1. i - 1 \in (stale + 1)..m
          BY <4>2, <1>10
        <5> QED BY <5>1, <3>2, <1>3
      <4>5. qs[i - 1].text = Replayed(rs[i], qs[i].text)
        BY <3>2, <4>4, <1>2
      <4>6. rs[i].kind = "begin" => qs[i - 1].revision = qs[i].revision
        BY <3>2, <4>4, <1>2
      <4>7. After(t, q, j) = q[j + 1].text /\ RevisionAfter(newRev, q, j) = q[j + 1].revision
        BY <3>6, <1>7 DEF After, RevisionAfter
      <4> QED BY <3>3, <3>4, <4>3, <4>5, <4>6, <4>7
    <3> QED BY <3>5, <3>6
  <2>4. j < n \/ j = n \/ j > n
    BY <1>1
  <2> QED BY <2>1, <2>2, <2>3, <2>4
<1>12. UndoInv(t, newRev, w, q, 0, low)
  <2>1. Len(q) = Len(w)
    BY <1>7, <1>8
  <2>2. low \in 0..Len(w) /\ (low > 0 => w[low].kind # "begin")
    BY <1>1, <1>6, <1>8
  <2> QED BY <2>1, <2>2, <1>7, <1>8, <1>9, <1>11 DEF UndoInv
<1> QED BY <1>12 DEF t, q, h, k

-----------------------------------------------------------------------------
(* Edits                                                                   *)

NowPast(txt, rev) == [text |-> txt, revision |-> rev]

(* One more step on top, which leads from txt to newTxt.                   *)
LEMMA PushInv ==
  ASSUME NEW txt \in Text, NEW rev \in Nat, NEW us, NEW bs, NEW open \in Nat, NEW low,
         UndoInv(txt, rev, us, bs, open, low), NEW newTxt \in Text, NEW newRev,
         NEW step \in Steps, Fits(step, NowPast(txt, rev), newTxt),
         NEW newOpen \in Nat,
         step.kind = "begin" => newRev = rev /\ newOpen = open + 1,
         step.kind = "end" => newOpen = open - 1,
         step.kind \notin {"begin", "end"} => newOpen = open,
         step.kind = "end" /\ us # << >> => us[Len(us)].kind # "begin"
  PROVE  UndoInv(newTxt, newRev, Append(us, step), Append(bs, NowPast(txt, rev)), newOpen, low)
<1> DEFINE n == Len(us)
           h == NowPast(txt, rev)
           w == Append(us, step)
           q == Append(bs, h)
<1>1. /\ us \in Seq(Steps) /\ bs \in Seq(Past) /\ Len(bs) = n
      /\ \A i \in 1..n : Excess(us, i, "begin", "end") >= 0
      /\ Excess(us, n, "begin", "end") = open
      /\ \A i \in 2..n : ~ (us[i - 1].kind = "begin" /\ us[i].kind = "end")
      /\ Brackets("begin", "end") /\ n \in Nat
      /\ low \in 0..n /\ (low > 0 => us[low].kind # "begin")
      /\ \A i \in (low + 1)..n :
           /\ Fits(us[i], bs[i], After(txt, bs, i))
           /\ us[i].kind = "begin" => bs[i].revision = RevisionAfter(rev, bs, i)
  BY DEF UndoInv, Nested, Brackets
<1>2. h \in Past /\ h.text = txt /\ h.revision = rev
  BY DEF Past, NowPast
<1> HIDE DEF h
<1>3. /\ w \in Seq(Steps) /\ Len(w) = n + 1 /\ w[n + 1] = step
      /\ \A i \in 1..n : w[i] = us[i]
  BY <1>1, AppendFields
<1>4. /\ q \in Seq(Past) /\ Len(q) = n + 1 /\ q[n + 1] = h
      /\ \A i \in 1..n : q[i] = bs[i]
  BY <1>1, <1>2, AppendFields
<1>5. us # << >> <=> n # 0
  BY <1>1
<1> HIDE DEF n, w, q
<1>6. ASSUME NEW i \in 0..n  PROVE Excess(w, i, "begin", "end") = Excess(us, i, "begin", "end")
  <2>1. i \in Nat
    BY <1>1
  <2>2. \A j \in 1..i : j \in 1..n
    BY <1>1
  <2>3. \A j \in 1..i : w[j].kind = us[j].kind
    BY <2>2, <1>3
  <2>4. \A a, b : Excess(w, i, a, b) = Excess(us, i, a, b)
    <3> TAKE a, b
    <3> QED BY <2>1, <2>3, ExcessSame
  <2> QED BY <2>4
<1>7. Excess(w, n + 1, "begin", "end") = newOpen
  <2>1. n + 1 \in Nat \ {0} /\ (n + 1) - 1 = n /\ n \in 0..n
    BY <1>1
  <2>2. Excess(w, n, "begin", "end") = open
    BY <1>1, <1>6, <2>1
  <2>3. /\ step.kind = "begin" => Excess(w, n + 1, "begin", "end") = open + 1
        /\ step.kind = "end" => Excess(w, n + 1, "begin", "end") = open - 1
        /\ step.kind \notin {"begin", "end"} => Excess(w, n + 1, "begin", "end") = open
    <3> DEFINE a == "begin"
               b == "end"
    <3>1. Brackets(a, b)
      BY <1>1
    <3> HIDE DEF a, b
    <3>2. /\ w[n + 1].kind = a => Excess(w, n + 1, a, b) = Excess(w, (n + 1) - 1, a, b) + 1
          /\ w[n + 1].kind = b => Excess(w, n + 1, a, b) = Excess(w, (n + 1) - 1, a, b) - 1
          /\ w[n + 1].kind \notin {a, b} =>
               Excess(w, n + 1, a, b) = Excess(w, (n + 1) - 1, a, b)
      BY <2>1, <3>1, ExcessStep
    <3> QED BY <3>2, <1>3, <2>1, <2>2 DEF a, b
  <2> QED BY <2>3
<1>8. Nested(w, "begin", "end", newOpen)
  <2>1. ASSUME NEW i \in 1..(n + 1)  PROVE Excess(w, i, "begin", "end") >= 0
    <3>1. i = n + 1 \/ (i \in 1..n /\ i \in 0..n)
      BY <1>1
    <3> QED BY <3>1, <1>1, <1>6, <1>7
  <2>2. ASSUME NEW i \in 2..(n + 1)  PROVE ~ (w[i - 1].kind = "begin" /\ w[i].kind = "end")
    <3>1. CASE i = n + 1
      <4>1. i - 1 = n /\ n \in 1..n /\ n # 0
        BY <1>1, <3>1
      <4> QED BY <4>1, <3>1, <1>3, <1>5 DEF n
    <3>2. CASE i # n + 1
      <4>1. i \in 2..n /\ i \in 1..n /\ i - 1 \in 1..n
        BY <1>1, <3>2
      <4> QED BY <4>1, <1>1, <1>3
    <3> QED BY <3>1, <3>2
  <2> QED BY <2>1, <2>2, <1>3, <1>7 DEF Nested
<1>9. ASSUME NEW i \in (low + 1)..(n + 1)
      PROVE  /\ Fits(w[i], q[i], After(newTxt, q, i))
             /\ w[i].kind = "begin" => q[i].revision = RevisionAfter(newRev, q, i)
  <2>1. CASE i = n + 1
    <3>1. After(newTxt, q, i) = newTxt /\ RevisionAfter(newRev, q, i) = newRev
      BY <2>1, <1>4 DEF After, RevisionAfter
    <3> QED BY <2>1, <3>1, <1>2, <1>3, <1>4 DEF h
  <2>2. CASE i # n + 1
    <3>1. i \in (low + 1)..n /\ i \in 1..n /\ i + 1 \in 1..(n + 1) /\ i # Len(q)
      BY <1>1, <1>4, <2>2
    <3>2. After(newTxt, q, i) = After(txt, bs, i)
      <4>1. CASE i = n
        BY <3>1, <4>1, <1>1, <1>2, <1>4 DEF After
      <4>2. CASE i # n
        <5>1. i + 1 \in 1..n
          BY <3>1, <4>2, <1>1
        <5> QED BY <3>1, <4>2, <5>1, <1>1, <1>4 DEF After
      <4> QED BY <4>1, <4>2
    <3>3. RevisionAfter(newRev, q, i) = RevisionAfter(rev, bs, i)
      <4>1. CASE i = n
        BY <3>1, <4>1, <1>1, <1>2, <1>4 DEF RevisionAfter
      <4>2. CASE i # n
        <5>1. i + 1 \in 1..n
          BY <3>1, <4>2, <1>1
        <5> QED BY <3>1, <4>2, <5>1, <1>1, <1>4 DEF RevisionAfter
      <4> QED BY <4>1, <4>2
    <3> QED BY <3>1, <3>2, <3>3, <1>1, <1>3, <1>4
  <2> QED BY <2>1, <2>2
<1>10. UndoInv(newTxt, newRev, w, q, newOpen, low)
  <2>1. Len(q) = Len(w) /\ low \in 0..Len(w) /\ (low > 0 => w[low].kind # "begin")
    BY <1>1, <1>3, <1>4
  <2> QED BY <2>1, <1>3, <1>4, <1>8, <1>9 DEF UndoInv
<1> QED BY <1>10 DEF w, q, h

(* The step on top gives way to one that it was merged into.               *)
LEMMA MergeInv ==
  ASSUME NEW txt \in Text, NEW rev \in Nat, NEW us, NEW bs, NEW open, NEW low,
         UndoInv(txt, rev, us, bs, open, low), us # << >>, NEW newTxt \in Text, NEW newRev,
         NEW step \in Steps, IsTextStep(step), step.kind = us[Len(us)].kind,
         NEW newLow, newLow = low \/ newLow = Len(us),
         newLow < Len(us) => Fits(step, bs[Len(us)], newTxt)
  PROVE  UndoInv(newTxt, newRev, Append(Front(us), step), bs, open, newLow)
<1> DEFINE n == Len(us)
           f == Front(us)
           w == Append(f, step)
<1>1. /\ us \in Seq(Steps) /\ bs \in Seq(Past) /\ Len(bs) = n
      /\ Nested(us, "begin", "end", open)
      /\ n \in Nat \ {0} /\ n \in 1..n
      /\ low \in 0..n /\ (low > 0 => us[low].kind # "begin")
      /\ \A i \in (low + 1)..n :
           /\ Fits(us[i], bs[i], After(txt, bs, i))
           /\ us[i].kind = "begin" => bs[i].revision = RevisionAfter(rev, bs, i)
      /\ newLow = low \/ newLow = n
      /\ newLow < n => Fits(step, bs[n], newTxt)
  BY DEF UndoInv
<1>2. f \in Seq(Steps) /\ Len(f) = n - 1 /\ \A i \in 1..(n - 1) : f[i] = us[i]
  <2>1. f = SubSeq(us, 1, n - 1)
    BY DEF Front
  <2>2. n \in 1..Len(us)
    BY <1>1
  <2> HIDE DEF n, f
  <2> QED BY <2>1, <2>2, <1>1, FirstSteps
<1> HIDE DEF n, f
<1>3. /\ w \in Seq(Steps) /\ Len(w) = n /\ w[n] = step
      /\ \A i \in 1..(n - 1) : w[i] = us[i]
  <2>1. /\ w \in Seq(Steps) /\ Len(w) = (n - 1) + 1
        /\ \A i \in 1..((n - 1) + 1) : w[i] = IF i <= n - 1 THEN f[i] ELSE step
    BY <1>2, AppendFields
  <2>2. (n - 1) + 1 = n /\ ~ (n <= n - 1) /\ n \in 1..((n - 1) + 1)
    BY <1>1
  <2> HIDE DEF w
  <2>3. \A i \in 1..(n - 1) : i \in 1..((n - 1) + 1) /\ i <= n - 1
    BY <1>1
  <2> QED BY <2>1, <2>2, <2>3, <1>2
<1> HIDE DEF w
<1>4. \A i \in 1..n : w[i].kind = us[i].kind
  <2>1. \A i \in 1..n : i = n \/ i \in 1..(n - 1)
    BY <1>1
  <2> QED BY <2>1, <1>3 DEF n
<1>5. Nested(w, "begin", "end", open)
  <2>1. Len(us) = n /\ n \in Nat
    BY <1>1 DEF n
  <2> QED BY <2>1, <1>1, <1>3, <1>4, NestedSame
<1>6. ASSUME NEW i \in (newLow + 1)..n
      PROVE  /\ Fits(w[i], bs[i], After(newTxt, bs, i))
             /\ w[i].kind = "begin" => bs[i].revision = RevisionAfter(newRev, bs, i)
  <2>1. CASE i = n
    <3>1. After(newTxt, bs, i) = newTxt
      BY <2>1, <1>1 DEF After
    <3>2. step.kind # "begin" /\ newLow < n
      BY <1>1, <2>1 DEF IsTextStep
    <3> QED BY <2>1, <3>1, <3>2, <1>1, <1>3
  <2>2. CASE i # n
    <3>1. i \in 1..(n - 1) /\ i # Len(bs) /\ i \in (low + 1)..n
      BY <1>1, <2>2
    <3>2. /\ After(newTxt, bs, i) = After(txt, bs, i)
          /\ RevisionAfter(newRev, bs, i) = RevisionAfter(rev, bs, i)
      BY <3>1 DEF After, RevisionAfter
    <3> QED BY <3>1, <3>2, <1>1, <1>3
  <2> QED BY <2>1, <2>2
<1>7. UndoInv(newTxt, newRev, w, bs, open, newLow)
  <2>1. Len(bs) = Len(w) /\ newLow \in 0..n
    BY <1>1, <1>3
  <2>2. step.kind # "begin"
    BY DEF IsTextStep
  <2>3. newLow > 0 => w[newLow].kind # "begin"
    BY <2>1, <2>2, <1>1, <1>3
  <2> QED BY <2>1, <2>3, <1>1, <1>3, <1>5, <1>6 DEF UndoInv
<1> QED BY <1>7 DEF w, f

(* The begin step of an empty group goes.                                  *)
LEMMA PopInv ==
  ASSUME NEW txt \in Text, NEW rev \in Nat, NEW us, NEW bs, NEW open \in Nat \ {0}, NEW low,
         UndoInv(txt, rev, us, bs, open, low), us # << >>, us[Len(us)] = BeginStep
  PROVE  UndoInv(txt, rev, Front(us), Front(bs), open - 1, low)
<1> DEFINE n == Len(us)
           w == Front(us)
           q == Front(bs)
<1>1. /\ us \in Seq(Steps) /\ bs \in Seq(Past) /\ Len(bs) = n
      /\ \A i \in 1..n : Excess(us, i, "begin", "end") >= 0
      /\ Excess(us, n, "begin", "end") = open
      /\ \A i \in 2..n : ~ (us[i - 1].kind = "begin" /\ us[i].kind = "end")
      /\ n \in Nat \ {0} /\ n \in 1..n /\ Brackets("begin", "end")
      /\ low \in 0..n /\ (low > 0 => us[low].kind # "begin")
      /\ \A i \in (low + 1)..n :
           /\ Fits(us[i], bs[i], After(txt, bs, i))
           /\ us[i].kind = "begin" => bs[i].revision = RevisionAfter(rev, bs, i)
  BY DEF UndoInv, Nested, Brackets
<1>2. /\ w \in Seq(Steps) /\ Len(w) = n - 1 /\ \A i \in 1..(n - 1) : w[i] = us[i]
      /\ q \in Seq(Past) /\ Len(q) = n - 1 /\ \A i \in 1..(n - 1) : q[i] = bs[i]
  <2>1. w = SubSeq(us, 1, n - 1) /\ q = SubSeq(bs, 1, n - 1)
    BY <1>1 DEF Front
  <2>2. n \in 1..Len(us) /\ n \in 1..Len(bs)
    BY <1>1
  <2> HIDE DEF n, w, q
  <2>3. /\ w \in Seq(Steps) /\ Len(w) = n - 1 /\ \A i \in 1..(n - 1) : w[i] = us[i]
    BY <2>1, <2>2, <1>1, FirstSteps
  <2>4. q \in Seq(Past) /\ Len(q) = n - 1 /\ \A i \in 1..(n - 1) : q[i] = bs[i]
    BY <2>1, <2>2, <1>1, FirstSteps
  <2> QED BY <2>3, <2>4
<1>3. us[n] = BeginStep /\ us[n].kind = "begin" /\ ~ IsTextStep(us[n])
  BY DEF BeginStep, IsTextStep
<1> HIDE DEF n, w, q
<1>0. low \in 0..(n - 1) /\ n \in (low + 1)..n
  BY <1>1, <1>3
<1>4. bs[n].text = txt /\ bs[n].revision = rev
  <2>1. After(txt, bs, n) = txt /\ RevisionAfter(rev, bs, n) = rev
    BY <1>1 DEF After, RevisionAfter
  <2>2. Fits(us[n], bs[n], txt) /\ bs[n].revision = rev
    BY <2>1, <1>0, <1>1, <1>3
  <2> QED BY <2>2, <1>3 DEF Fits
<1>5. \A i \in 0..(n - 1) : Excess(w, i, "begin", "end") = Excess(us, i, "begin", "end")
  <2> TAKE i \in 0..(n - 1)
  <2>1. i \in Nat /\ \A j \in 1..i : w[j].kind = us[j].kind
    BY <1>1, <1>2
  <2> QED BY <2>1, ExcessSame
<1>6. Nested(w, "begin", "end", open - 1)
  <2>1. \A i \in 1..(n - 1) : i \in 1..n /\ i \in 0..(n - 1)
    BY <1>1
  <2>2. \A i \in 1..(n - 1) : Excess(w, i, "begin", "end") >= 0
    BY <2>1, <1>1, <1>5
  <2>3. Excess(w, n - 1, "begin", "end") = open - 1
    <3>1. n - 1 \in 0..(n - 1)
      BY <1>1
    <3>2. /\ Excess(us, n - 1, "begin", "end") \in Int
          /\ Excess(us, n, "begin", "end") = Excess(us, n - 1, "begin", "end") + 1
      BY <1>1, <1>3, ExcessStep
    <3>3. Excess(w, n - 1, "begin", "end") = Excess(us, n - 1, "begin", "end")
      BY <3>1, <1>5
    <3>4. Excess(us, n, "begin", "end") = open
      BY <1>1
    <3> QED BY <3>2, <3>3, <3>4
  <2>4. \A i \in 2..(n - 1) : i \in 2..n /\ i \in 1..(n - 1) /\ i - 1 \in 1..(n - 1)
    BY <1>1
  <2>5. \A i \in 2..(n - 1) : ~ (w[i - 1].kind = "begin" /\ w[i].kind = "end")
    BY <2>4, <1>1, <1>2
  <2> QED BY <2>2, <2>3, <2>5, <1>2 DEF Nested
<1>7. ASSUME NEW i \in (low + 1)..(n - 1)
      PROVE  /\ Fits(w[i], q[i], After(txt, q, i))
             /\ w[i].kind = "begin" => q[i].revision = RevisionAfter(rev, q, i)
  <2>1. i \in (low + 1)..n /\ i \in 1..(n - 1) /\ i # n /\ w[i] = us[i] /\ q[i] = bs[i]
    BY <1>0, <1>1, <1>2
  <2>2. After(txt, bs, i) = bs[i + 1].text /\ RevisionAfter(rev, bs, i) = bs[i + 1].revision
    BY <2>1, <1>1 DEF After, RevisionAfter
  <2>3. After(txt, q, i) = bs[i + 1].text /\ RevisionAfter(rev, q, i) = bs[i + 1].revision
    <3>1. CASE i = n - 1
      <4>1. i + 1 = n
        BY <1>1, <3>1
      <4> QED BY <3>1, <4>1, <1>2, <1>4 DEF After, RevisionAfter
    <3>2. CASE i # n - 1
      <4>1. i + 1 \in 1..(n - 1)
        BY <1>0, <1>1, <3>2
      <4>2. q[i + 1] = bs[i + 1] /\ i # Len(q)
        BY <3>2, <4>1, <1>2
      <4> QED BY <4>2 DEF After, RevisionAfter
    <3> QED BY <3>1, <3>2
  <2> QED BY <2>1, <2>2, <2>3, <1>1
<1>8. UndoInv(txt, rev, w, q, open - 1, low)
  <2>1. low \in 0..(n - 1) /\ (low > 0 => w[low].kind # "begin")
    BY <1>0, <1>1, <1>2
  <2> QED BY <2>1, <1>2, <1>6, <1>7 DEF UndoInv
<1> QED BY <1>8 DEF w, q

-----------------------------------------------------------------------------
(***************************************************************************)
(* What is broken or stale.  Where the checks of the code do not fail, the *)
(* steps are moved to the other stack all the same, so that groups stay    *)
(* nested; nothing is said about the text.                                 *)
(***************************************************************************)
Loose == [text : Seq(Char), revision : Nat, steps : Seq(Steps)]

(* A deletion that begins in the text.                                     *)
LEMMA CutTypes ==
  ASSUME NEW t \in Seq(Char), NEW step \in Steps, IsTextStep(step), DeletionFits(t, step)
  PROVE  /\ DeletedFrom(t, step.start, step.end) \in Seq(Char)
         /\ WithText(t, step) \in Steps /\ WithText(t, step).kind = step.kind
<1> DEFINE e == ClampedEnd(t, step.end)
           d == Slice(t, step.start, e)
<1>1. /\ step.start \in Nat /\ step.end \in Nat /\ step.revision \in Nat
      /\ step = [kind |-> step.kind, start |-> step.start, end |-> step.end,
                 revision |-> step.revision, text |-> step.text]
      /\ step.kind \in {"insert", "delete"}
  BY StepFields
<1>2. e \in 0..Len(t) /\ step.start <= e
  BY <1>1 DEF ClampedEnd, DeletionFits
<1> HIDE DEF e
<1>3. step.start \in 0..Len(t) /\ e \in step.start..Len(t)
  BY <1>1, <1>2
<1>4. Removed(t, step.start, e) \in Seq(Char)
  BY <1>3, RemovedText
<1>5. d \in Seq(Char)
  BY <1>3, SliceText
<1> HIDE DEF d
<1>6. /\ [step EXCEPT !.text = d] \in Steps /\ [step EXCEPT !.text = d].kind = step.kind
  <2>1. [step EXCEPT !.text = d]
          = [kind |-> step.kind, start |-> step.start, end |-> step.end,
             revision |-> step.revision, text |-> d]
    BY <1>1
  <2> QED BY <2>1, <1>1, <1>5, StepIntro
<1>7. WithText(t, step) = [step EXCEPT !.text = d] \/ WithText(t, step) = step
  BY DEF WithText, d, e
<1>8. DeletedFrom(t, step.start, step.end) \in Seq(Char)
  BY <1>4 DEF DeletedFrom, e
<1> QED BY <1>6, <1>7, <1>8

(* The stack of the buffer c is the one of b with a step of the kind.      *)
Receives(c, b, kind) ==
  /\ c \in Loose /\ Len(c.steps) = Len(b.steps) + 1
  /\ \A j \in 1..Len(b.steps) : c.steps[j] = b.steps[j]
  /\ c.steps[Len(b.steps) + 1].kind = kind

LEMMA StepTypes ==
  ASSUME NEW redo \in BOOLEAN, NEW step \in Steps, NEW b \in Loose,
         StepFits(redo, b.text, step)
  PROVE  Receives(PlayStep(redo, b, step), b, step.kind)
<1>1. /\ b.text \in Seq(Char) /\ b.revision \in Nat /\ b.revision + 1 \in Nat
      /\ b.steps \in Seq(Steps)
      /\ b = [text |-> b.text, revision |-> b.revision, steps |-> b.steps]
  BY DEF Loose
<1>2. ASSUME NEW t \in Seq(Char), NEW rev \in Nat, NEW y \in Steps, y.kind = step.kind
      PROVE  Receives([text |-> t, revision |-> rev, steps |-> Append(b.steps, y)], b, step.kind)
  <2> DEFINE q == Append(b.steps, y)
  <2>1. /\ q \in Seq(Steps) /\ Len(b.steps) \in Nat /\ Len(q) = Len(b.steps) + 1
        /\ \A i \in 1..(Len(b.steps) + 1) : q[i] = IF i <= Len(b.steps) THEN b.steps[i] ELSE y
    BY <1>1, AppendFields
  <2> HIDE DEF q
  <2> DEFINE m == Len(b.steps)
  <2>2. m \in Nat /\ ~ (m + 1 <= m) /\ m + 1 \in 1..(m + 1)
        /\ \A j \in 1..m : j \in 1..(m + 1) /\ j <= m
    BY <2>1
  <2>3. q[m + 1] = y /\ \A j \in 1..m : q[j] = b.steps[j]
    BY <2>1, <2>2
  <2> HIDE DEF m
  <2>4. Receives([text |-> t, revision |-> rev, steps |-> q], b, step.kind)
    BY <2>1, <2>3, <1>2 DEF Receives, Loose, m
  <2> QED BY <2>4 DEF q
<1>3. /\ IsTextStep(step) => step.text \in Seq(Char) /\ step.revision \in Nat /\ step.start \in Nat
      /\ IsTextStep(step) <=> step.kind = "insert" \/ step.kind = "delete"
  BY StepFields
<1>4. ASSUME IsTextStep(step), InsertionFits(b.text, step)
      PROVE  Inserted(b.text, step.start, step.text) \in Seq(Char)
  <2>1. step.start \in 0..Len(b.text)
    BY <1>1, <1>3, <1>4 DEF InsertionFits
  <2> QED BY <2>1, <1>1, <1>3, <1>4, InsertedText
<1>5. CASE step.kind = "insert" /\ redo
  <2>1. InsertionFits(b.text, step)
    BY <1>5 DEF StepFits
  <2>2. PlayStep(redo, b, step)
          = [text |-> Inserted(b.text, step.start, step.text), revision |-> b.revision + 1,
             steps |-> Append(b.steps, step)]
    BY <1>5 DEF PlayStep, RedoStep, RedoInsert
  <2>3. Inserted(b.text, step.start, step.text) \in Seq(Char)
    BY <2>1, <1>3, <1>4, <1>5
  <2> QED BY <2>2, <2>3, <1>1, <1>2
<1>6. CASE step.kind = "insert" /\ ~ redo
  <2>1. DeletionFits(b.text, step)
    BY <1>6 DEF StepFits
  <2>2. PlayStep(redo, b, step)
          = [text |-> DeletedFrom(b.text, step.start, step.end), revision |-> step.revision,
             steps |-> Append(b.steps, WithText(b.text, step))]
    BY <1>6 DEF PlayStep, UndoStep, UndoInsert
  <2>3. /\ DeletedFrom(b.text, step.start, step.end) \in Seq(Char)
        /\ WithText(b.text, step) \in Steps /\ WithText(b.text, step).kind = step.kind
    BY <2>1, <1>1, <1>3, <1>6, CutTypes
  <2> QED BY <2>2, <2>3, <1>2, <1>3, <1>6
<1>7. CASE step.kind = "delete" /\ redo
  <2>1. DeletionFits(b.text, step)
    BY <1>7 DEF StepFits
  <2> DEFINE rev == IF Deletes(b.text, step) THEN b.revision + 1 ELSE b.revision
  <2>2. PlayStep(redo, b, step)
          = [text |-> DeletedFrom(b.text, step.start, step.end), revision |-> rev,
             steps |-> Append(b.steps, step)]
    BY <1>7 DEF PlayStep, RedoStep, RedoDelete
  <2>3. DeletedFrom(b.text, step.start, step.end) \in Seq(Char)
    BY <2>1, <1>1, <1>3, <1>7, CutTypes
  <2>4. rev \in Nat
    BY <1>1
  <2> HIDE DEF rev
  <2> QED BY <2>2, <2>3, <2>4, <1>2
<1>8. CASE step.kind = "delete" /\ ~ redo
  <2>1. InsertionFits(b.text, step)
    BY <1>8 DEF StepFits
  <2>2. PlayStep(redo, b, step)
          = [text |-> Inserted(b.text, step.start, step.text), revision |-> step.revision,
             steps |-> Append(b.steps, step)]
    BY <1>8 DEF PlayStep, UndoStep, UndoDelete
  <2>3. Inserted(b.text, step.start, step.text) \in Seq(Char)
    BY <2>1, <1>3, <1>4, <1>8
  <2> QED BY <2>2, <2>3, <1>2, <1>3, <1>8
<1>9. CASE ~ (step.kind = "insert" \/ step.kind = "delete")
  <2>1. PlayStep(redo, b, step) = [b EXCEPT !.steps = Append(@, step)]
    BY <1>9 DEF PlayStep, RedoStep, UndoStep
  <2> DEFINE q == Append(b.steps, step)
  <2>2. PlayStep(redo, b, step) = [b EXCEPT !.steps = q]
    BY <2>1
  <2> HIDE DEF q
  <2>3. PlayStep(redo, b, step) = [text |-> b.text, revision |-> b.revision, steps |-> q]
    BY <2>2, <1>1
  <2> QED BY <2>3, <1>1, <1>2 DEF q
<1> QED BY <1>5, <1>6, <1>7, <1>8, <1>9

(* The unit on top of s is played and no check fails: it is turned around, *)
(* on top of the other stack.                                              *)
LEMMA PlayedTypes ==
  ASSUME NEW redo \in BOOLEAN, NEW s \in Seq(Steps), s # << >>, NEW a, NEW c, Brackets(a, c),
         Nested(s, a, c, 0), NEW b \in Loose, Nested(b.steps, c, a, 0),
         ~ CheckFails(redo, b, s)
  PROVE  /\ Played(redo, b, s) \in Loose
         /\ Len(Played(redo, b, s).steps) = Len(b.steps) + (Len(s) + 1 - UnitStart(s))
         /\ Nested(Played(redo, b, s).steps, c, a, 0)
<1> DEFINE n == Len(s)
           k == UnitStart(s)
           m == Len(b.steps)
           p == Played(redo, b, s)
<1>1. /\ n \in Nat \ {0} /\ Len(s) = n /\ \A i \in 1..n : s[i] \in Steps
      /\ b.steps \in Seq(Steps) /\ m \in Nat /\ Len(b.steps) = m
  BY DEF Loose
<1> HIDE DEF n, m
<1>2. k \in 1..n
  BY <1>1, UnitStartFacts
<1>3. PICK play : PlayedBy(play, redo, b, s)
  BY <1>1, PlayedSteps
<1>4. /\ play[n + 1] = b /\ p = play[k]
      /\ \A i \in 1..n : play[i] = PlayStep(redo, play[i + 1], s[i])
      /\ \A x \in 0..(n - k) : StepFits(redo, play[n + 1 - x].text, s[n - x])
  <2>1. Len(s) = n
    BY <1>1
  <2> QED BY <2>1, <1>3 DEF PlayedBy
<1> HIDE DEF k, p
<1> DEFINE Good(x) == /\ play[x] \in Loose /\ Len(play[x].steps) = m + (n + 1 - x)
                      /\ \A j \in 1..m : play[x].steps[j] = b.steps[j]
                      /\ \A y \in 1..(n + 1 - x) : play[x].steps[m + y].kind = s[n + 1 - y].kind
           T == {x \in 1..(n + 1) : Good(x)}
<1>5. n + 1 \in T
  <2>1. n + 1 \in 1..(n + 1) /\ m + (n + 1 - (n + 1)) = m
        /\ \A y \in 1..(n + 1 - (n + 1)) : FALSE
    BY <1>1
  <2>2. Good(n + 1)
    BY <2>1, <1>1, <1>4
  <2> HIDE DEF Good
  <2> QED BY <2>1, <2>2
<1>6. ASSUME NEW i \in k..n, i + 1 \in T  PROVE i \in T
  <2> DEFINE f == play[i + 1]
             g == play[i]
             l == n - i
  <2>1. /\ i \in 1..n /\ i \in 1..(n + 1) /\ l \in 0..(n - k) /\ l \in Nat /\ n + 1 - l = i + 1
        /\ n - l = i /\ n + 1 - i = l + 1 /\ n + 1 - (i + 1) = l
    BY <1>1, <1>2
  <2>2. /\ f \in Loose /\ Len(f.steps) = m + l
        /\ \A j \in 1..m : f.steps[j] = b.steps[j]
        /\ \A y \in 1..l : f.steps[m + y].kind = s[n + 1 - y].kind
    BY <1>6, <2>1
  <2>3. StepFits(redo, f.text, s[i]) /\ g = PlayStep(redo, f, s[i])
    BY <2>1, <1>4
  <2> HIDE DEF f, g, l
  <2>4. Receives(g, f, s[i].kind)
    BY <2>1, <2>2, <2>3, <1>1, StepTypes
  <2>5. /\ g \in Loose /\ Len(g.steps) = (m + l) + 1
        /\ \A j \in 1..(m + l) : g.steps[j] = f.steps[j]
        /\ g.steps[(m + l) + 1].kind = s[i].kind
    BY <2>2, <2>4 DEF Receives
  <2>6. Len(g.steps) = m + (l + 1)
    BY <2>1, <2>5, <1>1
  <2>7. \A j \in 1..m : g.steps[j] = b.steps[j]
    <3>1. \A j \in 1..m : j \in 1..(m + l)
      BY <2>1, <1>1
    <3> QED BY <3>1, <2>2, <2>5
  <2>8. ASSUME NEW y \in 1..(l + 1)  PROVE g.steps[m + y].kind = s[n + 1 - y].kind
    <3>1. CASE y = l + 1
      <4>1. m + y = (m + l) + 1 /\ n + 1 - y = i
        BY <3>1, <2>1, <1>1
      <4> QED BY <4>1, <2>5
    <3>2. CASE y # l + 1
      <4>1. y \in 1..l /\ m + y \in 1..(m + l)
        BY <3>2, <2>1, <1>1
      <4> QED BY <4>1, <2>2, <2>5
    <3> QED BY <3>1, <3>2
  <2>9. Good(i)
    BY <2>1, <2>5, <2>6, <2>7, <2>8 DEF g
  <2> HIDE DEF Good
  <2> QED BY <2>1, <2>9
<1>7. k \in T
  <2> HIDE DEF T
  <2>1. n \in Nat /\ k \in 1..(n + 1) /\ k \in k..(n + 1)
    BY <1>1, <1>2
  <2>2. \A i \in k..(n + 1) : i \in T
    BY <2>1, <1>5, <1>6, Downwards
  <2> QED BY <2>1, <2>2
<1>8. Good(k)
  <2> HIDE DEF Good
  <2> QED BY <1>7
<1>9. /\ p \in Loose /\ Len(p.steps) = m + (n + 1 - k)
      /\ \A j \in 1..m : p.steps[j] = b.steps[j]
      /\ \A y \in 1..(n + 1 - k) : p.steps[m + y].kind = s[n + 1 - y].kind
  BY <1>4, <1>8
<1> HIDE DEF T, Good
<1> DEFINE w == p.steps
<1> HIDE DEF w
<1>10. Moved(s, b.steps, w)
  BY <1>1, <1>9 DEF Moved, k, w
<1>11. Nested(w, c, a, 0)
  BY <1>1, <1>10, MovedNested
<1> QED BY <1>1, <1>9, <1>11 DEF p, w, k, n, m

(* All steps of a stack are broken, or stale.                              *)
LEMMA BrokenInv ==
  ASSUME NEW us \in Seq(Steps), NEW bs \in Seq(Past), Len(bs) = Len(us),
         Nested(us, "begin", "end", 0), NEW txt, NEW rev
  PROVE  UndoInv(txt, rev, us, bs, 0, Len(us))
<1>1. Len(us) \in Nat /\ Len(us) \in 0..Len(us) /\ \A i \in (Len(us) + 1)..Len(us) : FALSE
  OBVIOUS
<1>2. ASSUME Len(us) > 0  PROVE us[Len(us)].kind # "begin"
  <2>1. Len(us) \in Nat \ {0} /\ Brackets("begin", "end")
    BY <1>1, <1>2 DEF Brackets
  <2> QED BY <2>1, NestedEnds
<1> QED BY <1>1, <1>2 DEF UndoInv

LEMMA StaleInv ==
  ASSUME NEW rs \in Seq(Steps), NEW qs \in Seq(Past), Len(qs) = Len(rs),
         Nested(rs, "end", "begin", 0), NEW txt
  PROVE  RedoInv(txt, rs, qs, Len(rs))
<1>1. Len(rs) \in Nat
  OBVIOUS
<1>2. Len(rs) \in 0..Len(rs) /\ ~ (Len(rs) < Len(rs))
      /\ \A j \in (Len(rs) + 1)..Len(rs) : FALSE
  BY <1>1
<1>3. Excess(rs, Len(rs), "end", "begin") = 0
  BY DEF Nested
<1> QED BY <1>2, <1>3 DEF RedoInv

(* The history when the unit of s goes to the other stack.                 *)
LEMMA HistoryMoved ==
  ASSUME NEW S, NEW s, NEW n \in Nat, Len(s) = n, NEW h \in Seq(S), Len(h) = n,
         UnitStart(s) \in 1..n, NEW q \in Seq(S)
  PROVE  /\ q \o UnitOf(s, h) \in Seq(S)
         /\ Len(q \o UnitOf(s, h)) = Len(q) + (n + 1 - UnitStart(s))
         /\ SubSeq(h, 1, UnitStart(s) - 1) \in Seq(S)
         /\ Len(SubSeq(h, 1, UnitStart(s) - 1)) = UnitStart(s) - 1
<1>1. UnitOf(s, h) \in Seq(S) /\ Len(UnitOf(s, h)) = n + 1 - UnitStart(s)
  BY UnitFields
<1>2. /\ SubSeq(h, 1, UnitStart(s) - 1) \in Seq(S)
      /\ Len(SubSeq(h, 1, UnitStart(s) - 1)) = UnitStart(s) - 1
  BY FirstSteps
<1> DEFINE u == UnitOf(s, h)
<1> HIDE DEF u
<1>3. q \o u \in Seq(S) /\ Len(q \o u) = Len(q) + Len(u)
  BY <1>1, ConcatProperties DEF u
<1> QED BY <1>1, <1>2, <1>3 DEF u

-----------------------------------------------------------------------------
(* Merging                                                                 *)

(* An insertion behind the one on top, and a deletion next to the one on   *)
(* top: the merged step fits what was before both.                         *)
LEMMA InsertMerged ==
  ASSUME NEW txt \in Text, NEW h \in Past, NEW last \in Steps, last.kind = "insert",
         Fits(last, h, txt), NEW s \in Seq(Char), NEW p \in 0..Len(txt), last.end = p
  PROVE  LET step == [last EXCEPT !.end = p + Len(s)]
         IN  /\ step \in Steps /\ step.kind = "insert" /\ IsTextStep(step)
             /\ Fits(step, h, Inserted(txt, p, s))
<1> DEFINE step == [last EXCEPT !.end = p + Len(s)]
           a == last.start
           e == p + Len(s)
<1>1. /\ a \in Nat /\ last.revision \in Nat /\ last.text \in Seq(Char) /\ IsTextStep(last)
      /\ last = [kind |-> last.kind, start |-> a, end |-> last.end,
                 revision |-> last.revision, text |-> last.text]
  BY StepFields
<1>2. /\ a < p /\ last.revision = h.revision /\ h.text = Removed(txt, a, p)
      /\ txt \in Seq(Char) /\ p \in Nat /\ Len(s) \in Nat /\ Len(txt) \in Nat /\ p <= Len(txt)
  BY <1>1 DEF Fits, Text
<1>3. a \in 0..p /\ e \in Nat /\ a < e
  BY <1>1, <1>2
<1>4. /\ Removed(Inserted(txt, p, s), a, e) = h.text
      /\ e <= Len(Inserted(txt, p, s))
  <2>1. Removed(Inserted(txt, p, s), a, e) = Removed(txt, a, p)
    BY <1>2, <1>3, InsertUndone
  <2>2. Len(Inserted(txt, p, s)) = Len(txt) + Len(s)
    BY <1>2, InsertedText
  <2> QED BY <2>1, <2>2, <1>2
<1>5. step = [kind |-> "insert", start |-> a, end |-> e,
              revision |-> last.revision, text |-> last.text]
  BY <1>1
<1> HIDE DEF step, e, a
<1>6. /\ step \in Steps /\ IsTextStep(step) /\ step.kind = "insert" /\ step.start = a
      /\ step.end = e /\ step.revision = last.revision
  BY <1>1, <1>3, <1>5, StepIntro
<1>7. Fits(step, h, Inserted(txt, p, s))
  BY <1>2, <1>3, <1>4, <1>6 DEF Fits
<1> QED BY <1>6, <1>7 DEF step, e

LEMMA DeleteMerged ==
  ASSUME NEW txt \in Text, NEW h \in Past, NEW last \in Steps, last.kind = "delete",
         Fits(last, h, txt), NEW start \in 0..Len(txt), NEW end \in 0..Len(txt), start < end,
         NEW rev,
         NEW step \in DeleteTryMerge(last, DeleteStep(rev, start, end, Slice(txt, start, end)))
  PROVE  /\ step \in Steps /\ step.kind = "delete" /\ IsTextStep(step)
         /\ Fits(step, h, Removed(txt, start, end))
<1> DEFINE d == Slice(txt, start, end)
           new == DeleteStep(rev, start, end, d)
           a == last.start
           e == last.end
           old == h.text
<1>1. /\ a \in Nat /\ e \in Nat /\ last.revision \in Nat /\ last.text \in Seq(Char)
      /\ IsTextStep(last)
      /\ last = [kind |-> last.kind, start |-> a, end |-> e,
                 revision |-> last.revision, text |-> last.text]
  BY StepFields
<1>2. /\ a < e /\ e <= Len(old) /\ last.revision = h.revision
      /\ txt = Removed(old, a, e) /\ last.text = Slice(old, a, e)
      /\ txt \in Seq(Char) /\ old \in Seq(Char) /\ Len(txt) \in Nat /\ Len(old) \in Nat
  BY <1>1 DEF Fits, Text, Past
<1>3. a \in 0..Len(old) /\ e \in a..Len(old) /\ Len(txt) = Len(old) - (e - a)
  <2>1. a \in 0..Len(old) /\ e \in a..Len(old)
    BY <1>1, <1>2
  <2> QED BY <2>1, <1>2, RemovedText
<1>4. start \in Nat /\ end \in Nat /\ start <= Len(txt) /\ end <= Len(txt)
  BY <1>2
<1>5. d \in Seq(Char)
  <2>1. end \in start..Len(txt)
    BY <1>2, <1>4
  <2> QED BY <2>1, <1>2, SliceText
<1>6. new.start = start /\ new.end = end /\ new.text = d
  BY DEF DeleteStep
<1> DEFINE r == last.revision
           l == last.text
<1>6a. last = [kind |-> "delete", start |-> a, end |-> e, revision |-> r, text |-> l]
  BY <1>1
<1> HIDE DEF d, new, a, e, old, r, l
<1>7. \/ /\ a = end
         /\ step = [last EXCEPT !.text = d \o @, !.start = start]
      \/ /\ a = start
         /\ step = [last EXCEPT !.text = @ \o d, !.end = @ + (end - start)]
  <2>1. step \in DeleteTryMerge(last, new)
    BY DEF new, d
  <2> QED BY <2>1, <1>6 DEF DeleteTryMerge, a
<1>8. CASE a = end /\ step = [last EXCEPT !.text = d \o @, !.start = start]
  <2>1. start \in 0..Len(old) /\ a \in start..Len(old) /\ e \in a..Len(old) /\ start < e
        /\ start <= e
    BY <1>1, <1>2, <1>3, <1>4, <1>8
  <2>2. /\ Removed(txt, start, end) = Removed(old, start, e)
        /\ d \o last.text = Slice(old, start, e)
    <3>1. /\ Removed(Removed(old, a, e), start, a) = Removed(old, start, e)
          /\ Slice(Removed(old, a, e), start, a) \o Slice(old, a, e) = Slice(old, start, e)
      BY <2>1, <1>2, RemovedInFront
    <3>2. d = Slice(Removed(old, a, e), start, a)
      BY <1>2, <1>8 DEF d
    <3> QED BY <3>1, <3>2, <1>2, <1>8
  <2>3. step = [kind |-> "delete", start |-> start, end |-> e, revision |-> r,
                text |-> d \o last.text]
    <3> DEFINE x == d \o last.text
    <3>1. step = [last EXCEPT !.text = x, !.start = start]
      BY <1>8
    <3> HIDE DEF x
    <3>2. step = [kind |-> "delete", start |-> start, end |-> e, revision |-> r,
                  text |-> x]
      BY <1>6a, <3>1, StepChanged
    <3> QED BY <3>2 DEF x
  <2>4. d \o last.text \in Seq(Char)
    BY <1>1, <1>5
  <2>5. /\ step \in Steps /\ IsTextStep(step) /\ step.kind = "delete" /\ step.start = start
        /\ step.end = e /\ step.revision = r /\ step.text = d \o last.text
    <3> DEFINE x == d \o last.text
    <3>1. /\ step = [kind |-> "delete", start |-> start, end |-> e, revision |-> r, text |-> x]
          /\ x \in Seq(Char) /\ start \in Nat /\ e \in Nat /\ r \in Nat
      BY <1>1, <1>4, <2>3, <2>4 DEF r
    <3> HIDE DEF x
    <3>2. /\ step \in Steps /\ IsTextStep(step) /\ step.kind = "delete" /\ step.start = start
          /\ step.end = e /\ step.revision = r /\ step.text = x
      BY <3>1, StepIntro
    <3> QED BY <3>2 DEF x
  <2> QED BY <2>1, <2>2, <2>5, <1>2 DEF Fits, old, r
<1>9. CASE a = start /\ step = [last EXCEPT !.text = @ \o d, !.end = @ + (end - start)]
  <2> DEFINE z == e + (end - start)
  <2>1. z \in e..Len(old) /\ z \in Nat /\ a < z /\ a + (z - e) = end /\ z <= Len(old)
    BY <1>1, <1>2, <1>3, <1>4, <1>9
  <2>2. step = [kind |-> "delete", start |-> a, end |-> z, revision |-> r,
                text |-> last.text \o d]
    <3> DEFINE x == last.text \o d
    <3>1. step = [last EXCEPT !.text = x, !.end = z]
      BY <1>9 DEF e
    <3> HIDE DEF x, z
    <3>2. step = [kind |-> "delete", start |-> a, end |-> z, revision |-> r,
                  text |-> x]
      BY <1>6a, <3>1, StepChanged
    <3> QED BY <3>2 DEF x
  <2> HIDE DEF z
  <2>3. /\ Removed(Removed(old, a, e), a, a + (z - e)) = Removed(old, a, z)
        /\ Slice(old, a, e) \o Slice(Removed(old, a, e), a, a + (z - e)) = Slice(old, a, z)
    BY <2>1, <1>2, <1>3, RemovedBehind
  <2>4. /\ Removed(txt, start, end) = Removed(old, a, z)
        /\ last.text \o d = Slice(old, a, z)
    BY <2>1, <2>3, <1>2, <1>9 DEF d
  <2>5. last.text \o d \in Seq(Char)
    BY <1>1, <1>5
  <2>6. /\ step \in Steps /\ IsTextStep(step) /\ step.kind = "delete" /\ step.start = a
        /\ step.end = z /\ step.revision = r /\ step.text = last.text \o d
    <3> DEFINE x == last.text \o d
    <3>1. /\ step = [kind |-> "delete", start |-> a, end |-> z, revision |-> r, text |-> x]
          /\ x \in Seq(Char) /\ a \in Nat /\ z \in Nat /\ r \in Nat
      BY <1>1, <2>1, <2>2, <2>5 DEF r
    <3> HIDE DEF x
    <3>2. /\ step \in Steps /\ IsTextStep(step) /\ step.kind = "delete" /\ step.start = a
          /\ step.end = z /\ step.revision = r /\ step.text = x
      BY <3>1, StepIntro
    <3> QED BY <3>2 DEF x
  <2> QED BY <2>1, <2>4, <2>6, <1>2 DEF Fits, old, r
<1> QED BY <1>7, <1>8, <1>9

(* A merged step, whatever became of the text of the one on top.           *)
LEMMA MergeTypes ==
  ASSUME NEW t, NEW last \in Steps, NEW new \in Steps, IsTextStep(new), new.start < new.end,
         NEW step \in TryMerge(t, last, new)
  PROVE  step \in Steps /\ IsTextStep(step) /\ step.kind = last.kind
<1> DEFINE kind == last.kind
           a == last.start
           e == last.end
           r == last.revision
           l == last.text
           d == new.text
           z == e + (new.end - new.start)
<1>1. last.kind = new.kind
  BY DEF TryMerge
<1>2. /\ new.start \in Nat /\ new.end \in Nat /\ d \in Seq(Char)
      /\ kind \in {"insert", "delete"}
      /\ a \in Nat /\ e \in Nat /\ r \in Nat /\ l \in Seq(Char)
      /\ last = [kind |-> kind, start |-> a, end |-> e, revision |-> r, text |-> l]
  BY <1>1, StepFields DEF IsTextStep
<1>3. z \in Nat /\ d \o l \in Seq(Char) /\ l \o d \in Seq(Char)
  BY <1>2
<1>4. \/ step = [last EXCEPT !.end = new.end]
      \/ step = [last EXCEPT !.start = new.start]
      \/ step = [last EXCEPT !.text = d \o l, !.start = new.start]
      \/ step = [last EXCEPT !.text = l \o d, !.end = z]
  BY DEF TryMerge, InsertTryMerge, DeleteTryMerge
<1> DEFINE dl == d \o l
           ld == l \o d
<1> HIDE DEF kind, a, e, r, l, d, z, dl, ld
<1>5. \/ step = [kind |-> kind, start |-> a, end |-> new.end, revision |-> r, text |-> l]
      \/ step = [kind |-> kind, start |-> new.start, end |-> e, revision |-> r, text |-> l]
      \/ step = [kind |-> kind, start |-> new.start, end |-> e, revision |-> r, text |-> dl]
      \/ step = [kind |-> kind, start |-> a, end |-> z, revision |-> r, text |-> ld]
  <2>1. CASE step = [last EXCEPT !.end = new.end]
    BY <2>1, <1>2
  <2>2. CASE step = [last EXCEPT !.start = new.start]
    BY <2>2, <1>2
  <2>3. CASE step = [last EXCEPT !.text = dl, !.start = new.start]
    BY <2>3, <1>2, StepChanged
  <2>4. CASE step = [last EXCEPT !.text = ld, !.end = z]
    BY <2>4, <1>2, StepChanged
  <2> QED BY <1>4, <2>1, <2>2, <2>3, <2>4 DEF dl, ld
<1>6. dl \in Seq(Char) /\ ld \in Seq(Char)
  BY <1>3 DEF dl, ld
<1>7. step \in Steps /\ IsTextStep(step) /\ step.kind = kind
  BY <1>2, <1>3, <1>5, <1>6, StepIntro
<1> QED BY <1>7 DEF kind

-----------------------------------------------------------------------------
(* The invariant of the specification and its steps                        *)

StackInv ==
  /\ text \in Text /\ revision \in Nat /\ openGroups \in Nat /\ edits \in 0..MaxEdits
  /\ UndoInv(text, revision, undoSteps, before, openGroups, brokenSteps)
  /\ RedoInv(text, redoSteps, beforeRedo, staleSteps)

LEMMA NestedNothing ==
  ASSUME NEW a, NEW b
  PROVE  Nested(<< >>, a, b, 0) /\ Excess(<< >>, 0, a, b) = 0
<1>1. Excess(<< >>, 0, a, b) = 0
  BY ExcessType
<1> QED BY <1>1 DEF Nested

LEMMA NothingInv ==
  ASSUME NEW txt, NEW rev
  PROVE  UndoInv(txt, rev, << >>, << >>, 0, 0) /\ RedoInv(txt, << >>, << >>, 0)
<1>1. /\ Nested(<< >>, "begin", "end", 0) /\ Nested(<< >>, "end", "begin", 0)
      /\ Excess(<< >>, 0, "end", "begin") = 0
  BY NestedNothing
<1>2. << >> \in Seq(Steps) /\ << >> \in Seq(Past) /\ Len(<< >>) = 0
  OBVIOUS
<1> QED BY <1>1, <1>2 DEF UndoInv, RedoInv

LEMMA InitInv == Init => StackInv
<1> SUFFICES ASSUME Init  PROVE StackInv
  OBVIOUS
<1>1. text \in Text /\ revision \in Nat /\ openGroups \in Nat /\ edits \in 0..MaxEdits
  BY TextsAssumption, BoundsAssumption DEF Init, Text
<1> QED BY <1>1, NothingInv DEF Init, StackInv

(* An edit, given that its step fits and that it fits when it is merged,   *)
(* unless it is broken then.                                               *)
LEMMA RecordInv ==
  ASSUME StackInv, NEW t, NEW new \in Steps, IsTextStep(new), new.start < new.end,
         Record(t, new), text' \in Text, Fits(new, NowPast(text, revision), text'),
         NEW low, \/ low = brokenSteps
                  \/ low = Len(undoSteps) /\ Merges(t, undoSteps, new) # {},
         undoSteps # << >> =>
           \A step \in TryMerge(t, Last(undoSteps), new) :
             low < Len(undoSteps) => Fits(step, before[Len(undoSteps)], text')
  PROVE  UndoInv(text', revision', undoSteps', before', openGroups, low)
<1>1. /\ text \in Text /\ revision \in Nat /\ openGroups \in Nat
      /\ UndoInv(text, revision, undoSteps, before, openGroups, brokenSteps)
      /\ undoSteps \in Seq(Steps)
  BY DEF StackInv, UndoInv
<1> DEFINE merged == Merges(t, undoSteps, new)
<1>2. CASE merged # {}
  <2> DEFINE step == CHOOSE s \in merged : TRUE
  <2>1. step \in merged /\ undoSteps # << >>
    BY <1>2 DEF Merges
  <2>2. step \in TryMerge(t, Last(undoSteps), new) /\ Last(undoSteps) = undoSteps[Len(undoSteps)]
    BY <2>1 DEF Merges, Last
  <2>3. undoSteps' = Append(Front(undoSteps), step) /\ before' = before
    BY <1>2 DEF Record
  <2> HIDE DEF step, merged
  <2>4. undoSteps[Len(undoSteps)] \in Steps
    BY <1>1, <2>1
  <2>5. step \in Steps /\ IsTextStep(step) /\ step.kind = undoSteps[Len(undoSteps)].kind
    BY <2>2, <2>4, MergeTypes
  <2>6. low < Len(undoSteps) => Fits(step, before[Len(undoSteps)], text')
    BY <2>1, <2>2
  <2>7. low = brokenSteps \/ low = Len(undoSteps)
    OBVIOUS
  <2>8. UndoInv(text', revision', Append(Front(undoSteps), step), before, openGroups, low)
    BY <1>1, <2>1, <2>5, <2>6, <2>7, MergeInv
  <2> QED BY <2>3, <2>8
<1>3. CASE merged = {}
  <2>1. undoSteps' = Append(undoSteps, new) /\ before' = Append(before, NowPast(text, revision))
    BY <1>3 DEF Record, NowPast
  <2>2. new.kind # "begin" /\ new.kind # "end"
    BY DEF IsTextStep
  <2>3. low = brokenSteps
    BY <1>3
  <2>4. UndoInv(text', revision', Append(undoSteps, new), Append(before, NowPast(text, revision)),
                openGroups, low)
    BY <1>1, <2>2, <2>3, PushInv
  <2> QED BY <2>1, <2>4
<1> QED BY <1>2, <1>3

LEMMA EditedInv ==
  ASSUME StackInv, Edited, edits < MaxEdits, text' \in Text,
         UndoInv(text', revision', undoSteps', before', openGroups, brokenSteps')
  PROVE  StackInv'
<1>1. revision' \in Nat /\ openGroups' \in Nat /\ edits' \in 0..MaxEdits
  BY BoundsAssumption DEF StackInv, Edited
<1>2. RedoInv(text', redoSteps, beforeRedo, Len(redoSteps))
  BY StaleInv DEF StackInv, RedoInv
<1>3. /\ openGroups' = openGroups /\ redoSteps' = redoSteps /\ beforeRedo' = beforeRedo
      /\ staleSteps' = Len(redoSteps)
  BY DEF Edited
<1>4. RedoInv(text', redoSteps', beforeRedo', staleSteps')
  BY <1>2, <1>3
<1>5. UndoInv(text', revision', undoSteps', before', openGroups', brokenSteps')
  BY <1>3
<1> QED BY <1>1, <1>4, <1>5 DEF StackInv

(* The step on top of the undo steps.                                      *)
LEMMA TopStep ==
  ASSUME StackInv, undoSteps # << >>
  PROVE  /\ Last(undoSteps) = undoSteps[Len(undoSteps)] /\ Last(undoSteps) \in Steps
         /\ before[Len(undoSteps)] \in Past
         /\ brokenSteps < Len(undoSteps) =>
              Fits(Last(undoSteps), before[Len(undoSteps)], text)
         /\ brokenSteps \in 0..Len(undoSteps)
<1> DEFINE n == Len(undoSteps)
<1>1. /\ undoSteps \in Seq(Steps) /\ before \in Seq(Past) /\ Len(before) = n
      /\ brokenSteps \in 0..n
      /\ \A i \in (brokenSteps + 1)..n : Fits(undoSteps[i], before[i], After(text, before, i))
  BY DEF StackInv, UndoInv
<1>2. n \in 1..n /\ (brokenSteps < n => n \in (brokenSteps + 1)..n)
  BY <1>1
<1>3. After(text, before, n) = text
  BY <1>1 DEF After
<1>4. Last(undoSteps) = undoSteps[n]
  BY DEF Last
<1>5. undoSteps[n] \in Steps /\ before[n] \in Past
  BY <1>1, <1>2
<1> QED BY <1>1, <1>2, <1>3, <1>4, <1>5

LEMMA InsertBeforeInv ==
  ASSUME StackInv, NEW p \in 0..Len(text), NEW s \in Texts, InsertBefore(p, s)
  PROVE  StackInv'
<1> DEFINE after == Inserted(text, p, s)
           end == p + Len(s)
           new == InsertStep(revision, p, end)
<1>1. text \in Text /\ text \in Seq(Char) /\ revision \in Nat
  BY DEF StackInv, Text
<1>2. s \in Seq(Char) /\ Len(s) \in Nat \ {0}
  BY TextsAssumption
<1>3. /\ edits < MaxEdits /\ Len(after) <= MaxLength
      /\ text' = after /\ Record(after, new) /\ Edited
      /\ brokenSteps' = IF FrontMerges(after, new) THEN Len(undoSteps) ELSE brokenSteps
  BY DEF InsertBefore
<1>4. after \in Seq(Char) /\ Len(after) = Len(text) + Len(s)
  BY <1>1, <1>2, InsertedText
<1>5. p \in Nat /\ p <= Len(text) /\ Len(text) \in Nat /\ p \in 0..p
  BY <1>1
<1>6. end \in Nat /\ p < end /\ end <= Len(after)
  BY <1>2, <1>4, <1>5
<1>7. /\ new \in Steps /\ IsTextStep(new) /\ new.kind = "insert" /\ new.start = p
      /\ new.end = end /\ new.revision = revision
  <2>1. << >> \in Seq(Char)
    OBVIOUS
  <2> HIDE DEF end
  <2> QED BY <2>1, <1>1, <1>5, <1>6, StepIntro DEF InsertStep
<1>8. Removed(after, p, end) = text
  <2>1. Removed(after, p, end) = Removed(text, p, p)
    BY <1>1, <1>2, <1>5, InsertUndone
  <2>2. Removed(text, p, p) = text
    BY <1>1, NothingRemoved
  <2> QED BY <2>1, <2>2
<1> HIDE DEF after, new
<1>9. after \in Text
  BY <1>3, <1>4 DEF Text
<1>10. Fits(new, NowPast(text, revision), after)
  BY <1>6, <1>7, <1>8 DEF Fits, NowPast
<1>11. ASSUME undoSteps # << >>, NEW step \in TryMerge(after, Last(undoSteps), new),
              brokenSteps' < Len(undoSteps)
       PROVE  Fits(step, before[Len(undoSteps)], after)
  <2> DEFINE last == Last(undoSteps)
  <2>1. /\ last \in Steps /\ before[Len(undoSteps)] \in Past
        /\ brokenSteps < Len(undoSteps) => Fits(last, before[Len(undoSteps)], text)
        /\ Len(undoSteps) \in Nat
    <3>1. undoSteps \in Seq(Steps)
      BY DEF StackInv, UndoInv
    <3> QED BY <3>1, <1>11, TopStep
  <2>2. ~ FrontMerges(after, new) /\ brokenSteps' = brokenSteps
    BY <2>1, <1>3, <1>11
  <2>3. last.kind = "insert" /\ step \in InsertTryMerge(after, last, new)
    BY <1>7, <1>11 DEF TryMerge
  <2>4. ~ InsertPrecedes(after, last, new)
    BY <1>11, <2>2, <2>3 DEF FrontMerges
  <2>5. InsertFollows(after, last, new) /\ step = [last EXCEPT !.end = new.end]
    BY <2>3, <2>4 DEF InsertTryMerge
  <2>6. last.end = p /\ step = [last EXCEPT !.end = p + Len(s)]
    BY <2>5, <1>7 DEF InsertFollows
  <2>7. Fits(last, before[Len(undoSteps)], text)
    BY <2>1, <2>2, <1>11
  <2> DEFINE h == before[Len(undoSteps)]
  <2>8. /\ h \in Past /\ last \in Steps /\ last.kind = "insert" /\ Fits(last, h, text)
        /\ last.end = p /\ s \in Seq(Char)
    BY <2>1, <2>3, <2>6, <2>7, <1>2
  <2> HIDE DEF h, last
  <2>9. Fits(step, h, Inserted(text, p, s))
    BY <1>1, <2>6, <2>8, InsertMerged
  <2> QED BY <2>9 DEF after, h
<1>12. FrontMerges(after, new) => Merges(after, undoSteps, new) # {}
  <2> SUFFICES ASSUME FrontMerges(after, new)  PROVE Merges(after, undoSteps, new) # {}
    OBVIOUS
  <2>1. /\ undoSteps # << >> /\ Last(undoSteps).kind = new.kind
        /\ InsertPrecedes(after, Last(undoSteps), new)
    BY <1>7 DEF FrontMerges
  <2>2. ~ InsertFollows(after, Last(undoSteps), new)
    BY <2>1 DEF InsertPrecedes, InsertFollows
  <2>3. InsertTryMerge(after, Last(undoSteps), new)
          = {[Last(undoSteps) EXCEPT !.start = new.start]}
    BY <2>1, <2>2, Zenon DEF InsertTryMerge
  <2> QED BY <2>1, <2>3, <1>7 DEF Merges, TryMerge
<1>13. \/ brokenSteps' = brokenSteps
       \/ brokenSteps' = Len(undoSteps) /\ Merges(after, undoSteps, new) # {}
  BY <1>3, <1>12
<1>14. new.start < new.end
  BY <1>6, <1>7
<1>15. UndoInv(text', revision', undoSteps', before', openGroups, brokenSteps')
  BY <1>3, <1>7, <1>9, <1>10, <1>11, <1>13, <1>14, RecordInv
<1> QED BY <1>3, <1>9, <1>15, EditedInv

LEMMA DeleteInv ==
  ASSUME StackInv, NEW start \in 0..Len(text), NEW end \in 0..Len(text), Delete(start, end)
  PROVE  StackInv'
<1> DEFINE d == Slice(text, start, end)
           new == DeleteStep(revision, start, end, d)
<1>1. text \in Text /\ text \in Seq(Char) /\ Len(text) \in Nat /\ revision \in Nat
      /\ Len(text) <= MaxLength
  BY DEF StackInv, Text
<1>2. /\ edits < MaxEdits /\ start < end /\ text' = Removed(text, start, end)
      /\ Record(text, new) /\ Edited /\ brokenSteps' = brokenSteps
  BY DEF Delete
<1>3. end \in start..Len(text) /\ start \in Nat /\ end \in Nat /\ end <= Len(text)
  BY <1>1, <1>2
<1>4. text' \in Text
  <2>1. text' \in Seq(Char) /\ Len(text') = Len(text) - (end - start)
    BY <1>1, <1>2, <1>3, RemovedText
  <2> QED BY <2>1, <1>1, <1>2, <1>3, BoundsAssumption DEF Text
<1>5. d \in Seq(Char)
  BY <1>1, <1>3, SliceText
<1>6. /\ new \in Steps /\ IsTextStep(new) /\ new.kind = "delete" /\ new.start = start
      /\ new.end = end /\ new.revision = revision /\ new.text = d
  <2> HIDE DEF d
  <2> QED BY <1>1, <1>3, <1>5, StepIntro DEF DeleteStep
<1> HIDE DEF new
<1>7. Fits(new, NowPast(text, revision), text')
  BY <1>2, <1>3, <1>6 DEF Fits, NowPast
<1>8. ASSUME undoSteps # << >>, NEW step \in TryMerge(text, Last(undoSteps), new),
             brokenSteps < Len(undoSteps)
      PROVE  Fits(step, before[Len(undoSteps)], text')
  <2> DEFINE last == Last(undoSteps)
  <2>1. last \in Steps /\ before[Len(undoSteps)] \in Past
        /\ Fits(last, before[Len(undoSteps)], text)
    BY <1>8, TopStep
  <2>2. last.kind = "delete" /\ step \in DeleteTryMerge(last, new)
    BY <1>6, <1>8 DEF TryMerge
  <2> HIDE DEF last
  <2>3. Fits(step, before[Len(undoSteps)], Removed(text, start, end))
    BY <2>1, <2>2, <1>1, <1>2, DeleteMerged DEF new
  <2> QED BY <2>3, <1>2
<1>9. UndoInv(text', revision', undoSteps', before', openGroups, brokenSteps)
  <2>1. new.start < new.end
    BY <1>2, <1>6
  <2> QED BY <2>1, <1>2, <1>4, <1>6, <1>7, <1>8, RecordInv
<1> QED BY <1>2, <1>4, <1>9, EditedInv

LEMMA BracketFields ==
  /\ BeginStep \in Steps /\ EndStep \in Steps
  /\ BeginStep.kind = "begin" /\ EndStep.kind = "end"
  /\ ~ IsTextStep(BeginStep) /\ ~ IsTextStep(EndStep)
  /\ \A h : Fits(BeginStep, h, h.text) /\ Fits(EndStep, h, h.text)
<1>1. /\ BeginStep.kind = "begin" /\ EndStep.kind = "end"
  BY DEF BeginStep, EndStep
<1>2. ~ IsTextStep(BeginStep) /\ ~ IsTextStep(EndStep)
  BY <1>1 DEF IsTextStep
<1>3. BeginStep \in Steps /\ EndStep \in Steps
  BY DEF Steps
<1> QED BY <1>1, <1>2, <1>3 DEF Fits

LEMMA BeginInv ==
  ASSUME StackInv, BeginUndoGroup
  PROVE  StackInv'
<1>1. /\ text \in Text /\ revision \in Nat /\ openGroups \in Nat
      /\ UndoInv(text, revision, undoSteps, before, openGroups, brokenSteps)
  BY DEF StackInv
<1>2. /\ undoSteps' = Append(undoSteps, BeginStep)
      /\ before' = Append(before, NowPast(text, revision))
      /\ openGroups' = openGroups + 1 /\ openGroups + 1 \in Nat
      /\ UNCHANGED <<text, revision, redoSteps, beforeRedo, edits, staleSteps, brokenSteps>>
  BY <1>1 DEF BeginUndoGroup, NowPast
<1>3. Fits(BeginStep, NowPast(text, revision), text)
  BY BracketFields DEF NowPast
<1>4. BeginStep \in Steps /\ BeginStep.kind = "begin"
  BY BracketFields
<1> HIDE DEF BeginStep
<1>5. UndoInv(text, revision, Append(undoSteps, BeginStep),
              Append(before, NowPast(text, revision)), openGroups + 1, brokenSteps)
  BY <1>1, <1>2, <1>3, <1>4, PushInv
<1> QED BY <1>1, <1>2, <1>5 DEF StackInv

LEMMA EndInv ==
  ASSUME StackInv, EndUndoGroup
  PROVE  StackInv'
<1>1. /\ text \in Text /\ revision \in Nat /\ openGroups \in Nat \ {0}
      /\ UndoInv(text, revision, undoSteps, before, openGroups, brokenSteps)
  BY DEF StackInv, EndUndoGroup
<1>2. openGroups' = openGroups - 1 /\ openGroups - 1 \in Nat
      /\ UNCHANGED <<text, revision, redoSteps, beforeRedo, edits, staleSteps, brokenSteps>>
  BY <1>1 DEF EndUndoGroup
<1>3. undoSteps # << >>
  <2>1. undoSteps = << >> => Len(undoSteps) = 0
    OBVIOUS
  <2>2. Len(undoSteps) = 0 => Excess(undoSteps, Len(undoSteps), "begin", "end") = 0
    BY ExcessType
  <2>3. Excess(undoSteps, Len(undoSteps), "begin", "end") = openGroups
    BY <1>1 DEF UndoInv, Nested
  <2> QED BY <2>1, <2>2, <2>3, <1>1
<1>4. Last(undoSteps) = undoSteps[Len(undoSteps)] /\ Last(undoSteps) \in Steps
  BY <1>3, TopStep
<1>5. UndoInv(text, revision, undoSteps', before', openGroups - 1, brokenSteps)
  <2>1. CASE Last(undoSteps) = BeginStep
    <3>1. undoSteps' = Front(undoSteps) /\ before' = Front(before)
      BY <2>1 DEF EndUndoGroup
    <3> QED BY <3>1, <2>1, <1>1, <1>3, <1>4, PopInv
  <2>2. CASE Last(undoSteps) # BeginStep
    <3>1. undoSteps' = Append(undoSteps, EndStep)
          /\ before' = Append(before, NowPast(text, revision))
      BY <2>2 DEF EndUndoGroup, NowPast
    <3>2. EndStep \in Steps /\ EndStep.kind = "end" /\ Fits(EndStep, NowPast(text, revision), text)
      BY BracketFields DEF NowPast
    <3>3. undoSteps[Len(undoSteps)].kind # "begin"
      BY <2>2, <1>4, StepFields
    <3> HIDE DEF EndStep
    <3>4. UndoInv(text, revision, Append(undoSteps, EndStep),
                  Append(before, NowPast(text, revision)), openGroups - 1, brokenSteps)
      BY <1>1, <1>2, <3>2, <3>3, PushInv
    <3> QED BY <3>1, <3>4
  <2> QED BY <2>1, <2>2
<1> QED BY <1>1, <1>2, <1>5 DEF StackInv

(* Undo of the unit on top.                                                *)
LEMMA UndoneInv ==
  ASSUME StackInv, CanUndo, InPlace
  PROVE  LET k == UnitStart(undoSteps)
             n == Len(undoSteps)
             m == Len(redoSteps)
         IN  /\ n \in Nat \ {0} /\ m \in Nat /\ k \in 1..n
             /\ Undone \in Played1
             /\ Undone.text = before[k].text /\ Undone.revision = before[k].revision
             /\ Len(Undone.steps) = m + (n + 1 - k) /\ UnitStart(Undone.steps) = m + 1
             /\ \A j \in 1..m : Undone.steps[j] = redoSteps[j]
             /\ \A x \in 1..(n + 1 - k) :
                  Undone.steps[m + x] = Undid(undoSteps[n + 1 - x], After(text, before, n + 1 - x))
             /\ UndoInv(Undone.text, Undone.revision, RestOf(undoSteps),
                        SubSeq(before, 1, k - 1), 0, brokenSteps)
             /\ ~ CheckFails(FALSE, Undoing, undoSteps)
             /\ RedoInv(Undone.text, Undone.steps, beforeRedo \o UnitOf(undoSteps, before),
                        staleSteps)
<1> DEFINE k == UnitStart(undoSteps)
           n == Len(undoSteps)
           m == Len(redoSteps)
           u == Undone
<1>1. /\ text \in Text /\ revision \in Nat /\ undoSteps # << >>
      /\ UndoInv(text, revision, undoSteps, before, 0, brokenSteps)
      /\ RedoInv(text, redoSteps, beforeRedo, staleSteps)
      /\ UnitStart(undoSteps) > brokenSteps
  BY DEF StackInv, CanUndo, InPlace
<1>2. /\ n \in Nat \ {0} /\ m \in Nat /\ redoSteps \in Seq(Steps) /\ undoSteps \in Seq(Steps)
      /\ Nested(undoSteps, "begin", "end", 0) /\ Brackets("begin", "end")
  BY <1>1 DEF UndoInv, RedoInv, Brackets
<1>3. k \in 1..n
  BY <1>2, UnitStartFacts
<1>4. u = Played(FALSE, [text |-> text, revision |-> revision, steps |-> redoSteps], undoSteps)
  BY DEF Undone, Undoing
<1> HIDE DEF u, k, n, m
<1>5. /\ u \in Played1 /\ u.text = before[k].text /\ u.revision = before[k].revision
      /\ Len(u.steps) = m + (n + 1 - k)
      /\ \A j \in 1..m : u.steps[j] = redoSteps[j]
      /\ \A x \in 1..(n + 1 - k) :
           u.steps[m + x] = Undid(undoSteps[n + 1 - x], After(text, before, n + 1 - x))
  <2>1. UndoPlays(u, text, undoSteps, before, redoSteps)
    BY <1>1, <1>2, <1>4, UndoPlayed
  <2> QED BY <2>1 DEF UndoPlays, k, n, m
<1>6. u.steps \in Seq(Steps)
  BY <1>5 DEF Played1
<1>7. /\ RedoInv(before[k].text, u.steps, beforeRedo \o UnitOf(undoSteps, before), staleSteps)
      /\ UnitStart(u.steps) = m + 1
  <2> DEFINE w == u.steps
  <2>1. /\ w \in Seq(Steps) /\ Len(w) = Len(redoSteps) + (Len(undoSteps) + 1 - UnitStart(undoSteps))
        /\ \A j \in 1..Len(redoSteps) : w[j] = redoSteps[j]
        /\ \A x \in 1..(Len(undoSteps) + 1 - UnitStart(undoSteps)) :
             w[Len(redoSteps) + x] = Undid(undoSteps[Len(undoSteps) + 1 - x],
                                           After(text, before, Len(undoSteps) + 1 - x))
    BY <1>5, <1>6 DEF k, n, m
  <2> HIDE DEF w
  <2>2. /\ RedoInv(before[UnitStart(undoSteps)].text, w,
                   beforeRedo \o UnitOf(undoSteps, before), staleSteps)
        /\ UnitStart(w) = Len(redoSteps) + 1
    BY <1>1, <2>1, UndoneRedo
  <2> QED BY <2>2 DEF w, k, m
<1>8. UndoInv(before[k].text, u.revision, RestOf(undoSteps), SubSeq(before, 1, k - 1), 0,
              brokenSteps)
  BY <1>1, RestInv DEF k
<1>9. ~ CheckFails(FALSE, Undoing, undoSteps)
  BY <1>1, <1>2, UndoPlayed DEF Undoing
<1> QED BY <1>2, <1>3, <1>5, <1>7, <1>8, <1>9 DEF u, k, n, m

LEMMA UndoPreserves ==
  ASSUME StackInv, Undo
  PROVE  StackInv'
<1>1. /\ CanUndo /\ text' = Undone.text /\ revision' = Undone.revision
      /\ redoSteps' = Undone.steps /\ undoSteps' = RestOf(undoSteps)
      /\ before' = SubSeq(before, 1, UnitStart(undoSteps) - 1)
      /\ beforeRedo' = beforeRedo \o UnitOf(undoSteps, before)
      /\ brokenSteps' = (IF InPlace THEN brokenSteps ELSE Len(undoSteps'))
      /\ staleSteps' = (IF InPlace THEN staleSteps ELSE Len(redoSteps'))
      /\ openGroups' = 0 /\ edits' = edits /\ openGroups = 0 /\ undoSteps # << >>
      /\ ~ CheckFails(FALSE, Undoing, undoSteps) /\ Len(Undone.text) <= MaxLength
  BY DEF Undo, CanUndo
<1>2. edits \in 0..MaxEdits
  BY DEF StackInv
<1>3. CASE InPlace
  <2>1. /\ Undone \in Played1
        /\ UndoInv(Undone.text, Undone.revision, RestOf(undoSteps),
                   SubSeq(before, 1, UnitStart(undoSteps) - 1), 0, brokenSteps)
        /\ RedoInv(Undone.text, Undone.steps, beforeRedo \o UnitOf(undoSteps, before), staleSteps)
    BY <1>1, <1>3, UndoneInv
  <2>2. Undone.text \in Text /\ Undone.revision \in Nat
    BY <2>1 DEF Played1
  <2> QED BY <2>1, <2>2, <1>1, <1>2, <1>3 DEF StackInv
<1>4. CASE ~ InPlace
  <2>1. /\ text \in Seq(Char) /\ revision \in Nat
        /\ undoSteps \in Seq(Steps) /\ before \in Seq(Past) /\ Len(before) = Len(undoSteps)
        /\ redoSteps \in Seq(Steps) /\ beforeRedo \in Seq(Past)
        /\ Len(beforeRedo) = Len(redoSteps)
        /\ Nested(undoSteps, "begin", "end", 0) /\ Nested(redoSteps, "end", "begin", 0)
        /\ Brackets("begin", "end") /\ Brackets("end", "begin")
    BY <1>1 DEF StackInv, UndoInv, RedoInv, Text, Brackets
  <2>2. Len(undoSteps) \in Nat \ {0} /\ UnitStart(undoSteps) \in 1..Len(undoSteps)
    <3>1. Len(undoSteps) \in Nat \ {0}
      BY <1>1, <2>1
    <3> QED BY <3>1, <2>1, UnitStartFacts
  <2>3. /\ Undone \in Loose
        /\ Len(Undone.steps) = Len(redoSteps) + (Len(undoSteps) + 1 - UnitStart(undoSteps))
        /\ Nested(Undone.steps, "end", "begin", 0)
    <3>1. Undoing \in Loose /\ Undoing.steps = redoSteps
      BY <2>1 DEF Undoing, Loose
    <3>2. Undone = Played(FALSE, Undoing, undoSteps)
      BY DEF Undone
    <3> QED BY <3>1, <3>2, <1>1, <2>1, PlayedTypes
  <2>4. /\ Undone.text \in Text /\ Undone.revision \in Nat /\ Undone.steps \in Seq(Steps)
    BY <2>3, <1>1 DEF Loose, Text
  <2>5. /\ RestOf(undoSteps) \in Seq(Steps) /\ Nested(RestOf(undoSteps), "begin", "end", 0)
        /\ Len(RestOf(undoSteps)) = UnitStart(undoSteps) - 1
    BY <1>1, <2>1, RestNested
  <2>6. /\ beforeRedo' \in Seq(Past) /\ Len(beforeRedo') = Len(Undone.steps)
        /\ before' \in Seq(Past) /\ Len(before') = Len(RestOf(undoSteps))
    BY <1>1, <2>1, <2>2, <2>3, <2>5, HistoryMoved
  <2>7. UndoInv(text', revision', undoSteps', before', openGroups', brokenSteps')
    BY <1>1, <1>4, <2>5, <2>6, BrokenInv
  <2>8. RedoInv(text', redoSteps', beforeRedo', staleSteps')
    BY <1>1, <1>4, <2>3, <2>4, <2>6, StaleInv
  <2> QED BY <1>1, <1>2, <2>4, <2>7, <2>8 DEF StackInv
<1> QED BY <1>3, <1>4

(* Redo of the unit on top, when it is newer than the last edit.           *)
LEMMA RedoneInv ==
  ASSUME NEW txt \in Text, NEW rev \in Nat, NEW us, NEW bs, NEW low,
         UndoInv(txt, rev, us, bs, 0, low), NEW rs, NEW qs, NEW stale, RedoInv(txt, rs, qs, stale), stale < Len(rs)
  PROVE  LET k == UnitStart(rs)
             n == Len(us)
             m == Len(rs)
             b == Redone(txt, rev, us, rs)
         IN  /\ n \in Nat /\ m \in Nat \ {0} /\ stale \in Nat /\ k \in (stale + 1)..m
             /\ b \in Played1 /\ b.text = Replayed(rs[k], qs[k].text)
             /\ Len(b.steps) = n + (m + 1 - k) /\ Len(RestOf(rs)) = k - 1
             /\ \A j \in 1..n : b.steps[j] = us[j]
             /\ \A x \in 1..(m + 1 - k) : b.steps[n + x] = rs[m + 1 - x]
             /\ UndoInv(b.text, b.revision, b.steps, bs \o UnitOf(rs, qs), 0, low)
             /\ ~ CheckFails(TRUE, [text |-> txt, revision |-> rev, steps |-> us], rs)
             /\ RedoInv(b.text, RestOf(rs), SubSeq(qs, 1, k - 1), stale)
<1> DEFINE k == UnitStart(rs)
           n == Len(us)
           m == Len(rs)
           b == Redone(txt, rev, us, rs)
<1>1. /\ us \in Seq(Steps) /\ n \in Nat /\ rs \in Seq(Steps) /\ rs # << >>
      /\ Nested(rs, "end", "begin", 0) /\ Brackets("end", "begin")
  BY DEF UndoInv, RedoInv, Brackets
<1>2. k \in (stale + 1)..m /\ m \in Nat \ {0} /\ stale \in Nat
  BY RedoUnit
<1>3. b = Played(TRUE, [text |-> txt, revision |-> rev, steps |-> us], rs)
  BY DEF Redone
<1> HIDE DEF b, k, n, m
<1>4. /\ b \in Played1 /\ b.text = Replayed(rs[k], qs[k].text)
      /\ Len(b.steps) = n + (m + 1 - k)
      /\ \A j \in 1..n : b.steps[j] = us[j]
      /\ \A x \in 1..(m + 1 - k) : b.steps[n + x] = rs[m + 1 - x]
  <2>1. RedoPlays(b, us, rs, qs)
    BY <1>1, <1>3, RedoPlayed
  <2> QED BY <2>1 DEF RedoPlays, k, n, m
<1>5. b.steps \in Seq(Steps)
  BY <1>4 DEF Played1
<1>6. UndoInv(Replayed(rs[k], qs[k].text), b.revision, b.steps, bs \o UnitOf(rs, qs), 0, low)
  <2> DEFINE w == b.steps
             r == b.revision
  <2>1. /\ w \in Seq(Steps) /\ Len(w) = Len(us) + (Len(rs) + 1 - UnitStart(rs))
        /\ \A j \in 1..Len(us) : w[j] = us[j]
        /\ \A x \in 1..(Len(rs) + 1 - UnitStart(rs)) : w[Len(us) + x] = rs[Len(rs) + 1 - x]
    BY <1>4, <1>5 DEF k, n, m
  <2> HIDE DEF w, r
  <2>2. UndoInv(Replayed(rs[UnitStart(rs)], qs[UnitStart(rs)].text), r, w,
                bs \o UnitOf(rs, qs), 0, low)
    BY <2>1, RedoneUndo
  <2> QED BY <2>2 DEF w, r, k
<1>7. RedoInv(Replayed(rs[k], qs[k].text), RestOf(rs), SubSeq(qs, 1, k - 1), stale)
  BY RestRedo DEF k
<1>8. Len(RestOf(rs)) = k - 1
  BY <1>1, RestNested DEF k
<1>9. ~ CheckFails(TRUE, [text |-> txt, revision |-> rev, steps |-> us], rs)
  BY <1>1, RedoPlayed
<1> QED BY <1>1, <1>2, <1>4, <1>6, <1>7, <1>8, <1>9 DEF b, k, n, m

(* One step of the unit on top is newer than the last edit, so all are.    *)
LEMMA FreshUnit ==
  ASSUME StackInv, CanRedo, Fresh
  PROVE  staleSteps < Len(redoSteps)
<1>1. /\ redoSteps \in Seq(Steps) /\ redoSteps # << >> /\ staleSteps \in Nat
      /\ Nested(redoSteps, "end", "begin", 0) /\ Brackets("end", "begin")
  BY DEF StackInv, RedoInv, CanRedo, Brackets
<1>2. Len(redoSteps) \in Nat \ {0}
  BY <1>1
<1>3. UnitStart(redoSteps) \in 1..Len(redoSteps)
  BY <1>1, <1>2, UnitStartFacts
<1> QED BY <1>1, <1>2, <1>3 DEF Fresh

LEMMA RedoPreserves ==
  ASSUME StackInv, Redo
  PROVE  StackInv'
<1> DEFINE b == Redone(text, revision, undoSteps, redoSteps)
           k == UnitStart(redoSteps)
<1>1. /\ text' = b.text /\ revision' = b.revision /\ undoSteps' = b.steps
      /\ redoSteps' = RestOf(redoSteps) /\ CanRedo /\ redoSteps # << >>
      /\ before' = before \o UnitOf(redoSteps, beforeRedo)
      /\ beforeRedo' = SubSeq(beforeRedo, 1, k - 1)
      /\ brokenSteps' = (IF Fresh THEN brokenSteps ELSE Len(undoSteps'))
      /\ staleSteps' = (IF Fresh THEN staleSteps ELSE Len(redoSteps'))
      /\ openGroups' = 0 /\ edits' = edits /\ openGroups = 0
      /\ ~ CheckFails(TRUE, Redoing, redoSteps) /\ Len(b.text) <= MaxLength
  BY DEF Redo, CanRedo
<1>2. /\ text \in Text /\ revision \in Nat /\ edits \in 0..MaxEdits
      /\ UndoInv(text, revision, undoSteps, before, 0, brokenSteps)
      /\ RedoInv(text, redoSteps, beforeRedo, staleSteps)
  BY <1>1 DEF StackInv
<1> HIDE DEF b
<1>3. CASE Fresh
  <2>1. staleSteps < Len(redoSteps)
    BY <1>1, <1>3, FreshUnit
  <2>2. /\ b \in Played1
        /\ UndoInv(b.text, b.revision, b.steps, before \o UnitOf(redoSteps, beforeRedo), 0,
                   brokenSteps)
        /\ RedoInv(b.text, RestOf(redoSteps), SubSeq(beforeRedo, 1, k - 1), staleSteps)
    BY <1>2, <2>1, RedoneInv DEF b
  <2> HIDE DEF k
  <2>3. b.text \in Text /\ b.revision \in Nat
    BY <2>2 DEF Played1
  <2>4. UndoInv(text', revision', undoSteps', before', openGroups', brokenSteps')
    BY <1>1, <1>3, <2>2
  <2>5. RedoInv(text', redoSteps', beforeRedo', staleSteps')
    BY <1>1, <1>3, <2>2
  <2> QED BY <1>1, <1>2, <2>3, <2>4, <2>5 DEF StackInv
<1>4. CASE ~ Fresh
  <2>1. /\ text \in Seq(Char)
        /\ undoSteps \in Seq(Steps) /\ before \in Seq(Past) /\ Len(before) = Len(undoSteps)
        /\ redoSteps \in Seq(Steps) /\ beforeRedo \in Seq(Past)
        /\ Len(beforeRedo) = Len(redoSteps)
        /\ Nested(undoSteps, "begin", "end", 0) /\ Nested(redoSteps, "end", "begin", 0)
        /\ Brackets("begin", "end") /\ Brackets("end", "begin")
    BY <1>2 DEF UndoInv, RedoInv, Text, Brackets
  <2>2. Len(redoSteps) \in Nat \ {0} /\ k \in 1..Len(redoSteps)
    <3>1. Len(redoSteps) \in Nat \ {0}
      BY <1>1, <2>1
    <3> QED BY <3>1, <2>1, UnitStartFacts
  <2>3. /\ b \in Loose /\ Len(b.steps) = Len(undoSteps) + (Len(redoSteps) + 1 - k)
        /\ Nested(b.steps, "begin", "end", 0)
    <3>1. Redoing \in Loose /\ Redoing.steps = undoSteps
      BY <1>2, <2>1 DEF Redoing, Loose
    <3>2. b = Played(TRUE, Redoing, redoSteps)
      BY DEF b, Redone, Redoing
    <3>3. redoSteps # << >> /\ ~ CheckFails(TRUE, Redoing, redoSteps)
      BY <1>1
    <3>4. Nested(Redoing.steps, "begin", "end", 0)
      BY <3>1, <2>1
    <3> DEFINE p == Played(TRUE, Redoing, redoSteps)
    <3>5. /\ p \in Loose
          /\ Len(p.steps) = Len(Redoing.steps) + (Len(redoSteps) + 1 - UnitStart(redoSteps))
          /\ Nested(p.steps, "begin", "end", 0)
      BY <3>1, <3>3, <3>4, <2>1, PlayedTypes
    <3> HIDE DEF p
    <3>6. b = p
      BY <3>2 DEF p
    <3> QED BY <3>1, <3>5, <3>6
  <2>4. b.text \in Text /\ b.revision \in Nat /\ b.steps \in Seq(Steps)
    BY <2>3, <1>1 DEF Loose, Text
  <2>5. /\ RestOf(redoSteps) \in Seq(Steps) /\ Nested(RestOf(redoSteps), "end", "begin", 0)
        /\ Len(RestOf(redoSteps)) = k - 1
    BY <1>1, <2>1, RestNested
  <2>6. /\ before' \in Seq(Past) /\ Len(before') = Len(b.steps)
        /\ beforeRedo' \in Seq(Past) /\ Len(beforeRedo') = Len(RestOf(redoSteps))
    BY <1>1, <2>1, <2>2, <2>3, <2>5, HistoryMoved
  <2>7. UndoInv(text', revision', undoSteps', before', openGroups', brokenSteps')
    BY <1>1, <1>4, <2>3, <2>4, <2>6, BrokenInv
  <2>8. RedoInv(text', redoSteps', beforeRedo', staleSteps')
    BY <1>1, <1>4, <2>5, <2>6, StaleInv
  <2> QED BY <1>1, <1>2, <2>4, <2>7, <2>8 DEF StackInv
<1> QED BY <1>3, <1>4

LEMMA ClearInv ==
  ASSUME StackInv, Clear
  PROVE  StackInv'
BY NothingInv DEF Clear, StackInv

LEMMA NextInv ==
  ASSUME StackInv, [Next]_vars
  PROVE  StackInv'
<1>1. ASSUME NEW p \in 0..Len(text), NEW s \in Texts, InsertBefore(p, s)  PROVE StackInv'
  BY <1>1, InsertBeforeInv
<1>2. ASSUME NEW start \in 0..Len(text), NEW end \in 0..Len(text), Delete(start, end)
      PROVE  StackInv'
  BY <1>2, DeleteInv
<1>3. CASE BeginUndoGroup
  BY <1>3, BeginInv
<1>4. CASE EndUndoGroup
  BY <1>4, EndInv
<1>5. CASE Undo
  BY <1>5, UndoPreserves
<1>6. CASE Redo
  BY <1>6, RedoPreserves
<1>7. CASE Clear
  BY <1>7, ClearInv
<1>8. CASE UNCHANGED vars
  BY <1>8 DEF vars, StackInv
<1> QED BY <1>1, <1>2, <1>3, <1>4, <1>5, <1>6, <1>7, <1>8 DEF Next

LEMMA StackInvariant == Spec => []StackInv
<1>1. StackInv /\ [Next]_vars => StackInv'
  BY NextInv
<1> QED BY InitInv, <1>1, PTL DEF Spec

LEMMA NestTypes ==
  ASSUME StackInv
  PROVE  GroupsNest
<1>1. /\ text \in Seq(Char) /\ Len(text) <= MaxLength /\ revision \in Nat
      /\ openGroups \in Nat /\ edits \in 0..MaxEdits
      /\ undoSteps \in Seq(Steps) /\ redoSteps \in Seq(Steps)
      /\ Len(before) = Len(undoSteps) /\ Len(beforeRedo) = Len(redoSteps)
      /\ staleSteps \in 0..Len(redoSteps) /\ brokenSteps \in 0..Len(undoSteps)
      /\ Nested(undoSteps, "begin", "end", openGroups)
      /\ Nested(redoSteps, "end", "begin", 0)
  BY DEF StackInv, UndoInv, RedoInv, Text
<1>2. TypeOK
  BY <1>1 DEF TypeOK
<1>3. ASSUME NEW s \in Seq(Steps), NEW i \in Nat, NEW kind
      PROVE  CountKind(s, 1, i, kind) \in Nat
  BY CountType
<1>4. ASSUME NEW i \in DOMAIN undoSteps
      PROVE  CountKind(undoSteps, 1, i, "end") <= CountKind(undoSteps, 1, i, "begin")
  <2>1. i \in 1..Len(undoSteps) /\ i \in Nat
    BY <1>1
  <2> QED BY <2>1, <1>1, <1>3 DEF Nested, Excess
<1>5. ASSUME NEW i \in DOMAIN redoSteps
      PROVE  CountKind(redoSteps, 1, i, "begin") <= CountKind(redoSteps, 1, i, "end")
  <2>1. i \in 1..Len(redoSteps) /\ i \in Nat
    BY <1>1
  <2> QED BY <2>1, <1>1, <1>3 DEF Nested, Excess
<1>6. /\ CountKind(undoSteps, 1, Len(undoSteps), "begin")
           = CountKind(undoSteps, 1, Len(undoSteps), "end") + openGroups
      /\ CountKind(redoSteps, 1, Len(redoSteps), "begin")
           = CountKind(redoSteps, 1, Len(redoSteps), "end")
  <2>1. Len(undoSteps) \in Nat /\ Len(redoSteps) \in Nat
    BY <1>1
  <2> QED BY <2>1, <1>1, <1>3 DEF Nested, Excess
<1>7. BeginStep.kind = "begin" /\ EndStep.kind = "end"
  BY BracketFields
<1>8. ASSUME NEW i \in 2..Len(undoSteps)
      PROVE  <<undoSteps[i - 1], undoSteps[i]>> # <<BeginStep, EndStep>>
  <2>1. undoSteps[i - 1] # BeginStep \/ undoSteps[i] # EndStep
    BY <1>1, <1>7 DEF Nested
  <2> HIDE DEF BeginStep, EndStep
  <2> QED BY <2>1
<1>9. ASSUME NEW i \in 2..Len(redoSteps)
      PROVE  <<redoSteps[i - 1], redoSteps[i]>> # <<EndStep, BeginStep>>
  <2>1. redoSteps[i - 1] # EndStep \/ redoSteps[i] # BeginStep
    BY <1>1, <1>7 DEF Nested
  <2> HIDE DEF BeginStep, EndStep
  <2> QED BY <2>1
<1> QED BY <1>2, <1>4, <1>5, <1>6, <1>8, <1>9 DEF GroupsNest

-----------------------------------------------------------------------------
(* The text step that decides where Undo or Redo takes place               *)

LEMMA TopText ==
  ASSUME NEW s \in Seq(Steps), NEW n \in Nat, Len(s) = n, NEW lo \in 1..n,
         \E i \in lo..n : IsTextStep(s[i])
  PROVE  \E i \in lo..n : /\ TopTextStep(s) = s[i] /\ IsTextStep(s[i])
                          /\ \A j \in (i + 1)..n : ~ IsTextStep(s[j])
<1> DEFINE C == {i \in 1..n : IsTextStep(s[i])}
           P(i) == IsTextStep(s[i]) /\ \A j \in (i + 1)..n : ~ IsTextStep(s[j])
<1>1. PICK y \in lo..n : IsTextStep(s[y])
  OBVIOUS
<1>2. y \in C /\ C \in SUBSET (1..n)
  BY <1>1
<1>3. PICK x \in C : \A z \in (x + 1)..n : z \notin C
  <2> HIDE DEF C
  <2> QED BY <1>2, GreatestNumber
<1>4. x \in 1..n /\ P(x)
  <2>1. ASSUME NEW j \in (x + 1)..n  PROVE ~ IsTextStep(s[j])
    <3>1. j \in 1..n
      BY <1>3
    <3> QED BY <3>1, <1>3
  <2> QED BY <2>1, <1>3
<1>5. DOMAIN s = 1..n
  OBVIOUS
<1> DEFINE top == CHOOSE i \in DOMAIN s : P(i)
<1>6. top \in 1..n /\ P(top) /\ TopTextStep(s) = s[top]
  <2>1. \E i \in DOMAIN s : P(i)
    BY <1>4, <1>5
  <2>2. TopTextStep(s) = s[top]
    BY Zenon DEF TopTextStep
  <2>3. top \in DOMAIN s /\ P(top)
    <3> HIDE DEF P
    <3> QED BY <2>1, Zenon
  <2> HIDE DEF top, P
  <2> QED BY <2>2, <2>3, <1>5
<1> HIDE DEF top
<1>7. ~ (top < lo)
  <2>1. top < lo => y \in (top + 1)..n
    BY <1>1, <1>6
  <2> QED BY <2>1, <1>1, <1>6
<1>8. top \in lo..n
  BY <1>6, <1>7
<1> QED BY <1>6, <1>8

LEMMA UndoOffset ==
  ASSUME StackInv, CanUndo, InPlace
  PROVE  GetBeforeUndo(TopTextStep(undoSteps)) \in 0..Len(text)
<1> DEFINE n == Len(undoSteps)
           k == UnitStart(undoSteps)
<1>1. /\ text \in Text /\ undoSteps \in Seq(Steps) /\ n \in Nat \ {0} /\ Len(undoSteps) = n
      /\ before \in Seq(Past) /\ Len(before) = n /\ revision \in Nat
      /\ Nested(undoSteps, "begin", "end", 0) /\ Brackets("begin", "end")
      /\ \A i \in 1..n : undoSteps[i] \in Steps
      /\ brokenSteps \in 0..n /\ k > brokenSteps
      /\ \A i \in (brokenSteps + 1)..n : Fits(undoSteps[i], before[i], After(text, before, i))
  BY DEF StackInv, UndoInv, CanUndo, InPlace, Brackets
<1> HIDE DEF n
<1>1a. /\ k \in 1..n /\ undoSteps[k].kind # "end"
       /\ \A i \in k..n : i \in (brokenSteps + 1)..n /\ i \in 1..n
  <2>1. k \in 1..n /\ undoSteps[k].kind # "end"
    BY <1>1, UnitStartFacts
  <2> HIDE DEF k
  <2> QED BY <2>1, <1>1
<1> HIDE DEF k
<1>2. \E i \in k..n : IsTextStep(undoSteps[i])
  <2>1. undoSteps[n].kind # "begin"
    BY <1>1, NestedEnds
  <2>2. \A i \in k..n : IsTextStep(undoSteps[i]) \/ undoSteps[i].kind \in {"begin", "end"}
    <3> TAKE i \in k..n
    <3>1. undoSteps[i] \in Steps
      BY <1>1, <1>1a
    <3> QED BY <3>1, StepFields
  <2>3. \A i \in (k + 1)..n : ~ (undoSteps[i - 1].kind = "begin" /\ undoSteps[i].kind = "end")
    <3>1. \A i \in (k + 1)..n : i \in 2..n
      BY <1>1a
    <3> QED BY <3>1, <1>1 DEF Nested
  <2>4. k \in Nat /\ n \in Nat /\ k <= n
    BY <1>1, <1>1a
  <2> QED BY <2>1, <2>2, <2>3, <2>4, <1>1a, TextStepExists
<1>3. PICK i \in k..n : /\ TopTextStep(undoSteps) = undoSteps[i] /\ IsTextStep(undoSteps[i])
                        /\ \A j \in (i + 1)..n : ~ IsTextStep(undoSteps[j])
  BY <1>1, <1>1a, <1>2, TopText
<1>3a. i \in 1..n /\ i \in (brokenSteps + 1)..n
  BY <1>1a, <1>3
<1>4. After(text, before, i) = text
  <2> DEFINE T == {j \in 1..n : After(text, before, j) = text}
  <2>1. n \in T
    BY <1>1 DEF After
  <2>2. ASSUME NEW j \in i..(n - 1), j + 1 \in T  PROVE j \in T
    <3>1. /\ j + 1 \in (i + 1)..n /\ j + 1 \in (brokenSteps + 1)..n /\ j + 1 \in 1..n
          /\ j \in 1..n /\ j # n
      BY <1>1, <1>3a
    <3>2. Fits(undoSteps[j + 1], before[j + 1], text) /\ ~ IsTextStep(undoSteps[j + 1])
      BY <3>1, <2>2, <1>1, <1>3
    <3>3. before[j + 1].text = text
      BY <3>2 DEF Fits
    <3>4. After(text, before, j) = text
      BY <3>1, <3>3, <1>1 DEF After
    <3> QED BY <3>1, <3>4
  <2> HIDE DEF T
  <2>3. n - 1 \in Nat /\ (n - 1) + 1 = n /\ i \in 1..((n - 1) + 1) /\ i \in i..((n - 1) + 1)
    BY <1>1, <1>3a
  <2>4. \A j \in i..((n - 1) + 1) : j \in T
    BY <2>1, <2>2, <2>3, Downwards
  <2>5. i \in T
    BY <2>3, <2>4
  <2> QED BY <2>5 DEF T
<1>5. undoSteps[i] \in Steps /\ before[i] \in Past /\ Fits(undoSteps[i], before[i], text)
  BY <1>1, <1>3a, <1>4
<1> DEFINE step == undoSteps[i]
           h == before[i]
<1> HIDE DEF step, h
<1>6. step \in Steps /\ h \in Past /\ Fits(step, h, text) /\ IsTextStep(step)
  BY <1>3, <1>5 DEF step, h
<1>7. GetBeforeUndo(step) \in 0..Len(text)
  <2>1. CASE step.kind = "insert"
    <3>1. step.start \in 0..Len(text) /\ step.end \in step.start..Len(text) /\ Len(text) \in Nat
      BY <1>1, <1>6, <2>1, FitsRange
    <3> QED BY <3>1, <2>1 DEF GetBeforeUndo
  <2>2. CASE step.kind = "delete"
    <3>1. /\ step.start \in 0..Len(h.text) /\ step.end \in step.start..Len(h.text)
          /\ Len(h.text) \in Nat /\ h.text \in Seq(Char)
      BY <1>1, <1>6, <2>2, FitsRange
    <3>2. text = Removed(h.text, step.start, step.end)
      BY <1>6, <2>2 DEF Fits
    <3>3. Len(text) = Len(h.text) - (step.end - step.start)
      BY <3>1, <3>2, RemovedText
    <3>4. step.start \in 0..Len(text)
      BY <3>1, <3>3
    <3> QED BY <3>4, <2>2 DEF GetBeforeUndo
  <2> QED BY <2>1, <2>2, <1>6 DEF IsTextStep
<1> QED BY <1>3, <1>7 DEF step

LEMMA RedoOffset ==
  ASSUME StackInv, CanRedo, Fresh
  PROVE  /\ GetBeforeRedo(TopTextStep(redoSteps)) \in 0..Len(text)
         /\ ~ CheckFails(TRUE, Redoing, redoSteps)
<1> DEFINE m == Len(redoSteps)
           k == UnitStart(redoSteps)
<1>0. staleSteps < m
  BY FreshUnit
<1>1. /\ text \in Text /\ redoSteps \in Seq(Steps) /\ Len(redoSteps) = m
      /\ beforeRedo \in Seq(Past) /\ Len(beforeRedo) = m
      /\ Nested(redoSteps, "end", "begin", 0) /\ Brackets("end", "begin")
      /\ staleSteps \in 0..m /\ staleSteps < m /\ m \in Nat
      /\ RedoInv(text, redoSteps, beforeRedo, staleSteps)
      /\ beforeRedo[m].text = text
      /\ \A j \in (staleSteps + 1)..m :
           /\ Replayed(redoSteps[j], beforeRedo[j].text) \in Text
           /\ Fits(redoSteps[j], beforeRedo[j], Replayed(redoSteps[j], beforeRedo[j].text))
           /\ j > staleSteps + 1 =>
                beforeRedo[j - 1].text = Replayed(redoSteps[j], beforeRedo[j].text)
  BY <1>0 DEF StackInv, RedoInv, CanRedo, Brackets
<1>2. k \in (staleSteps + 1)..m /\ redoSteps[k].kind # "begin" /\ m \in Nat \ {0}
  BY <1>1, RedoUnit
<1>3. redoSteps[m].kind # "end"
  BY <1>1, <1>2, NestedEnds
<1> HIDE DEF m, k
<1>4. \A i \in 1..m : redoSteps[i] \in Steps /\ beforeRedo[i] \in Past
  BY <1>1
<1>5. k \in 1..m /\ staleSteps \in Nat
  BY <1>1, <1>2
<1>6. \E i \in k..m : IsTextStep(redoSteps[i])
  <2>1. \A i \in k..m : IsTextStep(redoSteps[i]) \/ redoSteps[i].kind \in {"end", "begin"}
    <3> TAKE i \in k..m
    <3>1. redoSteps[i] \in Steps
      BY <1>4, <1>5
    <3> QED BY <3>1, StepFields
  <2>2. \A i \in (k + 1)..m : ~ (redoSteps[i - 1].kind = "end" /\ redoSteps[i].kind = "begin")
    <3>1. \A i \in (k + 1)..m : i \in 2..m
      BY <1>5
    <3> QED BY <3>1, <1>1 DEF Nested
  <2>3. k \in Nat /\ m \in Nat /\ k <= m
    BY <1>1, <1>5
  <2> QED BY <2>1, <2>2, <2>3, <1>2, <1>3, TextStepExists
<1>7. PICK i \in k..m : /\ TopTextStep(redoSteps) = redoSteps[i] /\ IsTextStep(redoSteps[i])
                        /\ \A j \in (i + 1)..m : ~ IsTextStep(redoSteps[j])
  BY <1>1, <1>5, <1>6, TopText
<1>8. i \in (staleSteps + 1)..m /\ i \in 1..m /\ i \in Nat
  BY <1>1, <1>2, <1>5
<1>9. beforeRedo[i].text = text
  <2> DEFINE T == {j \in 1..m : beforeRedo[j].text = text}
  <2>1. m \in T
    BY <1>1, <1>2
  <2>2. ASSUME NEW j \in i..(m - 1), j + 1 \in T  PROVE j \in T
    <3>1. /\ j + 1 \in (i + 1)..m /\ j + 1 \in (staleSteps + 1)..m /\ j + 1 > staleSteps + 1
          /\ (j + 1) - 1 = j /\ j \in 1..m
      BY <1>1, <1>8
    <3>2. beforeRedo[j].text = Replayed(redoSteps[j + 1], beforeRedo[j + 1].text)
      BY <3>1, <1>1
    <3>3. Replayed(redoSteps[j + 1], beforeRedo[j + 1].text) = beforeRedo[j + 1].text
      <4>1. ~ IsTextStep(redoSteps[j + 1])
        BY <3>1, <1>7
      <4> QED BY <4>1 DEF Replayed, IsTextStep
    <3>4. beforeRedo[j + 1].text = text
      BY <2>2
    <3>5. beforeRedo[j].text = text
      BY <3>2, <3>3, <3>4
    <3> QED BY <3>1, <3>5
  <2> HIDE DEF T
  <2>3. m - 1 \in Nat /\ (m - 1) + 1 = m /\ i \in 1..((m - 1) + 1) /\ i \in i..((m - 1) + 1)
    BY <1>2, <1>8
  <2>4. \A j \in i..((m - 1) + 1) : j \in T
    BY <2>1, <2>2, <2>3, Downwards
  <2>5. i \in T
    BY <2>3, <2>4
  <2> QED BY <2>5 DEF T
<1> DEFINE step == redoSteps[i]
           h == beforeRedo[i]
           after == Replayed(step, h.text)
<1>10. /\ step \in Steps /\ h \in Past /\ after \in Text /\ Fits(step, h, after)
       /\ IsTextStep(step) /\ h.text = text /\ TopTextStep(redoSteps) = step
  BY <1>1, <1>4, <1>7, <1>8, <1>9
<1> HIDE DEF step, h, after
<1>11. /\ step.kind = "insert" => step.start \in 0..Len(text)
       /\ step.kind = "delete" => step.end \in 0..Len(text)
  <2>1. ASSUME step.kind = "insert"  PROVE step.start \in 0..Len(text)
    <3>1. /\ step.start \in 0..Len(after) /\ step.end \in step.start..Len(after)
          /\ Len(after) \in Nat /\ after \in Seq(Char)
      BY <1>10, <2>1, FitsRange
    <3>2. text = Removed(after, step.start, step.end)
      BY <1>10, <2>1 DEF Fits
    <3>3. Len(text) = Len(after) - (step.end - step.start)
      BY <3>1, <3>2, RemovedText
    <3> QED BY <3>1, <3>3
  <2>2. ASSUME step.kind = "delete"  PROVE step.end \in 0..Len(text)
    <3>1. /\ step.start \in 0..Len(text) /\ step.end \in step.start..Len(text)
          /\ Len(text) \in Nat
      BY <1>10, <2>2, FitsRange
    <3> QED BY <3>1
  <2> QED BY <2>1, <2>2
<1>12. GetBeforeRedo(step) \in 0..Len(text)
  BY <1>10, <1>11 DEF GetBeforeRedo, IsTextStep
<1>13. ~ CheckFails(TRUE, Redoing, redoSteps)
  <2>1. /\ text \in Text /\ revision \in Nat /\ undoSteps \in Seq(Steps)
        /\ RedoInv(text, redoSteps, beforeRedo, staleSteps)
    BY DEF StackInv, UndoInv
  <2> QED BY <2>1, <1>0, RedoPlayed DEF Redoing, m
<1> QED BY <1>10, <1>12, <1>13

-----------------------------------------------------------------------------
(* Redo right after Undo                                                   *)

(* What a step is, apart from the text it holds for a later Redo.          *)
Shape(step) == IF IsTextStep(step) THEN <<step.kind, step.start, step.end, step.revision>>
               ELSE <<step.kind>>

LEMMA ShapeUndid ==
  ASSUME NEW step \in Steps, NEW h \in Past, NEW after \in Text, Fits(step, h, after)
  PROVE  Shape(Undid(step, after)) = Shape(step)
<1>1. /\ Undid(step, after).kind = step.kind
      /\ IsTextStep(step) => /\ Undid(step, after).start = step.start
                             /\ Undid(step, after).end = step.end
                             /\ Undid(step, after).revision = step.revision
  BY UndidFits
<1>2. IsTextStep(Undid(step, after)) <=> IsTextStep(step)
  BY <1>1 DEF IsTextStep
<1> QED BY <1>1, <1>2 DEF Shape

LEMMA TakenBack ==
  ASSUME StackInv, CanUndo, InPlace
  PROVE  LET r == Redone(Undone.text, Undone.revision, RestOf(undoSteps), Undone.steps)
         IN  /\ r.text = text
             /\ Len(r.steps) = Len(undoSteps)
             /\ \A j \in 1..Len(undoSteps) : Shape(r.steps[j]) = Shape(undoSteps[j])
             /\ r.steps \in Seq(Steps)
             /\ RestOf(Undone.steps) = redoSteps
<1> DEFINE k == UnitStart(undoSteps)
           n == Len(undoSteps)
           m == Len(redoSteps)
           len == n + 1 - k
           w == Undone.steps
           rest == RestOf(undoSteps)
           bs == SubSeq(before, 1, k - 1)
           h == UnitOf(undoSteps, before)
           q == beforeRedo \o h
           r == Redone(Undone.text, Undone.revision, rest, w)
<1>1. /\ n \in Nat \ {0} /\ m \in Nat /\ k \in 1..n
      /\ Undone \in Played1
      /\ Len(w) = m + len /\ UnitStart(w) = m + 1
      /\ \A j \in 1..m : w[j] = redoSteps[j]
      /\ \A x \in 1..len :
           w[m + x] = Undid(undoSteps[n + 1 - x], After(text, before, n + 1 - x))
      /\ UndoInv(Undone.text, Undone.revision, rest, bs, 0, brokenSteps)
      /\ RedoInv(Undone.text, w, q, staleSteps)
  <2> HIDE DEF w, rest, bs, h
  <2> QED BY UndoneInv DEF w, rest, bs, h
<1>2. /\ text \in Text /\ revision \in Nat /\ undoSteps \in Seq(Steps) /\ undoSteps # << >>
      /\ redoSteps \in Seq(Steps) /\ Len(redoSteps) = m /\ Len(undoSteps) = n
      /\ before \in Seq(Past) /\ Len(before) = n
      /\ beforeRedo \in Seq(Past) /\ Len(beforeRedo) = m
      /\ Nested(undoSteps, "begin", "end", 0) /\ Brackets("begin", "end")
      /\ Brackets("end", "begin")
      /\ staleSteps \in 0..m
      /\ \A i \in 1..n : undoSteps[i] \in Steps
      /\ brokenSteps \in 0..n /\ k > brokenSteps
      /\ \A i \in (brokenSteps + 1)..n : Fits(undoSteps[i], before[i], After(text, before, i))
  BY DEF StackInv, UndoInv, RedoInv, CanUndo, InPlace, Brackets
<1>3. rest \in Seq(Steps) /\ Len(rest) = k - 1 /\ \A i \in 1..(k - 1) : rest[i] = undoSteps[i]
  BY <1>2, RestNested
<1>4. /\ h \in Seq(Past) /\ Len(h) = len /\ \A x \in 1..len : h[x] = before[n + 1 - x]
  <2>1. n \in Nat /\ UnitStart(undoSteps) \in 1..n
    BY <1>1
  <2> HIDE DEF n, m, w, rest, bs, q, r
  <2> QED BY <2>1, <1>2, UnitFields
<1> DEFINE ut == Undone.text
           ur == Undone.revision
<1>5. ut \in Text /\ ur \in Nat /\ w \in Seq(Steps)
  BY <1>1 DEF Played1
<1> HIDE DEF n, m, k, w, rest, bs, h, ut, ur
<1>6. len \in 1..n /\ n + 1 - len = k
  BY <1>1
<1>7. staleSteps < Len(w)
  BY <1>1, <1>2, <1>6
<1>8. /\ r \in Played1 /\ r.text = Replayed(w[m + 1], q[m + 1].text)
      /\ Len(r.steps) = (k - 1) + len
      /\ \A j \in 1..(k - 1) : r.steps[j] = rest[j]
      /\ \A x \in 1..len : r.steps[(k - 1) + x] = w[m + len + 1 - x]
  <2>1. /\ r \in Played1
        /\ r.text = Replayed(w[UnitStart(w)], q[UnitStart(w)].text)
        /\ Len(r.steps) = Len(rest) + (Len(w) + 1 - UnitStart(w))
        /\ \A j \in 1..Len(rest) : r.steps[j] = rest[j]
        /\ \A x \in 1..(Len(w) + 1 - UnitStart(w)) :
             r.steps[Len(rest) + x] = w[Len(w) + 1 - x]
    <3>1. RedoInv(ut, w, q, staleSteps)
      BY <1>1 DEF ut
    <3> HIDE DEF q
    <3>2. r = Played(TRUE, [text |-> ut, revision |-> ur, steps |-> rest], w)
      BY DEF ut, ur, Redone
    <3> HIDE DEF r
    <3>3. RedoPlays(r, rest, w, q)
      BY <3>1, <3>2, <1>3, <1>5, <1>7, RedoPlayed
    <3> QED BY <3>3 DEF RedoPlays
  <2>2. Len(w) + 1 - UnitStart(w) = len
    BY <1>1, <1>6
  <2> HIDE DEF r, len, q
  <2> QED BY <2>1, <2>2, <1>1, <1>3
<1>9. r.text = text
  <2>1. q[m + 1] = before[n]
    <3>1. /\ Len(q) = m + len
          /\ \A j \in 1..(m + len) : q[j] = IF j <= m THEN beforeRedo[j] ELSE h[j - m]
      <4>1. /\ Len(q) = Len(beforeRedo) + Len(h)
            /\ \A j \in 1..(Len(beforeRedo) + Len(h)) :
                 q[j] = IF j <= Len(beforeRedo) THEN beforeRedo[j] ELSE h[j - Len(beforeRedo)]
        BY <1>2, <1>4, ConcatProperties
      <4> HIDE DEF q, len
      <4> QED BY <4>1, <1>2, <1>4
    <3>2. m + 1 \in 1..(m + len) /\ ~ (m + 1 <= m) /\ (m + 1) - m = 1 /\ 1 \in 1..len
          /\ n + 1 - 1 = n
      BY <1>1, <1>6
    <3> HIDE DEF q, len
    <3> QED BY <3>1, <3>2, <1>4
  <2>2. n \in 1..n /\ n \in (brokenSteps + 1)..n /\ 1 \in 1..len /\ n + 1 - 1 = n
    BY <1>1, <1>2, <1>6
  <2>3. w[m + 1] = Undid(undoSteps[n], After(text, before, n))
    BY <1>1, <2>2
  <2>4. After(text, before, n) = text
    BY <1>2 DEF After
  <2>5. undoSteps[n] \in Steps /\ before[n] \in Past /\ Fits(undoSteps[n], before[n], text)
    BY <1>2, <2>2, <2>4
  <2>6. Replayed(Undid(undoSteps[n], text), before[n].text) = text
    BY <1>2, <2>5, UndidFits
  <2> HIDE DEF r, q
  <2> QED BY <1>8, <2>1, <2>3, <2>4, <2>6
<1>10. Len(r.steps) = n /\ r.steps \in Seq(Steps)
  BY <1>1, <1>8 DEF Played1
<1>11. ASSUME NEW j \in 1..n  PROVE Shape(r.steps[j]) = Shape(undoSteps[j])
  <2>1. CASE j \in 1..(k - 1)
    <3>1. r.steps[j] = undoSteps[j]
      BY <2>1, <1>3, <1>8
    <3> QED BY <3>1
  <2>2. CASE j \notin 1..(k - 1)
    <3> DEFINE x == j + 1 - k
               y == len + 1 - x
    <3>1. /\ x \in 1..len /\ (k - 1) + x = j /\ y \in 1..len /\ m + len + 1 - x = m + y
          /\ n + 1 - y = j /\ j \in (brokenSteps + 1)..n
      BY <1>1, <1>2, <1>6, <2>2
    <3>2. r.steps[(k - 1) + x] = w[m + len + 1 - x]
      BY <1>8, <3>1
    <3>3. w[m + y] = Undid(undoSteps[n + 1 - y], After(text, before, n + 1 - y))
      BY <1>1, <3>1
    <3> HIDE DEF x, y, r, len
    <3>4. r.steps[j] = Undid(undoSteps[j], After(text, before, j))
      BY <3>1, <3>2, <3>3
    <3>5. /\ undoSteps[j] \in Steps /\ before[j] \in Past /\ After(text, before, j) \in Text
          /\ Fits(undoSteps[j], before[j], After(text, before, j))
      BY <1>2, <3>1, ChainTexts
    <3>6. Shape(Undid(undoSteps[j], After(text, before, j))) = Shape(undoSteps[j])
      BY <3>5, ShapeUndid
    <3> QED BY <3>4, <3>6
  <2> QED BY <2>1, <2>2
<1>12. RestOf(w) = redoSteps
  <2>1. w # << >> /\ Nested(w, "end", "begin", 0)
    BY <1>1, <1>6 DEF RedoInv
  <2>2. /\ RestOf(w) \in Seq(Steps) /\ Len(RestOf(w)) = UnitStart(w) - 1
        /\ \A i \in 1..(UnitStart(w) - 1) : RestOf(w)[i] = w[i]
    BY <2>1, <1>2, <1>5, RestNested
  <2>3. UnitStart(w) - 1 = m
    BY <1>1
  <2> DEFINE z == RestOf(w)
  <2>4. z \in Seq(Steps) /\ Len(z) = m /\ \A i \in 1..m : z[i] = redoSteps[i]
    BY <1>1, <2>2, <2>3
  <2> HIDE DEF z
  <2>5. z = redoSteps
    BY <2>4, <1>2, SeqEqual
  <2> QED BY <2>5 DEF z
<1> HIDE DEF r
<1>13. /\ r.text = text /\ Len(r.steps) = Len(undoSteps)
       /\ \A j \in 1..Len(undoSteps) : Shape(r.steps[j]) = Shape(undoSteps[j])
       /\ r.steps \in Seq(Steps) /\ RestOf(Undone.steps) = redoSteps
  BY <1>2, <1>9, <1>10, <1>11, <1>12 DEF w
<1> QED BY <1>13 DEF r, rest, w

-----------------------------------------------------------------------------
(* The theorems                                                            *)

(* Groups stay well nested on both stacks, none is empty, and the stacks   *)
(* hold nothing but steps: undo_stack.cc pops up to the bracket that       *)
(* matches.                                                                *)
THEOREM GroupsStayNested == Spec => []GroupsNest
<1>1. StackInv => GroupsNest
  BY NestTypes
<1>2. Spec => []StackInv
  BY StackInvariant
<1> QED BY <1>1, <1>2, PTL

(* Undo brings back the text and the revision from before the unit, and    *)
(* says a place in the text, for every unit that is in place: whatever was *)
(* merged into it, but for an insertion in front, however often it was     *)
(* undone and redone, but for a redo after an edit, and whatever was done  *)
(* out of place before it was made.                                        *)
THEOREM UndoBringsBack == Spec => []UndoRestores
<1>1. StackInv => UndoRestores
  <2> SUFFICES ASSUME StackInv, CanUndo, InPlace
               PROVE  /\ Undone.text = before[UnitStart(undoSteps)].text
                      /\ Undone.revision = before[UnitStart(undoSteps)].revision
                      /\ GetBeforeUndo(TopTextStep(undoSteps)) \in 0..Len(text)
                      /\ ~ CheckFails(FALSE, Undoing, undoSteps)
    BY DEF UndoRestores
  <2> QED BY UndoneInv, UndoOffset
<1>2. Spec => []StackInv
  BY StackInvariant
<1> QED BY <1>1, <1>2, PTL

(* Redo right after Undo of a unit that is in place brings back the text   *)
(* and both stacks, but for the texts that insert steps have learnt; and   *)
(* what was undone after the last edit fits the text when it is redone, so *)
(* that no DCHECK of the buffer fails.  Nothing is said of the redo of     *)
(* what was undone before the last edit: it need not fit (RedoFits).       *)
THEOREM RedoBringsBack == Spec => []RedoTakesUndoBack
<1>1. StackInv => RedoTakesUndoBack
  <2> SUFFICES ASSUME StackInv  PROVE RedoTakesUndoBack
    OBVIOUS
  <2>1. CanRedo /\ Fresh => /\ GetBeforeRedo(TopTextStep(redoSteps)) \in 0..Len(text)
                            /\ ~ CheckFails(TRUE, Redoing, redoSteps)
    BY RedoOffset
  <2>2. ASSUME CanUndo, InPlace
        PROVE  LET u == Undone
                   r == Redone(u.text, u.revision, RestOf(undoSteps), u.steps)
                   Shapes(s) == [i \in DOMAIN s |-> Shape(s[i])]
               IN  /\ r.text = text
                   /\ Shapes(r.steps) = Shapes(undoSteps)
                   /\ RestOf(u.steps) = redoSteps
    <3> DEFINE r == Redone(Undone.text, Undone.revision, RestOf(undoSteps), Undone.steps)
    <3>1. /\ r.text = text /\ Len(r.steps) = Len(undoSteps)
          /\ \A j \in 1..Len(undoSteps) : Shape(r.steps[j]) = Shape(undoSteps[j])
          /\ r.steps \in Seq(Steps) /\ RestOf(Undone.steps) = redoSteps
      BY <2>2, TakenBack
    <3>2. undoSteps \in Seq(Steps)
      BY DEF StackInv, UndoInv
    <3> HIDE DEF r
    <3>3. DOMAIN r.steps = 1..Len(undoSteps) /\ DOMAIN undoSteps = 1..Len(undoSteps)
      BY <3>1, <3>2
    <3>4. [i \in DOMAIN r.steps |-> Shape(r.steps[i])]
            = [i \in DOMAIN undoSteps |-> Shape(undoSteps[i])]
      BY <3>1, <3>3
    <3> QED BY <3>1, <3>4 DEF r
  <2> QED BY <2>1, <2>2, Zenon DEF RedoTakesUndoBack, Shape
<1>2. Spec => []StackInv
  BY StackInvariant
<1> QED BY <1>1, <1>2, PTL
=============================================================================
