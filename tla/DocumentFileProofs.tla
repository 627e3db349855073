-------------------------- MODULE DocumentFileProofs -------------------------
(***************************************************************************)
(* Proofs about DocumentFile, for any number of saves and loads under way, *)
(* texts of any length and buffers of any size, and any request failing.   *)
(***************************************************************************)
EXTENDS DocumentFile, SequenceTheorems, WellFoundedInduction, TLAPS

(* A set of natural numbers that is not empty has a least member, which    *)
(* is what Min chooses.                                                    *)
LEMMA MinIsLeast ==
  ASSUME NEW T \in SUBSET Nat, T # {}
  PROVE  Min(T) \in T /\ \A y \in T : Min(T) <= y
<1> DEFINE R == {ss \in Nat \X Nat : ss[1] < ss[2]}
<1>1. IsWellFoundedOn(R, Nat)
  BY NatLessThanWellFounded, Zenon DEF OpToRel
<1>2. T \subseteq Nat
  OBVIOUS
<1> HIDE DEF R
<1>3. PICK x \in T : \A y \in T : <<y, x>> \notin R
  BY <1>1, <1>2, WFMin, Zenon
<1>4. ASSUME NEW y \in T  PROVE x <= y
  <2>1. ~ (y < x)
    BY <1>3 DEF R
  <2> QED BY <2>1
<1> QED BY <1>4 DEF Min

-----------------------------------------------------------------------------
(* Texts and the bytes they are written as                                 *)

LEMMA SliceFields ==
  ASSUME NEW t \in Bytes, NEW a \in 0..Len(t), NEW b \in a..Len(t)
  PROVE  /\ Slice(t, a, b) \in Bytes
         /\ Len(Slice(t, a, b)) = b - a
         /\ \A i \in 1..(b - a) : Slice(t, a, b)[i] = t[a + i]
BY DEF Slice, Bytes

LEMMA SliceAll ==
  ASSUME NEW t \in Bytes
  PROVE  Slice(t, 0, Len(t)) = t
BY DEF Slice, Bytes

LEMMA EncodedFields ==
  ASSUME NEW t \in Bytes, t # << >>
  PROVE  /\ Encoded(t) \in Bytes
         /\ Len(Encoded(t)) \in Nat \ {0}
         /\ Encoded(t)[Len(Encoded(t))] = Newline
         /\ Encoded(t) = IF t[Len(t)] = Newline THEN t ELSE Append(t, Newline)
BY SizesAssumption DEF Encoded, Bytes

LEMMA FileTextFields ==
  ASSUME NEW t \in Bytes
  PROVE  FileText(t) \in Bytes /\ FileText(FileText(t)) = FileText(t)
<1>1. CASE t = << >>
  BY <1>1 DEF FileText
<1>2. CASE t # << >>
  <2>1. FileText(t) = Encoded(t) /\ Encoded(t) # << >>
    BY <1>2, EncodedFields DEF FileText, Bytes
  <2>2. Encoded(Encoded(t)) = Encoded(t)
    BY <1>2, <2>1, EncodedFields
  <2> QED BY <2>1, <2>2, <1>2, EncodedFields DEF FileText
<1> QED BY <1>1, <1>2

(* What is written in two parts, the first of which ends with a line, is   *)
(* what is written at once.                                                *)
LEMMA WrittenInParts ==
  ASSUME NEW t \in Bytes, NEW a \in 0..Len(t), NEW b \in a..Len(t),
         a = 0 \/ a = Len(t) \/ t[a] = Newline
  PROVE  FileText(Slice(t, 0, a)) \o FileText(Slice(t, a, b)) = FileText(Slice(t, 0, b))
<1> DEFINE s == Slice(t, 0, a)
           u == Slice(t, a, b)
           w == Slice(t, 0, b)
<1>0. /\ Len(t) \in Nat /\ a \in Nat /\ b \in Nat /\ a <= b /\ b <= Len(t)
      /\ 0 \in 0..Len(t) /\ a \in 0..Len(t) /\ b \in 0..Len(t)
  BY DEF Bytes
<1>1. s \in Seq(Char) /\ Len(s) = a /\ \A i \in 1..a : s[i] = t[i]
  <2>1. s \in Bytes /\ Len(s) = a - 0 /\ \A i \in 1..(a - 0) : s[i] = t[0 + i]
    BY <1>0, SliceFields, Zenon
  <2> QED BY <2>1, <1>0 DEF Bytes
<1>2. u \in Seq(Char) /\ Len(u) = b - a /\ \A i \in 1..(b - a) : u[i] = t[a + i]
  BY SliceFields DEF Bytes
<1>3. w \in Seq(Char) /\ Len(w) = b /\ \A i \in 1..b : w[i] = t[i]
  <2>1. w \in Bytes /\ Len(w) = b - 0 /\ \A i \in 1..(b - 0) : w[i] = t[0 + i]
    BY <1>0, SliceFields, Zenon
  <2> QED BY <2>1, <1>0 DEF Bytes
<1> HIDE DEF s, u, w
<1>4. s \o u = w
  <2>1. /\ s \o u \in Seq(Char) /\ Len(s \o u) = Len(s) + Len(u)
        /\ \A i \in 1..(Len(s) + Len(u)) :
             (s \o u)[i] = IF i <= Len(s) THEN s[i] ELSE u[i - Len(s)]
    BY <1>1, <1>2, ConcatProperties, Zenon
  <2>2. Len(s \o u) = Len(w) /\ Len(w) = b
    BY <2>1, <1>0, <1>1, <1>2, <1>3
  <2> DEFINE v == s \o u
  <2>3. ASSUME NEW i \in 1..Len(v)  PROVE v[i] = w[i]
    <3> HIDE DEF v
    <3>1. v[i] = IF i <= a THEN s[i] ELSE u[i - a]
      BY <2>1, <2>2, <1>0, <1>1, <1>2 DEF v
    <3>2. i \in 1..b /\ w[i] = t[i]
      BY <2>2, <2>3, <1>3 DEF v
    <3>3. CASE i <= a
      BY <3>1, <3>2, <3>3, <1>0, <1>1
    <3>4. CASE i > a
      <4>1. i - a \in 1..(b - a) /\ a + (i - a) = i
        BY <3>2, <3>4, <1>0
      <4> QED BY <3>1, <3>2, <3>4, <4>1, <1>0, <1>2
    <3> QED BY <3>3, <3>4, <3>2, <1>0
  <2> QED BY <2>1, <2>2, <2>3, <1>3, SeqEqual
<1>8. FileText(s) \in Seq(Char) /\ FileText(u) \in Seq(Char) /\ FileText(w) \in Seq(Char)
  BY <1>1, <1>2, <1>3, FileTextFields DEF Bytes
<1>5. CASE a = b
  <2>1. u = << >> /\ s = w /\ FileText(u) = << >>
    BY <1>1, <1>2, <1>3, <1>5, <1>4 DEF FileText, Bytes
  <2> QED BY <2>1, <1>1, <1>2, <1>3, <1>8, ConcatEmptySeq DEF s, u, w
<1>6. CASE a # b /\ a = 0
  <2>1. s = << >> /\ u = w /\ FileText(s) = << >>
    BY <1>1, <1>2, <1>3, <1>6, <1>4 DEF FileText, Bytes
  <2> QED BY <2>1, <1>1, <1>2, <1>3, <1>8, ConcatEmptySeq DEF s, u, w
<1>7. CASE a # b /\ a # 0
  <2>1. s[a] = Newline /\ s # << >> /\ u # << >> /\ w # << >>
    BY <1>1, <1>2, <1>3, <1>7 DEF Bytes
  <2>0. s \in Bytes /\ u \in Bytes /\ w \in Bytes
    BY <1>1, <1>2, <1>3 DEF Bytes
  <2>2. FileText(s) = s
    BY <2>0, <2>1, <1>1, EncodedFields DEF FileText
  <2>3. u[Len(u)] = w[Len(w)]
    BY <1>1, <1>2, <1>3, <1>7
  <2>4. CASE u[Len(u)] = Newline
    <3>1. FileText(u) = u /\ FileText(w) = w
      BY <2>0, <2>1, <2>3, <2>4, EncodedFields DEF FileText
    <3> QED BY <3>1, <2>2, <1>4 DEF s, u, w
  <2>5. CASE u[Len(u)] # Newline
    <3>1. FileText(u) = Append(u, Newline) /\ FileText(w) = Append(w, Newline)
      BY <2>0, <2>1, <2>3, <2>5, EncodedFields DEF FileText
    <3>2. s \o Append(u, Newline) = Append(s \o u, Newline)
      BY <1>1, <1>2, <1>3, SizesAssumption DEF Bytes
    <3> QED BY <3>1, <3>2, <2>2, <1>4 DEF s, u, w
  <2> QED BY <2>4, <2>5
<1> QED BY <1>5, <1>6, <1>7

-----------------------------------------------------------------------------
(* Buffers that together are r.                                            *)
Joined(pieces, r) ==
  \E cut \in [0..Len(pieces) -> 0..Len(r)] :
    /\ cut[0] = 0 /\ cut[Len(pieces)] = Len(r)
    /\ \A i, k \in 0..Len(pieces) : i <= k => cut[i] <= cut[k]
    /\ \A i \in 1..Len(pieces) : pieces[i] = SubSeq(r, cut[i - 1] + 1, cut[i])

LEMMA PartFields ==
  ASSUME NEW r \in Seq(Char), NEW x \in 0..Len(r), NEW y \in x..Len(r)
  PROVE  /\ SubSeq(r, x + 1, y) \in Seq(Char)
         /\ Len(SubSeq(r, x + 1, y)) = y - x
         /\ \A i \in 1..(y - x) : SubSeq(r, x + 1, y)[i] = r[x + i]
<1>1. /\ x \in Nat /\ y \in Nat /\ x <= y /\ y <= Len(r) /\ Len(r) \in Nat
  OBVIOUS
<1> QED BY <1>1

LEMMA JoinedNone ==
  ASSUME NEW r \in Bytes
  PROVE  Joined(<< >>, r) <=> r = << >>
<1>1. ASSUME Joined(<< >>, r)  PROVE r = << >>
  BY <1>1 DEF Joined, Bytes
<1>2. ASSUME r = << >>  PROVE Joined(<< >>, r)
  <2> DEFINE cut == [i \in 0..0 |-> 0]
  <2>1. /\ cut \in [0..Len(<< >>) -> 0..Len(r)] /\ cut[0] = 0 /\ Len(<< >>) = 0 /\ Len(r) = 0
        /\ \A i, k \in 0..0 : cut[i] = 0 /\ cut[k] = 0
    BY <1>2
  <2> HIDE DEF cut
  <2> QED BY <2>1 DEF Joined
<1> QED BY <1>1, <1>2

LEMMA JoinedOne ==
  ASSUME NEW r \in Bytes
  PROVE  Joined(<<r>>, r)
<1> DEFINE cut == [i \in 0..1 |-> IF i = 0 THEN 0 ELSE Len(r)]
<1>1. Len(r) \in Nat /\ SubSeq(r, 1, Len(r)) = r
  BY SubSeqFull DEF Bytes
<1>2. cut \in [0..Len(<<r>>) -> 0..Len(r)] /\ cut[0] = 0 /\ cut[1] = Len(r) /\ Len(<<r>>) = 1
  BY <1>1
<1>3. \A i, k \in 0..1 : i <= k => cut[i] <= cut[k]
  BY <1>1
<1>4. ASSUME NEW i \in 1..1  PROVE <<r>>[i] = SubSeq(r, cut[i - 1] + 1, cut[i])
  <2>1. i = 1 /\ i - 1 = 0 /\ cut[i - 1] + 1 = 1
    BY <1>2
  <2> QED BY <2>1, <1>1, <1>2
<1> HIDE DEF cut
<1> QED BY <1>2, <1>3, <1>4 DEF Joined

LEMMA JoinedTail ==
  ASSUME NEW pieces \in Seq(Bytes), NEW r \in Bytes, Joined(pieces, r), pieces # << >>
  PROVE  \E q \in Bytes : Joined(Tail(pieces), q) /\ Head(pieces) \o q = r
<1> DEFINE n == Len(pieces)
<1>1. n \in Nat \ {0} /\ Len(Tail(pieces)) = n - 1 /\ Head(pieces) = pieces[1]
      /\ \A i \in 1..(n - 1) : Tail(pieces)[i] = pieces[i + 1]
  BY HeadTailProperties
<1>2. PICK cut \in [0..n -> 0..Len(r)] :
        /\ cut[0] = 0 /\ cut[n] = Len(r)
        /\ \A i, k \in 0..n : i <= k => cut[i] <= cut[k]
        /\ \A i \in 1..n : pieces[i] = SubSeq(r, cut[i - 1] + 1, cut[i])
  BY DEF Joined
<1> HIDE DEF n
<1> DEFINE a == cut[1]
           q == SubSeq(r, a + 1, Len(r))
           next == [i \in 0..(n - 1) |-> cut[i + 1] - a]
<1>3. Len(r) \in Nat /\ a \in 0..Len(r) /\ r \in Seq(Char)
  BY <1>1, <1>2 DEF Bytes
<1>4. q \in Seq(Char) /\ Len(q) = Len(r) - a /\ \A i \in 1..Len(q) : q[i] = r[a + i]
  <2>1. Len(r) \in a..Len(r)
    BY <1>3
  <2> HIDE DEF a
  <2> QED BY <2>1, <1>3, PartFields
<1>5. Head(pieces) \o q = r
  <2>1. Head(pieces) = SubSeq(r, 1, a)
    <3>1. 1 \in 1..n /\ cut[1 - 1] + 1 = 1
      BY <1>1, <1>2
    <3> QED BY <3>1, <1>1, <1>2
  <2>2. SubSeq(r, 1, a) \o SubSeq(r, a + 1, Len(r)) = SubSeq(r, 1, Len(r))
    <3>1. 1 \in 1..(Len(r) + 1) /\ a \in (1 - 1)..Len(r) /\ Len(r) \in a..Len(r)
      BY <1>3
    <3> QED BY <3>1, <1>3, ConcatAdjacentSubSeq, Zenon
  <2> QED BY <2>1, <2>2, <1>3, SubSeqFull
<1>6. ASSUME NEW i \in 0..(n - 1)
      PROVE  /\ next[i] = cut[i + 1] - a /\ i + 1 \in 0..n
             /\ cut[i + 1] \in 0..Len(r) /\ a <= cut[i + 1]
  BY <1>1, <1>2
<1>7. next \in [0..(n - 1) -> 0..Len(q)]
  <2>1. ASSUME NEW i \in 0..(n - 1)  PROVE cut[i + 1] - a \in 0..Len(q)
    <3>1. cut[i + 1] \in 0..Len(r) /\ a <= cut[i + 1]
      BY <1>6
    <3>2. a \in 0..Len(r) /\ Len(r) \in Nat /\ Len(q) = Len(r) - a
      BY <1>3, <1>4
    <3> HIDE DEF a, q
    <3> QED BY <3>1, <3>2
  <2> QED BY <2>1
<1>8. next[0] = 0 /\ next[n - 1] = Len(q)
  <2>1. 0 \in 0..(n - 1) /\ n - 1 \in 0..(n - 1) /\ 0 + 1 = 1 /\ (n - 1) + 1 = n
    BY <1>1
  <2>2. next[0] = cut[1] - a /\ next[n - 1] = cut[n] - a
    BY <2>1, <1>6
  <2> HIDE DEF next, q
  <2> QED BY <2>2, <1>2, <1>3, <1>4
<1>9. ASSUME NEW i \in 0..(n - 1), NEW k \in 0..(n - 1), i <= k  PROVE next[i] <= next[k]
  <2>1. cut[i + 1] <= cut[k + 1]
    BY <1>6, <1>2, <1>9
  <2> HIDE DEF next, a
  <2> QED BY <2>1, <1>6, <1>9, <1>3
<1>10. ASSUME NEW i \in 1..(n - 1)
       PROVE  Tail(pieces)[i] = SubSeq(q, next[i - 1] + 1, next[i])
  <2>0. i \in 0..(n - 1) /\ i - 1 \in 0..(n - 1) /\ (i - 1) + 1 = i /\ i + 1 \in 1..n
        /\ (i + 1) - 1 = i
    BY <1>1
  <2>1. Tail(pieces)[i] = SubSeq(r, cut[i] + 1, cut[i + 1])
    BY <2>0, <1>1, <1>2
  <2>2. next[i - 1] = cut[i] - a /\ next[i] = cut[i + 1] - a
    BY <2>0, <1>6
  <2>3. /\ cut[i] \in 0..Len(r) /\ cut[i + 1] \in 0..Len(r)
        /\ a <= cut[i] /\ cut[i] <= cut[i + 1]
    BY <2>0, <1>6, <1>2
  <2>4. \A x, y \in Nat : a <= x /\ x <= y /\ y <= Len(r) =>
          SubSeq(r, x + 1, y) = SubSeq(q, (x - a) + 1, y - a)
    <3> HIDE DEF a, q
    <3> TAKE x, y \in Nat
    <3> HAVE a <= x /\ x <= y /\ y <= Len(r)
    <3> DEFINE s == SubSeq(r, x + 1, y)
               u == SubSeq(q, (x - a) + 1, y - a)
    <3>1. s \in Seq(Char) /\ Len(s) = y - x /\ \A j \in 1..Len(s) : s[j] = r[x + j]
      BY <1>3, PartFields
    <3>2. u \in Seq(Char) /\ Len(u) = y - x /\ \A j \in 1..Len(u) : u[j] = q[(x - a) + j]
      <4> DEFINE x1 == x - a
                 y1 == y - a
      <4>1. x1 \in 0..Len(q) /\ y1 \in x1..Len(q) /\ y1 - x1 = y - x
        BY <1>3, <1>4
      <4>2. q \in Seq(Char)
        BY <1>4
      <4> HIDE DEF x1, y1
      <4>3. /\ SubSeq(q, x1 + 1, y1) \in Seq(Char)
            /\ Len(SubSeq(q, x1 + 1, y1)) = y1 - x1
            /\ \A j \in 1..(y1 - x1) : SubSeq(q, x1 + 1, y1)[j] = q[x1 + j]
        BY <4>1, <4>2, PartFields
      <4> QED BY <4>1, <4>3 DEF x1, y1
    <3>3. ASSUME NEW j \in 1..(y - x)  PROVE r[x + j] = q[(x - a) + j]
      BY <1>3, <1>4
    <3> HIDE DEF s, u
    <3>4. s = u
      BY <3>1, <3>2, <3>3, SeqEqual
    <3> QED BY <3>4 DEF s, u
  <2>5. cut[i] \in Nat /\ cut[i + 1] \in Nat /\ cut[i + 1] <= Len(r)
    BY <2>3, <1>3
  <2> HIDE DEF next, q, a
  <2>6. SubSeq(r, cut[i] + 1, cut[i + 1]) = SubSeq(q, (cut[i] - a) + 1, cut[i + 1] - a)
    BY <2>3, <2>4, <2>5
  <2> QED BY <2>1, <2>2, <2>6
<1> HIDE DEF next, q
<1>11. Joined(Tail(pieces), q)
  BY <1>1, <1>7, <1>8, <1>9, <1>10 DEF Joined
<1> QED BY <1>5, <1>11, <1>4 DEF Bytes

LEMMA SplitFields ==
  ASSUME NEW bytes \in Bytes
  PROVE  /\ Split(bytes).full \in Seq(Bytes) /\ Split(bytes).rest \in Bytes
         /\ Len(Split(bytes).rest) < WriteSize
         /\ \A i \in DOMAIN Split(bytes).full : Len(Split(bytes).full[i]) <= WriteSize
         /\ \E q \in Bytes : Joined(Split(bytes).full, q) /\ q \o Split(bytes).rest = bytes
         /\ Len(bytes) < WriteSize => Split(bytes).full = << >> /\ Split(bytes).rest = bytes
         /\ Len(bytes) >= WriteSize => Split(bytes).full # << >>
<1> DEFINE n == Len(bytes) \div WriteSize
           full == [i \in 1..n |-> SubSeq(bytes, (i - 1) * WriteSize + 1, i * WriteSize)]
           rest == SubSeq(bytes, n * WriteSize + 1, Len(bytes))
           q == SubSeq(bytes, 1, n * WriteSize)
           cut == [i \in 0..n |-> i * WriteSize]
<1>1. Split(bytes) = [full |-> full, rest |-> rest]
  BY DEF Split
<1>2. /\ Len(bytes) \in Nat /\ WriteSize \in Nat \ {0} /\ bytes \in Seq(Char)
  BY SizesAssumption DEF Bytes
<1>3. /\ n \in Nat
      /\ n * WriteSize \in Nat
      /\ n * WriteSize <= Len(bytes)
      /\ Len(bytes) < n * WriteSize + WriteSize
  BY <1>2
<1>4. Len(bytes) < WriteSize <=> n = 0
  BY <1>2
<1>5. \A i, k \in Nat : i <= k => i * WriteSize <= k * WriteSize
  BY <1>2
<1> HIDE DEF n
<1>6. \A i \in 0..n : i * WriteSize \in 0..(n * WriteSize)
  <2> TAKE i \in 0..n
  <2>1. i \in Nat /\ i <= n
    BY <1>3
  <2>2. i * WriteSize \in Nat
    BY <2>1, <1>2
  <2>3. i * WriteSize <= n * WriteSize
    BY <2>1, <1>3, <1>5
  <2> QED BY <2>2, <2>3, <1>3
<1>7. \A i \in 1..n : i * WriteSize = (i - 1) * WriteSize + WriteSize
  BY <1>2, <1>3
<1>8. /\ q \in Seq(Char) /\ Len(q) = n * WriteSize
      /\ \A j \in 1..(n * WriteSize) : q[j] = bytes[j]
  <2>1. /\ 0 \in 0..Len(bytes) /\ n * WriteSize \in 0..Len(bytes)
        /\ 0 + 1 = 1 /\ n * WriteSize - 0 = n * WriteSize
        /\ \A j \in 1..(n * WriteSize) : 0 + j = j
    BY <1>2, <1>3
  <2> QED BY <2>1, <1>2, PartFields
<1>9. rest \in Seq(Char) /\ Len(rest) = Len(bytes) - n * WriteSize
  <2>1. n * WriteSize \in 0..Len(bytes) /\ Len(bytes) \in (n * WriteSize)..Len(bytes)
    BY <1>2, <1>3
  <2> QED BY <2>1, <1>2, PartFields
<1>10. q \o rest = bytes
  <2>1. 1 \in 1..(Len(bytes) + 1) /\ n * WriteSize \in (1 - 1)..Len(bytes)
        /\ Len(bytes) \in (n * WriteSize)..Len(bytes)
    BY <1>2, <1>3
  <2>2. q \o rest = SubSeq(bytes, 1, Len(bytes))
    BY <2>1, <1>2, ConcatAdjacentSubSeq, Zenon
  <2> QED BY <2>2, <1>2, SubSeqFull
<1>11. ASSUME NEW i \in 1..n
       PROVE  /\ full[i] = SubSeq(bytes, (i - 1) * WriteSize + 1, i * WriteSize)
              /\ full[i] \in Seq(Char) /\ Len(full[i]) = WriteSize
              /\ full[i] = SubSeq(q, (i - 1) * WriteSize + 1, i * WriteSize)
  <2> DEFINE x == (i - 1) * WriteSize
             y == i * WriteSize
  <2>1. /\ x \in 0..(n * WriteSize) /\ y \in 0..(n * WriteSize) /\ y = x + WriteSize
    <3>1. i \in 0..n /\ i - 1 \in 0..n
      BY <1>3
    <3> QED BY <3>1, <1>6, <1>7
  <2>2. full[i] = SubSeq(bytes, x + 1, y)
    OBVIOUS
  <2> HIDE DEF x, y, full, q
  <2>3. /\ x \in 0..Len(bytes) /\ y \in x..Len(bytes) /\ x \in 0..Len(q) /\ y \in x..Len(q)
        /\ x \in Nat /\ y - x = WriteSize
    BY <2>1, <1>2, <1>3, <1>8
  <2>4. /\ SubSeq(bytes, x + 1, y) \in Seq(Char) /\ Len(SubSeq(bytes, x + 1, y)) = y - x
        /\ \A j \in 1..(y - x) : SubSeq(bytes, x + 1, y)[j] = bytes[x + j]
    BY <2>3, <1>2, PartFields
  <2>5. /\ SubSeq(q, x + 1, y) \in Seq(Char) /\ Len(SubSeq(q, x + 1, y)) = y - x
        /\ \A j \in 1..(y - x) : SubSeq(q, x + 1, y)[j] = q[x + j]
    BY <2>3, <1>8, PartFields
  <2>6. \A j \in 1..(y - x) : q[x + j] = bytes[x + j]
    BY <2>3, <1>8
  <2>7. SubSeq(bytes, x + 1, y) = SubSeq(q, x + 1, y)
    <3> DEFINE u == SubSeq(bytes, x + 1, y)
               v == SubSeq(q, x + 1, y)
    <3>1. u \in Seq(Char) /\ v \in Seq(Char) /\ Len(u) = Len(v)
      BY <2>4, <2>5
    <3>2. ASSUME NEW j \in 1..Len(u)  PROVE u[j] = v[j]
      BY <2>4, <2>5, <2>6
    <3> HIDE DEF u, v
    <3>3. u = v
      BY <3>1, <3>2, SeqEqual
    <3> QED BY <3>3 DEF u, v
  <2> QED BY <2>2, <2>3, <2>4, <2>7 DEF x, y
<1> HIDE DEF rest, q
<1>12. full \in Seq(Bytes) /\ Len(full) = n /\ DOMAIN full = 1..n
  <2>1. full \in [1..n -> Bytes]
    BY <1>11 DEF Bytes
  <2> HIDE DEF full
  <2> QED BY <2>1, <1>3
<1>13. Joined(full, q)
  <2>1. cut \in [0..n -> 0..(n * WriteSize)]
    BY <1>6
  <2>2. \A i \in 0..n : cut[i] = i * WriteSize
    OBVIOUS
  <2> HIDE DEF cut, full
  <2>3. cut[0] = 0 /\ cut[n] = n * WriteSize
    BY <2>2, <1>2, <1>3
  <2>4. \A i, k \in 0..n : i <= k => cut[i] <= cut[k]
    BY <2>2, <1>3, <1>5
  <2>5. \A i \in 1..n : full[i] = SubSeq(q, cut[i - 1] + 1, cut[i])
    <3> TAKE i \in 1..n
    <3>1. i \in 0..n /\ i - 1 \in 0..n
      BY <1>3
    <3> QED BY <3>1, <2>2, <1>11
  <2> QED BY <2>1, <2>3, <2>4, <2>5, <1>8, <1>12 DEF Joined
<1> HIDE DEF full
<1>14. Len(rest) < WriteSize
  BY <1>9, <1>2, <1>3
<1>15. Len(bytes) < WriteSize => full = << >> /\ rest = bytes
  <2> SUFFICES ASSUME Len(bytes) < WriteSize  PROVE full = << >> /\ rest = bytes
    OBVIOUS
  <2>1. n = 0 /\ n * WriteSize = 0
    BY <1>4, <1>2
  <2>2. full = << >> /\ Len(q) = 0 /\ q = << >>
    BY <2>1, <1>12, <1>8
  <2> QED BY <2>2, <1>10, <1>9, ConcatEmptySeq
<1>16. Len(bytes) >= WriteSize => full # << >>
  BY <1>4, <1>12, <1>2, <1>3
<1>17. \A i \in DOMAIN full : Len(full[i]) <= WriteSize
  BY <1>11, <1>12, <1>2
<1>18. Split(bytes).full = full /\ Split(bytes).rest = rest
  BY <1>1
<1>19. q \in Bytes /\ rest \in Bytes
  BY <1>8, <1>9 DEF Bytes
<1> QED
  BY <1>10, <1>12, <1>13, <1>14, <1>15, <1>16, <1>17, <1>18, <1>19

-----------------------------------------------------------------------------
(* The chains of promises                                                  *)

Chain ==
  [step : {"idle", "temp", "open", "write", "flush", "close", "move", "stat",
           "openread", "read", "statread"},
   readonly : BOOLEAN, at : Nat, buffer : Bytes, asked : Seq(Bytes),
   running : Seq(Bytes), bytes : Bytes]

(* A place where a line of t begins, or its end.                           *)
LineAt(t, p) == p = 0 \/ p = Len(t) \/ t[p] = Newline

(* A chain has encoded the text t up to its cursor.                        *)
EncodedTo(chain, t) ==
  chain.bytes = FileText(Slice(t, 0, chain.at)) /\ LineAt(t, chain.at)

(* All that is on its way behind the bytes c that are in the file.         *)
Queued(chain, c) ==
  \E q \in Bytes : Joined(chain.asked, q) /\ (c \o q) \o chain.buffer = chain.bytes

LEMMA Associative ==
  ASSUME NEW r \in Bytes, NEW s \in Bytes, NEW t \in Bytes
  PROVE  (r \o s) \o t = r \o (s \o t)
<1>1. r \in Seq(Char) /\ s \in Seq(Char) /\ t \in Seq(Char)
  BY DEF Bytes
<1> QED BY <1>1, ConcatAssociative

(* The chain w has what `chain` had and the lines of t up to `end`.        *)
WrittenOK(w, chain, t, c, end) ==
  /\ w \in Chain
  /\ w.step = "write" /\ w.at = end
  /\ w.running = chain.running /\ w.readonly = chain.readonly
  /\ Queued(w, c)
  /\ Len(w.buffer) < WriteSize
  /\ \A i \in DOMAIN w.asked : Len(w.asked[i]) <= WriteSize
  /\ LET all == chain.buffer \o FileText(Slice(t, chain.at, end))
     IN  /\ Len(all) < WriteSize => w.asked = << >> /\ w.buffer = all
         /\ Len(all) >= WriteSize => w.asked # << >>
  /\ EncodedTo(chain, t) => w.bytes = FileText(Slice(t, 0, end))

LEMMA WrittenFields ==
  ASSUME NEW t \in Bytes, NEW chain \in Chain, NEW c \in Bytes,
         chain.at \in 0..Len(t), c \o chain.buffer = chain.bytes,
         NEW end \in chain.at..Len(t)
  PROVE  WrittenOK(Written(chain, t, end), chain, t, c, end)
<1> DEFINE lines == FileText(Slice(t, chain.at, end))
           all == chain.buffer \o lines
           split == Split(all)
           w == Written(chain, t, end)
<1>1. /\ chain.buffer \in Bytes /\ chain.bytes \in Bytes /\ end \in Nat /\ end <= Len(t)
      /\ chain.at <= end
  BY DEF Chain, Bytes
<1>2. lines \in Bytes
  BY SliceFields, FileTextFields
<1> HIDE DEF lines
<1>3. all \in Bytes /\ chain.bytes \o lines \in Bytes
  BY <1>1, <1>2 DEF Bytes
<1>4. w = [chain EXCEPT !.step = "write", !.at = end, !.bytes = chain.bytes \o lines,
                        !.asked = split.full, !.buffer = split.rest]
  BY DEF Written, lines
<1> HIDE DEF all, w
<1>5. /\ split.full \in Seq(Bytes) /\ split.rest \in Bytes /\ Len(split.rest) < WriteSize
      /\ \A i \in DOMAIN split.full : Len(split.full[i]) <= WriteSize
      /\ \E q \in Bytes : Joined(split.full, q) /\ q \o split.rest = all
      /\ Len(all) < WriteSize => split.full = << >> /\ split.rest = all
      /\ Len(all) >= WriteSize => split.full # << >>
  BY <1>3, SplitFields
<1> HIDE DEF split
<1>6. /\ w.step = "write" /\ w.at = end /\ w.bytes = chain.bytes \o lines
      /\ w.asked = split.full /\ w.buffer = split.rest
      /\ w.running = chain.running /\ w.readonly = chain.readonly
      /\ w \in Chain
  <2>1. chain \in [step : {"idle", "temp", "open", "write", "flush", "close", "move", "stat",
                           "openread", "read", "statread"},
                   readonly : BOOLEAN, at : Nat, buffer : Bytes, asked : Seq(Bytes),
                   running : Seq(Bytes), bytes : Bytes]
    BY DEF Chain
  <2> DEFINE x == chain.bytes \o lines
  <2>2. /\ w = [chain EXCEPT !.step = "write", !.at = end, !.bytes = x,
                             !.asked = split.full, !.buffer = split.rest]
        /\ x \in Bytes /\ end \in Nat /\ split.full \in Seq(Bytes) /\ split.rest \in Bytes
    BY <1>1, <1>3, <1>4, <1>5
  <2> HIDE DEF x
  <2>3. w = [step |-> "write", readonly |-> chain.readonly, at |-> end,
             buffer |-> split.rest, asked |-> split.full, running |-> chain.running,
             bytes |-> x]
    BY <2>1, <2>2
  <2>4. chain.readonly \in BOOLEAN /\ chain.running \in Seq(Bytes)
    BY <2>1
  <2>5. w \in Chain
    BY <2>2, <2>3, <2>4 DEF Chain
  <2>6. /\ w.step = "write" /\ w.at = end /\ w.bytes = x
        /\ w.asked = split.full /\ w.buffer = split.rest
        /\ w.running = chain.running /\ w.readonly = chain.readonly
    BY <2>3
  <2> QED BY <2>5, <2>6 DEF x
<1>7. Queued(w, c)
  <2>1. PICK q \in Bytes : Joined(split.full, q) /\ q \o split.rest = all
    BY <1>5
  <2>2. (c \o q) \o split.rest = c \o (q \o split.rest)
    BY <1>5, Associative, Zenon
  <2>3. c \o (chain.buffer \o lines) = (c \o chain.buffer) \o lines
    BY <1>1, <1>2, Associative, Zenon
  <2>4. (c \o q) \o w.buffer = w.bytes
    <3>1. all = chain.buffer \o lines /\ c \o chain.buffer = chain.bytes
      BY DEF all
    <3> QED BY <3>1, <2>1, <2>2, <2>3, <1>6, Zenon
  <2> QED BY <2>1, <2>4, <1>6 DEF Queued
<1>8. EncodedTo(chain, t) => w.bytes = FileText(Slice(t, 0, end))
  <2>1. EncodedTo(chain, t) =>
          FileText(Slice(t, 0, chain.at)) \o lines = FileText(Slice(t, 0, end))
    BY WrittenInParts DEF EncodedTo, LineAt, lines
  <2> QED BY <2>1, <1>6 DEF EncodedTo
<1> QED BY <1>5, <1>6, <1>7, <1>8 DEF WrittenOK, w, all, lines

(* writeLoop leaves nothing out and writes nothing twice, whatever is in   *)
(* the buffer when it goes on.                                             *)
LEMMA WriteLoopFields ==
  ASSUME NEW t \in Bytes, NEW chain \in Chain, NEW c \in Bytes,
         chain.at \in 0..Len(t), Len(chain.buffer) < WriteSize,
         c \o chain.buffer = chain.bytes
  PROVE  LET w == WriteLoop(chain, t)
         IN  /\ w \in Chain
             /\ w.step \in {"write", "flush"}
             /\ w.step = "write" => w.at \in 0..Len(t) /\ Len(w.buffer) < WriteSize
             /\ w.step = "flush" => w.at = 0 /\ w.buffer = << >>
             /\ w.running = chain.running /\ w.readonly = chain.readonly
             /\ w.asked # << >>
             /\ \A i \in DOMAIN w.asked : Len(w.asked[i]) <= WriteSize
             /\ Queued(w, c)
             /\ EncodedTo(chain, t) =>
                  IF w.step = "write" THEN EncodedTo(w, t) ELSE w.bytes = FileText(t)
<1> DEFINE waits == Waits(chain, t)
           w == WriteLoop(chain, t)
<1>0. /\ Len(t) \in Nat /\ chain.at \in Nat /\ chain.at <= Len(t)
      /\ chain.buffer \in Seq(Char) /\ WriteSize \in Nat
  BY SizesAssumption DEF Chain, Bytes
<1>1. CASE waits # {}
  <2> DEFINE end == Min(waits)
  <2>1. waits \in SUBSET Nat
    <3>1. ASSUME NEW p \in waits  PROVE p \in (chain.at + 1)..Len(t)
      BY DEF Waits
    <3> QED BY <3>1, <1>0
  <2>2. end \in waits
    BY <1>1, <2>1, MinIsLeast
  <2>3. end \in (chain.at + 1)..Len(t) /\ (t[end] = Newline \/ end = Len(t))
        /\ Len(chain.buffer \o Encoded(Slice(t, chain.at, end))) >= WriteSize
    BY <2>2 DEF Waits
  <2> HIDE DEF end
  <2>4. w = Written(chain, t, end)
    BY <1>1 DEF WriteLoop, end
  <2>5. end \in chain.at..Len(t) /\ end \in 0..Len(t)
    BY <2>3, <1>0
  <2>6. FileText(Slice(t, chain.at, end)) = Encoded(Slice(t, chain.at, end))
    <3>1. Len(Slice(t, chain.at, end)) = end - chain.at
      BY <2>5, SliceFields
    <3>2. Slice(t, chain.at, end) # << >>
      BY <3>1, <2>3, <1>0
    <3> QED BY <3>2 DEF FileText
  <2> DEFINE v == Written(chain, t, end)
  <2>7. /\ v \in Chain
        /\ v.step = "write" /\ v.at = end
        /\ v.running = chain.running /\ v.readonly = chain.readonly
        /\ Queued(v, c)
        /\ Len(v.buffer) < WriteSize
        /\ \A i \in DOMAIN v.asked : Len(v.asked[i]) <= WriteSize
        /\ v.asked # << >>
        /\ EncodedTo(chain, t) => v.bytes = FileText(Slice(t, 0, end))
    <3>1. WrittenOK(v, chain, t, c, end)
      BY <2>5, WrittenFields
    <3> HIDE DEF v
    <3> QED BY <3>1, <2>3, <2>6 DEF WrittenOK
  <2> HIDE DEF v, w
  <2>8. w = v
    BY <2>4 DEF v
  <2>9. EncodedTo(chain, t) => EncodedTo(v, t)
    BY <2>3, <2>7 DEF EncodedTo, LineAt
  <2>10. v.step # "flush"
    BY <2>7
  <2> QED BY <2>5, <2>7, <2>8, <2>9, <2>10 DEF w
<1>2. CASE waits = {}
  <2> DEFINE v == Written(chain, t, Len(t))
             all == chain.buffer \o FileText(Slice(t, chain.at, Len(t)))
  <2>1. Len(t) \in chain.at..Len(t)
    BY <1>0
  <2>2. Len(all) < WriteSize
    <3>1. /\ Slice(t, chain.at, Len(t)) \in Bytes
          /\ Len(Slice(t, chain.at, Len(t))) = Len(t) - chain.at
      BY <2>1, SliceFields
    <3>2. CASE chain.at = Len(t)
      <4>1. Slice(t, chain.at, Len(t)) = << >>
        BY <3>1, <3>2, <1>0 DEF Bytes
      <4>2. all = chain.buffer
        BY <4>1, <1>0, ConcatEmptySeq DEF FileText
      <4> QED BY <4>2
    <3>3. CASE chain.at # Len(t)
      <4>1. Slice(t, chain.at, Len(t)) # << >>
        BY <3>1, <3>3, <1>0
      <4>2. Len(t) \in (chain.at + 1)..Len(t)
        BY <3>3, <1>0
      <4>3. ~ (Len(chain.buffer \o Encoded(Slice(t, chain.at, Len(t)))) >= WriteSize)
        BY <4>2, <1>2 DEF Waits
      <4>4. all \in Seq(Char)
        BY <3>1, <1>0, FileTextFields, ConcatProperties DEF Bytes
      <4>5. FileText(Slice(t, chain.at, Len(t))) = Encoded(Slice(t, chain.at, Len(t)))
        BY <4>1 DEF FileText
      <4>6. ~ (Len(all) >= WriteSize)
        BY <4>3, <4>5
      <4> HIDE DEF all
      <4> QED BY <4>4, <4>6, <1>0
    <3> QED BY <3>2, <3>3
  <2> HIDE DEF all
  <2>3. /\ v \in Chain
        /\ v.step = "write" /\ v.at = Len(t)
        /\ v.running = chain.running /\ v.readonly = chain.readonly
        /\ Queued(v, c)
        /\ Len(v.buffer) < WriteSize
        /\ v.asked = << >>
        /\ EncodedTo(chain, t) => v.bytes = FileText(Slice(t, 0, Len(t)))
    <3>1. WrittenOK(v, chain, t, c, Len(t))
      BY <2>1, WrittenFields
    <3> HIDE DEF v
    <3> QED BY <3>1, <2>2 DEF WrittenOK, all
  <2>4. w = Flushed(v)
    BY <1>2 DEF WriteLoop
  <2> HIDE DEF v, w
  <2>5. /\ w \in Chain /\ w.step = "flush" /\ w.at = 0 /\ w.buffer = << >>
        /\ w.asked = <<v.buffer>> /\ w.running = v.running /\ w.readonly = v.readonly
        /\ w.bytes = v.bytes
    <3>1. v.buffer \in Bytes /\ << >> \in Bytes
      BY <2>3 DEF Chain, Bytes
    <3>2. <<v.buffer>> \in Seq(Bytes)
      BY <3>1
    <3> QED BY <2>3, <2>4, <3>1, <3>2 DEF Flushed, Chain
  <2>6. v.buffer \in Bytes /\ v.bytes \in Bytes
    BY <2>3 DEF Chain
  <2>7. Queued(w, c)
    <3>1. PICK q \in Bytes : Joined(v.asked, q) /\ (c \o q) \o v.buffer = v.bytes
      BY <2>3 DEF Queued
    <3>2. q = << >>
      BY <3>1, <2>3, JoinedNone
    <3>3. c \o v.buffer = v.bytes
      BY <3>1, <3>2, ConcatEmptySeq DEF Bytes
    <3>4. (c \o v.buffer) \o << >> = v.bytes
      BY <3>3, <2>6, ConcatEmptySeq DEF Bytes
    <3>5. Joined(w.asked, v.buffer)
      BY <2>5, <2>6, JoinedOne
    <3> QED BY <3>4, <3>5, <2>5, <2>6 DEF Queued
  <2>8. w.asked # << >> /\ \A i \in DOMAIN w.asked : Len(w.asked[i]) <= WriteSize
    <3>1. DOMAIN w.asked = {1} /\ w.asked[1] = v.buffer /\ Len(v.buffer) \in Nat
      BY <2>5, <2>6 DEF Bytes
    <3> QED BY <3>1, <2>3, <1>0
  <2>9. EncodedTo(chain, t) => w.bytes = FileText(t)
    BY <2>3, <2>5, SliceAll
  <2> QED BY <2>3, <2>5, <2>7, <2>8, <2>9 DEF w
<1> QED BY <1>1, <1>2

-----------------------------------------------------------------------------
(* Insertions and what undoes them                                        *)

LEMMA InsertedText ==
  ASSUME NEW t \in Seq(Char), NEW s \in Seq(Char), NEW p \in 0..Len(t)
  PROVE  /\ Inserted(t, p, s) \in Seq(Char)
         /\ Len(Inserted(t, p, s)) = Len(t) + Len(s)
         /\ \A i \in 1..(Len(t) + Len(s)) :
              Inserted(t, p, s)[i] = IF i <= p THEN t[i]
                                     ELSE IF i <= p + Len(s) THEN s[i - p]
                                     ELSE t[i - Len(s)]
<1> DEFINE n == Len(t)
           m == Len(s)
<1>1. n \in Nat /\ m \in Nat /\ p \in Nat /\ p <= n
  OBVIOUS
<1>2. /\ \A i \in 1..n : t[i] \in Char
      /\ \A i \in 1..m : s[i] \in Char
  OBVIOUS
<1> DEFINE f == Inserted(t, p, s)
<1>3. f = [i \in 1..(n + m) |-> IF i <= p THEN t[i]
                                ELSE IF i <= p + m THEN s[i - p] ELSE t[i - m]]
  BY DEF Inserted
<1> HIDE DEF n, m, f
<1>4. ASSUME NEW i \in 1..(n + m)
      PROVE  (IF i <= p THEN t[i] ELSE IF i <= p + m THEN s[i - p] ELSE t[i - m]) \in Char
  BY <1>1, <1>2
<1>5. f \in [1..(n + m) -> Char]
  BY <1>3, <1>4
<1>6. f \in Seq(Char) /\ Len(f) = n + m
  BY <1>1, <1>5
<1> QED BY <1>3, <1>6 DEF n, m, f

LEMMA RemovedText ==
  ASSUME NEW t \in Seq(Char), NEW a \in 0..Len(t), NEW e \in a..Len(t)
  PROVE  /\ Removed(t, a, e) \in Seq(Char)
         /\ Len(Removed(t, a, e)) = Len(t) - (e - a)
         /\ \A i \in 1..(Len(t) - (e - a)) :
              Removed(t, a, e)[i] = IF i <= a THEN t[i] ELSE t[i + (e - a)]
<1> DEFINE n == Len(t)
           f == Removed(t, a, e)
<1>1. n \in Nat /\ a \in Nat /\ e \in Nat /\ a <= e /\ e <= n
  OBVIOUS
<1>2. \A i \in 1..n : t[i] \in Char
  OBVIOUS
<1>3. f = [i \in 1..(n - (e - a)) |-> IF i <= a THEN t[i] ELSE t[i + (e - a)]]
  BY DEF Removed
<1> HIDE DEF n, f
<1>4. ASSUME NEW i \in 1..(n - (e - a))
      PROVE  (IF i <= a THEN t[i] ELSE t[i + (e - a)]) \in Char
  BY <1>1, <1>2
<1>5. n - (e - a) \in Nat
  BY <1>1
<1>6. f \in Seq(Char) /\ Len(f) = n - (e - a)
  <2>1. f \in [1..(n - (e - a)) -> Char]
    BY <1>3, <1>4, Zenon
  <2> QED BY <2>1, <1>5
<1> QED BY <1>3, <1>6 DEF n, f

(* Undoing an insertion together with what is in [a, p) in front of it.    *)
LEMMA InsertUndone ==
  ASSUME NEW t \in Seq(Char), NEW s \in Seq(Char), NEW p \in 0..Len(t), NEW a \in 0..p
  PROVE  Removed(Inserted(t, p, s), a, p + Len(s)) = Removed(t, a, p)
<1> DEFINE n == Len(t)
           m == Len(s)
           u == Inserted(t, p, s)
           f == Removed(u, a, p + m)
           g == Removed(t, a, p)
<1>1. n \in Nat /\ m \in Nat /\ p \in Nat /\ a \in Nat /\ a <= p /\ p <= n
  OBVIOUS
<1>2. /\ u \in Seq(Char) /\ Len(u) = n + m
      /\ \A i \in 1..(n + m) :
           u[i] = IF i <= p THEN t[i] ELSE IF i <= p + m THEN s[i - p] ELSE t[i - m]
  BY InsertedText
<1>3. /\ g \in Seq(Char) /\ Len(g) = n - (p - a)
      /\ \A i \in 1..(n - (p - a)) : g[i] = IF i <= a THEN t[i] ELSE t[i + (p - a)]
  <2>1. a \in 0..Len(t) /\ p \in a..Len(t)
    BY <1>1
  <2> QED BY <2>1, RemovedText
<1> HIDE DEF u, n, m
<1>4. /\ f \in Seq(Char) /\ Len(f) = (n + m) - ((p + m) - a)
      /\ \A i \in 1..((n + m) - ((p + m) - a)) :
           f[i] = IF i <= a THEN u[i] ELSE u[i + ((p + m) - a)]
  <2>1. a \in 0..Len(u) /\ p + m \in a..Len(u)
    BY <1>1, <1>2
  <2>2. /\ f \in Seq(Char) /\ Len(f) = Len(u) - ((p + m) - a)
        /\ \A i \in 1..(Len(u) - ((p + m) - a)) :
             f[i] = IF i <= a THEN u[i] ELSE u[i + ((p + m) - a)]
    BY <1>2, <2>1, RemovedText
  <2> QED BY <1>2, <2>2
<1> HIDE DEF f, g
<1>5. Len(f) = Len(g)
  BY <1>1, <1>3, <1>4
<1>6. ASSUME NEW i \in 1..Len(f)  PROVE f[i] = g[i]
  <2>1. i \in 1..(n - (p - a)) /\ i \in 1..((n + m) - ((p + m) - a)) /\ i \in Int
    BY <1>5, <1>3, <1>4
  <2>2. CASE i <= a
    <3>1. i \in 1..(n + m) /\ i <= p
      BY <1>1, <2>1, <2>2
    <3> QED BY <1>2, <1>3, <1>4, <2>1, <2>2, <3>1
  <2>3. CASE i > a
    <3> DEFINE x == i + ((p + m) - a)
    <3>1. /\ x \in 1..(n + m) /\ x > p + m /\ x > p /\ x - m = i + (p - a)
          /\ ~ (x <= p) /\ ~ (x <= p + m) /\ ~ (i <= a)
      BY <1>1, <2>1, <2>3
    <3>2. f[i] = u[x] /\ g[i] = t[i + (p - a)]
      BY <1>3, <1>4, <2>1, <3>1
    <3> HIDE DEF x
    <3> QED BY <1>2, <3>1, <3>2
  <2> QED BY <1>1, <2>1, <2>2, <2>3
<1> QED BY <1>3, <1>4, <1>5, <1>6, SeqEqual DEF f, g, u, m, n

LEMMA NothingRemoved ==
  ASSUME NEW t \in Seq(Char), NEW p \in 0..Len(t)
  PROVE  Removed(t, p, p) = t
<1> DEFINE f == Removed(t, p, p)
           n == Len(t)
<1>1. n \in Nat /\ p \in 0..n /\ p \in p..n /\ n - (p - p) = n
  OBVIOUS
<1>2. /\ f \in Seq(Char) /\ Len(f) = n
      /\ \A i \in 1..n : f[i] = IF i <= p THEN t[i] ELSE t[i + (p - p)]
  BY <1>1, RemovedText
<1> HIDE DEF f, n
<1>3. ASSUME NEW i \in 1..n  PROVE f[i] = t[i]
  <2>1. i + (p - p) = i
    BY <1>1
  <2> QED BY <1>2, <2>1
<1> QED BY <1>2, <1>3, SeqEqual DEF f, n

-----------------------------------------------------------------------------
(* Undo steps                                                              *)

Steps == [start : Nat, end : Nat, revision : Nat]

(* The undo steps fit a text of length n: each the one that is there when  *)
(* the steps above it are undone.                                          *)
Fit(undo, n) ==
  \E len \in [1..(Len(undo) + 1) -> Nat] :
    /\ len[Len(undo) + 1] = n
    /\ \A i \in 1..Len(undo) :
         /\ undo[i].start < undo[i].end /\ undo[i].end <= len[i + 1]
         /\ len[i] = len[i + 1] - (undo[i].end - undo[i].start)

(* The revisions of the undo steps are lower and lower from the top, and   *)
(* the one that brings the saved revision back brings its text back.       *)
Remembers(undo, t, revision, saved, bytes) ==
  \E past \in [1..(Len(undo) + 1) -> Bytes] :
    /\ past[Len(undo) + 1] = t
    /\ \A i \in 1..Len(undo) :
         /\ undo[i].start <= undo[i].end /\ undo[i].end <= Len(past[i + 1])
         /\ past[i] = Removed(past[i + 1], undo[i].start, undo[i].end)
         /\ undo[i].revision < revision
         /\ \A k \in 1..(i - 1) : undo[k].revision < undo[i].revision
         /\ undo[i].revision = saved => FileText(past[i]) = FileText(bytes)

LEMMA AppendFields ==
  ASSUME NEW S, NEW q \in Seq(S), NEW x \in S
  PROVE  /\ Append(q, x) \in Seq(S) /\ Len(q) \in Nat
         /\ Len(Append(q, x)) = Len(q) + 1
         /\ \A i \in 1..(Len(q) + 1) : Append(q, x)[i] = IF i <= Len(q) THEN q[i] ELSE x
OBVIOUS

LEMMA FrontFields ==
  ASSUME NEW S, NEW q \in Seq(S), q # << >>
  PROVE  /\ Front(q) \in Seq(S) /\ Len(q) \in Nat \ {0} /\ Last(q) \in S
         /\ Last(q) = q[Len(q)] /\ Len(Front(q)) = Len(q) - 1
         /\ \A i \in 1..(Len(q) - 1) : Front(q)[i] = q[i]
<1>1. Len(q) \in Nat \ {0} /\ q[Len(q)] \in S /\ Len(q) - 1 \in 0..Len(q)
  OBVIOUS
<1>2. /\ SubSeq(q, 1, Len(q) - 1) \in Seq(S)
      /\ Len(SubSeq(q, 1, Len(q) - 1)) = Len(q) - 1
      /\ \A i \in 1..(Len(q) - 1) : SubSeq(q, 1, Len(q) - 1)[i] = q[i]
  <2> DEFINE n == Len(q) - 1
  <2>1. n \in 0..Len(q)
    BY <1>1
  <2> HIDE DEF n
  <2>2. /\ SubSeq(q, 1, n) \in Seq(S) /\ Len(SubSeq(q, 1, n)) = n
        /\ \A i \in 1..n : SubSeq(q, 1, n)[i] = q[i]
    <3>1. 0 + 1 = 1 /\ n - 0 = n /\ 0 \in 0..Len(q) /\ n \in 0..Len(q) /\ n \in Nat
      BY <1>1, <2>1
    <3> QED BY <2>1, <3>1
  <2> QED BY <2>2 DEF n
<1> QED BY <1>1, <1>2 DEF Front, Last

LEMMA StepFields ==
  ASSUME NEW s \in Steps
  PROVE  s.start \in Nat /\ s.end \in Nat /\ s.revision \in Nat
BY DEF Steps

LEMMA FitTop ==
  ASSUME NEW undo \in Seq(Steps), undo # << >>, NEW n \in Nat, Fit(undo, n)
  PROVE  /\ Last(undo).start < Last(undo).end /\ Last(undo).end <= n
         /\ Fit(Front(undo), n - (Last(undo).end - Last(undo).start))
<1> DEFINE m == Len(undo)
           w == Front(undo)
<1>1. /\ m \in Nat \ {0} /\ Last(undo) = undo[m] /\ Len(w) = m - 1
      /\ \A i \in 1..(m - 1) : w[i] = undo[i]
      /\ m \in 1..m
  BY FrontFields
<1>2. PICK len \in [1..(m + 1) -> Nat] :
        /\ len[m + 1] = n
        /\ \A i \in 1..m :
             /\ undo[i].start < undo[i].end /\ undo[i].end <= len[i + 1]
             /\ len[i] = len[i + 1] - (undo[i].end - undo[i].start)
  BY DEF Fit
<1> HIDE DEF m, w
<1>3. /\ Last(undo).start < Last(undo).end /\ Last(undo).end <= n
      /\ len[m] = n - (Last(undo).end - Last(undo).start)
  BY <1>1, <1>2
<1> DEFINE f == [i \in 1..m |-> len[i]]
<1>4. f \in [1..m -> Nat] /\ \A i \in 1..m : f[i] = len[i]
  BY <1>1, <1>2
<1> HIDE DEF f
<1>5. /\ f[Len(w) + 1] = n - (Last(undo).end - Last(undo).start)
      /\ \A i \in 1..Len(w) :
           /\ w[i].start < w[i].end /\ w[i].end <= f[i + 1]
           /\ f[i] = f[i + 1] - (w[i].end - w[i].start)
  <2>1. f[m] = len[m] /\ Len(w) + 1 = m
    BY <1>1, <1>4
  <2>2. ASSUME NEW i \in 1..Len(w)
        PROVE  /\ i \in 1..m /\ i + 1 \in 1..m /\ w[i] = undo[i]
               /\ f[i] = len[i] /\ f[i + 1] = len[i + 1]
    BY <1>1, <1>4
  <2> QED BY <1>2, <1>3, <2>1, <2>2
<1>6. f \in [1..(Len(w) + 1) -> Nat]
  BY <1>1, <1>4
<1>7. Fit(w, n - (Last(undo).end - Last(undo).start))
  BY <1>5, <1>6 DEF Fit
<1> QED BY <1>3, <1>7 DEF w

LEMMA FitPushed ==
  ASSUME NEW undo \in Seq(Steps), NEW s \in Steps, NEW n \in Nat, NEW n2 \in Nat,
         Fit(undo, n), s.start < s.end, s.end <= n2, n = n2 - (s.end - s.start)
  PROVE  Fit(Append(undo, s), n2)
<1> DEFINE m == Len(undo)
           w == Append(undo, s)
<1>1. /\ m \in Nat /\ Len(w) = m + 1
      /\ \A i \in 1..(m + 1) : w[i] = IF i <= m THEN undo[i] ELSE s
  BY AppendFields
<1>2. PICK len \in [1..(m + 1) -> Nat] :
        /\ len[m + 1] = n
        /\ \A i \in 1..m :
             /\ undo[i].start < undo[i].end /\ undo[i].end <= len[i + 1]
             /\ len[i] = len[i + 1] - (undo[i].end - undo[i].start)
  BY DEF Fit
<1> HIDE DEF m, w
<1> DEFINE f == [i \in 1..(m + 2) |-> IF i <= m + 1 THEN len[i] ELSE n2]
<1>3. /\ f \in [1..(m + 2) -> Nat] /\ f[m + 2] = n2
      /\ \A i \in 1..(m + 1) : f[i] = len[i]
  BY <1>1, <1>2
<1> HIDE DEF f
<1>4. ASSUME NEW i \in 1..(m + 1)
      PROVE  /\ w[i].start < w[i].end /\ w[i].end <= f[i + 1]
             /\ f[i] = f[i + 1] - (w[i].end - w[i].start)
  <2>1. CASE i = m + 1
    <3>1. w[i] = s /\ f[i] = n /\ f[i + 1] = n2
      BY <1>1, <1>2, <1>3, <2>1
    <3> QED BY <3>1
  <2>2. CASE i # m + 1
    <3>1. i \in 1..m /\ i + 1 \in 1..(m + 1) /\ w[i] = undo[i]
          /\ f[i] = len[i] /\ f[i + 1] = len[i + 1]
      BY <1>1, <1>3, <2>2
    <3> QED BY <1>2, <3>1
  <2> QED BY <2>1, <2>2
<1>5. f \in [1..(Len(w) + 1) -> Nat] /\ f[Len(w) + 1] = n2 /\ Len(w) = m + 1
  BY <1>1, <1>3
<1> QED BY <1>4, <1>5 DEF Fit, w

LEMMA RemembersTop ==
  ASSUME NEW undo \in Seq(Steps), undo # << >>, NEW t \in Bytes, NEW revision \in Nat,
         NEW saved \in Nat, NEW bytes \in Bytes, Remembers(undo, t, revision, saved, bytes)
  PROVE  LET s == Last(undo)
             u == Removed(t, s.start, s.end)
         IN  /\ s.start <= s.end /\ s.end <= Len(t) /\ s.revision < revision
             /\ u \in Bytes
             /\ s.revision = saved => FileText(u) = FileText(bytes)
             /\ Remembers(Front(undo), u, s.revision, saved, bytes)
<1> DEFINE m == Len(undo)
           w == Front(undo)
           s == Last(undo)
           u == Removed(t, s.start, s.end)
<1>1. /\ m \in Nat \ {0} /\ s = undo[m] /\ Len(w) = m - 1
      /\ \A i \in 1..(m - 1) : w[i] = undo[i]
      /\ m \in 1..m
  BY FrontFields
<1>2. PICK past \in [1..(m + 1) -> Bytes] :
        /\ past[m + 1] = t
        /\ \A i \in 1..m :
             /\ undo[i].start <= undo[i].end /\ undo[i].end <= Len(past[i + 1])
             /\ past[i] = Removed(past[i + 1], undo[i].start, undo[i].end)
             /\ undo[i].revision < revision
             /\ \A k \in 1..(i - 1) : undo[k].revision < undo[i].revision
             /\ undo[i].revision = saved => FileText(past[i]) = FileText(bytes)
  BY DEF Remembers
<1>3. /\ s.start <= s.end /\ s.end <= Len(t) /\ s.revision < revision
      /\ past[m] = u /\ past[m] \in Bytes
      /\ s.revision = saved => FileText(past[m]) = FileText(bytes)
  <2>1. m \in 1..(m + 1) /\ past[m + 1] = t
    BY <1>1, <1>2
  <2> HIDE DEF m
  <2> QED BY <1>1, <1>2, <2>1
<1> HIDE DEF m, w, s, u
<1> DEFINE f == [i \in 1..m |-> past[i]]
<1>4. f \in [1..m -> Bytes] /\ \A i \in 1..m : f[i] = past[i]
  BY <1>1, <1>2
<1> HIDE DEF f
<1>5. ASSUME NEW i \in 1..Len(w)
      PROVE  /\ w[i].start <= w[i].end /\ w[i].end <= Len(f[i + 1])
             /\ f[i] = Removed(f[i + 1], w[i].start, w[i].end)
             /\ w[i].revision < s.revision
             /\ \A k \in 1..(i - 1) : w[k].revision < w[i].revision
             /\ w[i].revision = saved => FileText(f[i]) = FileText(bytes)
  <2>1. /\ i \in 1..m /\ i + 1 \in 1..m /\ w[i] = undo[i] /\ i \in 1..(m - 1)
        /\ f[i] = past[i] /\ f[i + 1] = past[i + 1]
    BY <1>1, <1>4
  <2>2. \A k \in 1..(i - 1) : w[k] = undo[k]
    BY <1>1, <2>1
  <2>3. undo[i].revision < undo[m].revision
    BY <1>1, <1>2, <2>1
  <2>4. /\ w[i].revision < s.revision
        /\ \A k \in 1..(i - 1) : w[k].revision < w[i].revision
    BY <1>1, <1>2, <2>1, <2>2, <2>3
  <2> QED BY <1>2, <2>1, <2>4
<1>6. f \in [1..(Len(w) + 1) -> Bytes] /\ f[Len(w) + 1] = u
  BY <1>1, <1>3, <1>4
<1>7. Remembers(w, u, s.revision, saved, bytes)
  BY <1>5, <1>6 DEF Remembers
<1> QED BY <1>3, <1>7 DEF w, s, u

LEMMA RemembersPushed ==
  ASSUME NEW undo \in Seq(Steps), NEW t \in Bytes, NEW revision \in Nat,
         NEW saved \in Nat, NEW bytes \in Bytes, Remembers(undo, t, revision, saved, bytes),
         NEW s \in Steps, NEW u \in Bytes, NEW revision2 \in Nat,
         s.start <= s.end, s.end <= Len(u), Removed(u, s.start, s.end) = t,
         s.revision = revision, revision < revision2,
         revision = saved => FileText(t) = FileText(bytes)
  PROVE  Remembers(Append(undo, s), u, revision2, saved, bytes)
<1> DEFINE m == Len(undo)
           w == Append(undo, s)
<1>1. /\ m \in Nat /\ Len(w) = m + 1
      /\ \A i \in 1..(m + 1) : w[i] = IF i <= m THEN undo[i] ELSE s
      /\ \A i \in 1..m : undo[i].revision \in Nat
  <2>1. \A i \in 1..m : undo[i] \in Steps
    OBVIOUS
  <2> QED BY <2>1, AppendFields, StepFields
<1>2. PICK past \in [1..(m + 1) -> Bytes] :
        /\ past[m + 1] = t
        /\ \A i \in 1..m :
             /\ undo[i].start <= undo[i].end /\ undo[i].end <= Len(past[i + 1])
             /\ past[i] = Removed(past[i + 1], undo[i].start, undo[i].end)
             /\ undo[i].revision < revision
             /\ \A k \in 1..(i - 1) : undo[k].revision < undo[i].revision
             /\ undo[i].revision = saved => FileText(past[i]) = FileText(bytes)
  BY DEF Remembers
<1> HIDE DEF m, w
<1> DEFINE f == [i \in 1..(m + 2) |-> IF i <= m + 1 THEN past[i] ELSE u]
<1>3. /\ f \in [1..(m + 2) -> Bytes] /\ f[m + 2] = u
      /\ \A i \in 1..(m + 1) : f[i] = past[i]
  BY <1>1, <1>2
<1> HIDE DEF f
<1>4. ASSUME NEW i \in 1..(m + 1)
      PROVE  /\ w[i].start <= w[i].end /\ w[i].end <= Len(f[i + 1])
             /\ f[i] = Removed(f[i + 1], w[i].start, w[i].end)
             /\ w[i].revision < revision2
             /\ \A k \in 1..(i - 1) : w[k].revision < w[i].revision
             /\ w[i].revision = saved => FileText(f[i]) = FileText(bytes)
  <2>0. \A k \in 1..(i - 1) : k \in 1..m /\ w[k] = undo[k]
    BY <1>1
  <2>1. CASE i = m + 1
    <3>1. w[i] = s /\ f[i] = t /\ f[i + 1] = u
      BY <1>1, <1>2, <1>3, <2>1
    <3> QED BY <1>2, <2>0, <3>1
  <2>2. CASE i # m + 1
    <3>1. i \in 1..m /\ i + 1 \in 1..(m + 1) /\ w[i] = undo[i]
          /\ f[i] = past[i] /\ f[i + 1] = past[i + 1]
      BY <1>1, <1>3, <2>2
    <3>2. undo[i].revision \in Nat /\ undo[i].revision < revision
      BY <1>1, <1>2, <3>1
    <3>3. w[i].revision < revision2
      BY <3>1, <3>2
    <3>4. ASSUME NEW k \in 1..(i - 1)  PROVE w[k].revision < w[i].revision
      <4>1. undo[k].revision < undo[i].revision
        BY <1>2, <3>1
      <4> QED BY <2>0, <3>1, <4>1
    <3> QED BY <1>2, <3>1, <3>3, <3>4
  <2> QED BY <2>1, <2>2
<1>5. f \in [1..(Len(w) + 1) -> Bytes] /\ f[Len(w) + 1] = u /\ Len(w) = m + 1
  BY <1>1, <1>3
<1> QED BY <1>4, <1>5 DEF Remembers, w

-----------------------------------------------------------------------------
(* The document                                                            *)

Documents ==
  [text : Bytes, revision : Nat, saved : Nat, undo : Seq(Steps), readonly : BOOLEAN,
   obsolete : {"UNKNOWN", "CHECKING", "NO", "YES"}]

Kinds == {"linear", "undone", "branched"}

DocumentInv(doc) == doc \in Documents /\ Fit(doc.undo, Len(doc.text))

(* What a revision tells of the text as long as edits have not branched.   *)
EditsInv(doc, bytes, edits) ==
  edits # "branched" =>
    /\ ~Modified(doc) => FileText(doc.text) = FileText(bytes)
    /\ edits = "linear" => doc.saved <= doc.revision
    /\ Remembers(doc.undo, doc.text, doc.revision, doc.saved, bytes)

(* Nothing that DocumentInv and EditsInv tell of has changed.              *)
Kept(doc, new) ==
  /\ new \in Documents /\ new.text = doc.text /\ new.revision = doc.revision
  /\ new.saved = doc.saved /\ new.undo = doc.undo

LEMMA DocumentFields ==
  ASSUME NEW doc \in Documents
  PROVE  /\ doc.text \in Bytes /\ Len(doc.text) \in Nat /\ doc.revision \in Nat
         /\ doc.saved \in Nat /\ doc.undo \in Seq(Steps) /\ doc.readonly \in BOOLEAN
BY DEF Documents, Bytes

LEMMA KeptDocument ==
  ASSUME NEW doc, NEW new, DocumentInv(doc), Kept(doc, new)
  PROVE  DocumentInv(new)
BY DEF DocumentInv, Kept

LEMMA KeptEdits ==
  ASSUME NEW doc, NEW new, Kept(doc, new), NEW bytes, NEW edits, EditsInv(doc, bytes, edits)
  PROVE  EditsInv(new, bytes, edits)
BY DEF Kept, EditsInv, Modified

LEMMA RecordedFields ==
  ASSUME NEW doc, DocumentInv(doc), NEW p \in 0..Len(doc.text), NEW s \in Bytes, s # << >>
  PROVE  LET after == Inserted(doc.text, p, s)
             undo == Recorded(doc, p, s)
         IN  /\ after \in Bytes /\ Len(after) = Len(doc.text) + Len(s)
             /\ undo \in Seq(Steps) /\ Fit(undo, Len(after))
             /\ \A saved \in Nat, bytes \in Bytes :
                  /\ ~Precedes(doc, p, s)
                  /\ Remembers(doc.undo, doc.text, doc.revision, saved, bytes)
                  /\ doc.revision = saved => FileText(doc.text) = FileText(bytes)
                  => Remembers(undo, after, doc.revision + 1, saved, bytes)
<1> DEFINE t == doc.text
           n == Len(t)
           m == Len(s)
           after == Inserted(t, p, s)
           undo == Recorded(doc, p, s)
           q == doc.undo
           rest == Front(q)
           last == Last(q)
           rev == doc.revision
           rev2 == rev + 1
<1>1. /\ doc \in Documents /\ t \in Seq(Char) /\ s \in Seq(Char) /\ t \in Bytes
      /\ n \in Nat /\ m \in Nat \ {0} /\ p \in Nat /\ p <= n /\ p \in 0..n
      /\ q \in Seq(Steps) /\ rev \in Nat /\ rev2 \in Nat /\ rev < rev2 /\ Fit(q, n)
  BY DocumentFields DEF DocumentInv, Bytes
<1>2. after \in Bytes /\ Len(after) = n + m
  BY <1>1, InsertedText DEF Bytes
<1>3. ASSUME q # << >>
      PROVE  /\ last \in Steps /\ rest \in Seq(Steps)
             /\ last.start \in Nat /\ last.end \in Nat /\ last.revision \in Nat
             /\ last.start < last.end /\ last.end <= n
             /\ Fit(rest, n - (last.end - last.start))
  BY <1>1, <1>3, FrontFields, StepFields, FitTop
<1> HIDE DEF t, n, m, after, q, rest, last, rev, rev2
<1>4. CASE Follows(doc, p)
  <2> DEFINE e == [last EXCEPT !.end = p + m]
             k == n - (last.end - last.start)
  <2>1. q # << >> /\ last.end = p
    BY <1>4 DEF Follows, q, last
  <2>2. /\ e \in Steps /\ e.start = last.start /\ e.end = p + m
        /\ e.revision = last.revision
    <3> DEFINE end == p + m
    <3>1. end \in Nat /\ last \in Steps
      BY <1>1, <1>3, <2>1
    <3>2. e = [last EXCEPT !.end = end]
      OBVIOUS
    <3> HIDE DEF e, end
    <3>3. e \in Steps /\ e.start = last.start /\ e.end = end /\ e.revision = last.revision
      BY <3>1, <3>2 DEF Steps
    <3> QED BY <3>3 DEF end
  <2>3. undo = Append(rest, e)
    BY <1>4 DEF Recorded, rest, last, q, m
  <2> HIDE DEF e, undo
  <2>4. k \in Nat /\ e.start < e.end /\ e.end <= n + m /\ k = (n + m) - (e.end - e.start)
        /\ n + m \in Nat
    BY <1>1, <1>3, <2>1, <2>2
  <2> HIDE DEF k
  <2>5. undo \in Seq(Steps) /\ Fit(undo, n + m)
    <3>1. Fit(rest, k)
      BY <1>3, <2>1 DEF k
    <3> QED BY <1>3, <2>1, <2>2, <2>3, <2>4, <3>1, FitPushed, AppendFields
  <2>6. ASSUME NEW saved \in Nat, NEW bytes \in Bytes, Remembers(q, t, rev, saved, bytes)
        PROVE  Remembers(undo, after, rev2, saved, bytes)
    <3> DEFINE u == Removed(t, last.start, last.end)
    <3>1. /\ last.revision < rev /\ u \in Bytes
          /\ last.revision = saved => FileText(u) = FileText(bytes)
          /\ Remembers(rest, u, last.revision, saved, bytes)
      BY <1>1, <2>1, <2>6, RemembersTop DEF rest, last
    <3>2. Removed(after, e.start, e.end) = u
      <4>1. last.start \in 0..p
        BY <1>3, <1>1, <2>1
      <4>2. Removed(Inserted(t, p, s), last.start, p + Len(s)) = Removed(t, last.start, p)
        BY <1>1, <4>1, InsertUndone DEF n
      <4> QED BY <2>1, <2>2, <4>2 DEF after, m
    <3> HIDE DEF u
    <3>3. last.revision < rev2 /\ e.start <= e.end /\ e.end <= Len(after)
      BY <1>1, <1>2, <1>3, <2>1, <2>2, <2>4, <3>1
    <3> QED BY <1>1, <1>2, <1>3, <2>1, <2>2, <2>3, <3>1, <3>2, <3>3, RemembersPushed
  <2> QED BY <1>2, <2>5, <2>6 DEF undo, after, t, q, n, rev, rev2, m
<1>5. CASE ~ Follows(doc, p) /\ Precedes(doc, p, s)
  <2> DEFINE e == [last EXCEPT !.start = p]
             k == n - (last.end - last.start)
  <2>1. q # << >> /\ last.start = p + m
    BY <1>5 DEF Precedes, q, last, m
  <2>2. /\ e \in Steps /\ e.start = p /\ e.end = last.end
    BY <1>1, <1>3, <2>1 DEF Steps
  <2>3. undo = Append(rest, e)
    BY <1>5 DEF Recorded, rest, last, q
  <2> HIDE DEF e, undo
  <2>4. k \in Nat /\ e.start < e.end /\ e.end <= n + m /\ k = (n + m) - (e.end - e.start)
        /\ n + m \in Nat
    BY <1>1, <1>3, <2>1, <2>2
  <2> HIDE DEF k
  <2>5. undo \in Seq(Steps) /\ Fit(undo, n + m)
    <3>1. Fit(rest, k)
      BY <1>3, <2>1 DEF k
    <3> QED BY <1>3, <2>1, <2>2, <2>3, <2>4, <3>1, FitPushed, AppendFields
  <2> QED BY <1>2, <1>5, <2>5 DEF undo, after, t, q, n, rev, m
<1>6. CASE ~ Follows(doc, p) /\ ~ Precedes(doc, p, s)
  <2> DEFINE e == [start |-> p, end |-> p + m, revision |-> rev]
  <2>1. /\ e \in Steps /\ e.start = p /\ e.end = p + m /\ e.revision = rev
    BY <1>1 DEF Steps
  <2>2. undo = Append(q, e)
    BY <1>6 DEF Recorded, q, m, rev
  <2> HIDE DEF e, undo
  <2>3. e.start < e.end /\ e.end <= n + m /\ n = (n + m) - (e.end - e.start) /\ n + m \in Nat
        /\ e.start <= e.end
    BY <1>1, <2>1
  <2>4. undo \in Seq(Steps) /\ Fit(undo, n + m)
    BY <1>1, <2>1, <2>2, <2>3, FitPushed, AppendFields
  <2>5. ASSUME NEW saved \in Nat, NEW bytes \in Bytes, Remembers(q, t, rev, saved, bytes),
               rev = saved => FileText(t) = FileText(bytes)
        PROVE  Remembers(undo, after, rev2, saved, bytes)
    <3>1. Removed(after, e.start, e.end) = t
      <4>1. /\ Removed(Inserted(t, p, s), p, p + Len(s)) = Removed(t, p, p)
            /\ Removed(t, p, p) = t
        <5>1. p \in 0..p
          BY <1>1
        <5> QED BY <1>1, <5>1, InsertUndone, NothingRemoved DEF n
      <4> QED BY <2>1, <4>1 DEF after, m
    <3> QED BY <1>1, <1>2, <2>1, <2>2, <2>3, <2>5, <3>1, RemembersPushed
  <2> QED BY <1>2, <2>4, <2>5 DEF undo, after, t, q, n, rev, rev2, m
<1> QED BY <1>4, <1>5, <1>6

LEMMA InsertedIntoFields ==
  ASSUME NEW doc, DocumentInv(doc), NEW p \in 0..Len(doc.text), NEW s \in Bytes, s # << >>
  PROVE  LET new == InsertedInto(doc, p, s)
         IN  /\ DocumentInv(new) /\ new.text = Inserted(doc.text, p, s)
             /\ new.text \in Bytes /\ Len(new.text) = Len(doc.text) + Len(s)
             /\ new.readonly = doc.readonly /\ new.obsolete = doc.obsolete
             /\ \A bytes \in Bytes, edits \in Kinds :
                  EditsInv(doc, bytes, edits) =>
                    EditsInv(new, bytes,
                      IF edits = "linear" /\ ~Precedes(doc, p, s) THEN edits ELSE "branched")
<1> DEFINE new == InsertedInto(doc, p, s)
           after == Inserted(doc.text, p, s)
           undo == Recorded(doc, p, s)
<1>1. doc \in Documents /\ doc.revision \in Nat /\ doc.saved \in Nat
  BY DocumentFields DEF DocumentInv
<1>2. /\ after \in Bytes /\ Len(after) = Len(doc.text) + Len(s)
      /\ undo \in Seq(Steps) /\ Fit(undo, Len(after))
  BY RecordedFields
<1>3. ASSUME NEW bytes \in Bytes, ~Precedes(doc, p, s),
             Remembers(doc.undo, doc.text, doc.revision, doc.saved, bytes),
             doc.revision = doc.saved => FileText(doc.text) = FileText(bytes)
      PROVE  Remembers(undo, after, doc.revision + 1, doc.saved, bytes)
  BY <1>1, <1>3, RecordedFields
<1> HIDE DEF after, undo
<1>4. /\ new \in Documents /\ new.text = after /\ new.undo = undo
      /\ new.revision = doc.revision + 1 /\ new.saved = doc.saved
      /\ new.readonly = doc.readonly /\ new.obsolete = doc.obsolete
  <2>1. new = [doc EXCEPT !.text = after, !.revision = @ + 1, !.undo = undo]
    BY DEF InsertedInto, after, undo
  <2>2. doc.revision + 1 \in Nat
    BY <1>1
  <2> HIDE DEF new
  <2> QED BY <1>1, <1>2, <2>1, <2>2 DEF Documents
<1> HIDE DEF new
<1>5. DocumentInv(new)
  BY <1>2, <1>4 DEF DocumentInv
<1>6. ASSUME NEW bytes \in Bytes, NEW edits \in Kinds, EditsInv(doc, bytes, edits),
             edits = "linear", ~Precedes(doc, p, s)
      PROVE  EditsInv(new, bytes, edits)
  <2>1. /\ ~Modified(doc) => FileText(doc.text) = FileText(bytes)
        /\ doc.saved <= doc.revision
        /\ Remembers(doc.undo, doc.text, doc.revision, doc.saved, bytes)
    BY <1>6 DEF EditsInv
  <2>2. Modified(new) /\ new.saved <= new.revision
    BY <1>1, <1>4, <2>1 DEF Modified
  <2>3. Remembers(undo, after, doc.revision + 1, doc.saved, bytes)
    BY <1>3, <1>6, <2>1 DEF Modified
  <2> QED BY <1>4, <2>2, <2>3 DEF EditsInv
<1>7. \A bytes : EditsInv(new, bytes, "branched")
  BY DEF EditsInv
<1> QED BY <1>2, <1>4, <1>5, <1>6, <1>7 DEF new, after

(* What an undo leaves.                                                    *)
UndoneFrom(doc) ==
  LET step == Last(doc.undo)
  IN  [doc EXCEPT !.text = Removed(@, step.start, step.end),
                  !.revision = step.revision, !.undo = Front(@)]

LEMMA UndoneFields ==
  ASSUME NEW doc, DocumentInv(doc), doc.undo # << >>
  PROVE  LET new == UndoneFrom(doc)
             step == Last(doc.undo)
         IN  /\ DocumentInv(new) /\ new.text \in Bytes
             /\ new.readonly = doc.readonly /\ new.obsolete = doc.obsolete
             /\ step.start \in 0..Len(doc.text) /\ step.end \in step.start..Len(doc.text)
             /\ Len(new.text) = Len(doc.text) - (step.end - step.start)
             /\ \A bytes \in Bytes, edits \in Kinds :
                  EditsInv(doc, bytes, edits) =>
                    EditsInv(new, bytes, IF edits = "linear" THEN "undone" ELSE edits)
<1> DEFINE new == UndoneFrom(doc)
           s == Last(doc.undo)
           rest == Front(doc.undo)
           u == Removed(doc.text, s.start, s.end)
<1>1. /\ doc \in Documents /\ doc.text \in Bytes /\ Len(doc.text) \in Nat
      /\ doc.revision \in Nat /\ doc.saved \in Nat /\ doc.undo \in Seq(Steps)
      /\ Fit(doc.undo, Len(doc.text))
  BY DocumentFields DEF DocumentInv
<1>2. /\ s \in Steps /\ rest \in Seq(Steps)
      /\ s.start \in Nat /\ s.end \in Nat /\ s.revision \in Nat
      /\ s.start < s.end /\ s.end <= Len(doc.text)
      /\ Fit(rest, Len(doc.text) - (s.end - s.start))
  BY <1>1, FrontFields, StepFields, FitTop
<1> HIDE DEF s, rest
<1>3. s.start \in 0..Len(doc.text) /\ s.end \in s.start..Len(doc.text)
  BY <1>1, <1>2
<1>4. u \in Bytes /\ Len(u) = Len(doc.text) - (s.end - s.start)
  BY <1>1, <1>3, RemovedText DEF Bytes
<1>5. ASSUME NEW bytes \in Bytes,
             Remembers(doc.undo, doc.text, doc.revision, doc.saved, bytes)
      PROVE  /\ s.revision = doc.saved => FileText(u) = FileText(bytes)
             /\ Remembers(rest, u, s.revision, doc.saved, bytes)
  BY <1>1, <1>5, RemembersTop DEF s, rest
<1> HIDE DEF u
<1>6. /\ new \in Documents /\ new.text = u /\ new.undo = rest
      /\ new.revision = s.revision /\ new.saved = doc.saved
      /\ new.readonly = doc.readonly /\ new.obsolete = doc.obsolete
  <2>1. new = [doc EXCEPT !.text = u, !.revision = s.revision, !.undo = rest]
    BY DEF UndoneFrom, u, s, rest
  <2> HIDE DEF new
  <2> QED BY <1>1, <1>2, <1>4, <2>1 DEF Documents
<1> HIDE DEF new
<1>7. DocumentInv(new)
  BY <1>2, <1>4, <1>6 DEF DocumentInv
<1>8. ASSUME NEW bytes \in Bytes, NEW edits \in Kinds, EditsInv(doc, bytes, edits)
      PROVE  EditsInv(new, bytes, IF edits = "linear" THEN "undone" ELSE edits)
  <2>1. CASE edits = "branched"
    BY <2>1 DEF EditsInv
  <2>2. CASE edits # "branched"
    <3>1. Remembers(doc.undo, doc.text, doc.revision, doc.saved, bytes)
      BY <1>8, <2>2 DEF EditsInv
    <3>2. /\ s.revision = doc.saved => FileText(u) = FileText(bytes)
          /\ Remembers(rest, u, s.revision, doc.saved, bytes)
      BY <1>5, <3>1
    <3>3. (IF edits = "linear" THEN "undone" ELSE edits) = "undone"
      BY <2>2 DEF Kinds
    <3> QED BY <1>6, <3>2, <3>3 DEF EditsInv, Modified
  <2> QED BY <2>1, <2>2
<1> QED BY <1>3, <1>4, <1>6, <1>7, <1>8 DEF new, s

(* A document whose text is known to be the shared one: it was saved, or   *)
(* it was loaded and its undo steps were cleared.                          *)
LEMMA SharedEdits ==
  ASSUME NEW doc \in Documents, NEW bytes \in Bytes, NEW edits \in Kinds,
         doc.saved = doc.revision, FileText(doc.text) = FileText(bytes),
         edits # "branched" =>
           \E old \in Nat, b \in Bytes :
             Remembers(doc.undo, doc.text, doc.revision, old, b)
  PROVE  EditsInv(doc, bytes, edits)
<1> SUFFICES ASSUME edits # "branched"
             PROVE  Remembers(doc.undo, doc.text, doc.revision, doc.saved, bytes)
  <2>1. doc.saved \in Nat
    BY DocumentFields
  <2> QED BY <2>1 DEF EditsInv
<1>1. PICK old \in Nat, b \in Bytes : Remembers(doc.undo, doc.text, doc.revision, old, b)
  OBVIOUS
<1>2. doc.revision \in Nat /\ doc.undo \in Seq(Steps)
  BY DocumentFields
<1>3. \A i \in 1..Len(doc.undo) : doc.undo[i].revision \in Nat
  <2>1. \A i \in 1..Len(doc.undo) : doc.undo[i] \in Steps
    BY <1>2
  <2> QED BY <2>1, StepFields
<1> QED BY <1>1, <1>2, <1>3 DEF Remembers

LEMMA NothingRemembered ==
  ASSUME NEW t \in Bytes, NEW revision \in Nat, NEW saved \in Nat, NEW bytes \in Bytes
  PROVE  Fit(<< >>, Len(t)) /\ Remembers(<< >>, t, revision, saved, bytes)
<1>1. Len(t) \in Nat /\ Len(<< >>) = 0 /\ 1..0 = {} /\ 0 + 1 = 1
  BY DEF Bytes
<1>2. Fit(<< >>, Len(t))
  <2> DEFINE f == [i \in 1..1 |-> Len(t)]
  <2>1. f \in [1..1 -> Nat] /\ f[1] = Len(t)
    BY <1>1
  <2> HIDE DEF f
  <2> QED BY <1>1, <2>1 DEF Fit
<1>3. Remembers(<< >>, t, revision, saved, bytes)
  <2> DEFINE f == [i \in 1..1 |-> t]
  <2>1. f \in [1..1 -> Bytes] /\ f[1] = t
    OBVIOUS
  <2> HIDE DEF f
  <2> QED BY <1>1, <2>1 DEF Remembers
<1> QED BY <1>2, <1>3


LEMMA EditsCounted ==
  ASSUME NEW bytes \in Bytes
  PROVE  Edits(bytes) \in Nat
<1>1. Len(bytes) \in Nat /\ ReadSize \in Nat \ {0}
  BY SizesAssumption DEF Bytes
<1>2. Len(bytes) + ReadSize - 1 \in Nat
  BY <1>1
<1>3. (Len(bytes) + ReadSize - 1) \div ReadSize \in Nat
  BY <1>1, <1>2
<1> QED BY <1>3 DEF Edits

-----------------------------------------------------------------------------
(* The inductive invariant                                                 *)

TypeInv ==
  /\ DocumentInv(document)
  /\ file \in [bytes : Bytes, readonly : BOOLEAN]
  /\ check \in BOOLEAN
  /\ seen \in [alone : BOOLEAN, bytes : Bytes, readonly : BOOLEAN, edits : Kinds]
  /\ job \in [Job -> Chain]
  /\ temp \in [Job -> Seq(Bytes)]

(* The bytes that are in the temporary file when the write under way ends. *)
InFile(chain, tmp) ==
  tmp[1] \o (IF chain.running = << >> THEN << >> ELSE chain.running[1])

(* A chain that neither writes nor has written: no bytes in its file.      *)
NotWriting(chain, tmp) ==
  /\ chain.asked = << >> /\ chain.running = << >>
  /\ tmp \in {<< >>, << << >> >>}

(* A chain that writes: every byte encoded so far is in the file, under    *)
(* way, asked for or in the buffer, in this order.                         *)
IsWriting(chain, tmp) ==
  /\ Len(tmp) = 1 /\ Len(chain.running) <= 1
  /\ chain.asked # << >> \/ chain.running # << >>
  /\ \A i \in DOMAIN chain.asked : Len(chain.asked[i]) <= WriteSize
  /\ Queued(chain, InFile(chain, tmp))

(* A chain that has written everything.                                    *)
HasWritten(chain, tmp) ==
  /\ chain.asked = << >> /\ chain.running = << >>
  /\ Len(tmp) = 1 /\ tmp[1] = chain.bytes

ChainInv(chain, tmp, t) ==
  /\ chain.at \in 0..Len(t)
  /\ chain.step # "write" => chain.at = 0
  /\ chain.step \in {"idle", "temp", "open", "stat", "openread", "read", "statread"}
       => NotWriting(chain, tmp)
  /\ chain.step \in {"temp", "open"} => chain.buffer = << >> /\ chain.bytes = << >>
  /\ chain.step = "open" => tmp = << << >> >>
  /\ chain.step \in {"write", "flush"} => IsWriting(chain, tmp)
  /\ chain.step = "write" => Len(chain.buffer) < WriteSize
  /\ chain.step = "flush" => chain.buffer = << >>
  /\ chain.step \in {"close", "move"} => HasWritten(chain, tmp)

ChainsInv == \A j \in Job : ChainInv(job[j], temp[j], document.text)

(* While chains run one at a time, a save has the document for itself: it  *)
(* is read only, and what was encoded is the text that is there.           *)
AloneInv ==
  /\ \A j, k \in Active : j = k
  /\ \A j \in Active : job[j].readonly = seen.readonly
  /\ Active = {} => document.readonly = seen.readonly
  /\ EditsInv(document, seen.bytes, seen.edits)
  /\ \A j \in Job :
       /\ job[j].step \in {"temp", "open", "write", "flush", "close", "move", "stat"}
            => document.readonly
       /\ job[j].step = "write" => EncodedTo(job[j], document.text)
       /\ job[j].step \in {"flush", "close", "move", "stat"}
            => job[j].bytes = FileText(document.text)

Inv == TypeInv /\ ChainsInv /\ (seen.alone => AloneInv) /\ CheckingEnds

LEMMA InitInv == Init => Inv
<1> SUFFICES ASSUME Init  PROVE Inv
  OBVIOUS
<1>1. << >> \in Bytes /\ << >> \in Seq(Bytes)
  BY DEF Bytes
<1>2. Idle \in Chain
  BY <1>1 DEF Idle, Chain
<1>0. /\ document \in Documents /\ document.text = << >> /\ document.undo = << >>
      /\ document.revision = 0 /\ document.saved = 0
      /\ Fit(<< >>, 0) /\ Remembers(<< >>, << >>, 0, 0, << >>)
  <2>1. Len(<< >>) = 0 /\ << >> \in Seq(Steps)
    OBVIOUS
  <2>2. Fit(<< >>, Len(<< >>)) /\ Remembers(<< >>, << >>, 0, 0, << >>)
    BY <1>1, NothingRemembered
  <2> QED BY <1>1, <2>1, <2>2 DEF Init, Documents
<1>3. TypeInv
  <2>1. DocumentInv(document)
    <3>1. Len(<< >>) = 0
      OBVIOUS
    <3> QED BY <1>0, <3>1 DEF DocumentInv
  <2>2. seen \in [alone : BOOLEAN, bytes : Bytes, readonly : BOOLEAN, edits : Kinds]
    BY <1>1 DEF Init, Kinds
  <2>3. file \in [bytes : Bytes, readonly : BOOLEAN]
    BY ContentsAssumption DEF Init, Bytes
  <2> QED BY <1>1, <1>2, <2>1, <2>2, <2>3 DEF Init, TypeInv
<1>4. Active = {}
  BY DEF Init, Active, Idle
<1>5. ChainInv(Idle, << >>, << >>)
  BY DEF Idle, ChainInv, NotWriting
<1>6. ChainsInv
  BY <1>5 DEF Init, ChainsInv
<1>7. AloneInv
  <2>1. EditsInv(document, seen.bytes, seen.edits)
    BY <1>0 DEF Init, EditsInv
  <2> QED BY <1>4, <2>1 DEF Init, AloneInv, Idle
<1> QED BY <1>3, <1>4, <1>6, <1>7 DEF Inv, Init, CheckingEnds

(* A step of one chain that leaves the text.                               *)
LEMMA ChainStep ==
  ASSUME TypeInv, ChainsInv,
         NEW j \in Job, NEW chain \in Chain, NEW tmp \in Seq(Bytes),
         job' = [job EXCEPT ![j] = chain], temp' = [temp EXCEPT ![j] = tmp],
         document'.text = document.text,
         ChainInv(chain, tmp, document.text)
  PROVE  /\ job' \in [Job -> Chain] /\ temp' \in [Job -> Seq(Bytes)]
         /\ ChainsInv'
<1>1. job' \in [Job -> Chain] /\ temp' \in [Job -> Seq(Bytes)]
  BY DEF TypeInv
<1>2. ASSUME NEW k \in Job  PROVE ChainInv(job'[k], temp'[k], document'.text)
  <2>1. CASE k = j
    BY <2>1 DEF TypeInv
  <2>2. CASE k # j
    BY <2>2 DEF TypeInv, ChainsInv
  <2> QED BY <2>1, <2>2
<1> QED BY <1>1, <1>2 DEF ChainsInv

(* The text loses [a, e): cursors behind it move, the ones in it go to a.  *)
LEMMA CutFields ==
  ASSUME NEW jobs \in [Job -> Chain], NEW s \in Bytes, NEW a \in 0..Len(s),
         NEW e \in a..Len(s), NEW u \in Bytes, Len(u) = Len(s) - (e - a),
         \A k \in Job : ChainInv(jobs[k], temp[k], s)
  PROVE  LET cut == CutBy(jobs, a, e)
         IN  /\ cut \in [Job -> Chain]
             /\ \A k \in Job : /\ ChainInv(cut[k], temp[k], u)
                              /\ cut[k].step = jobs[k].step
                              /\ cut[k].bytes = jobs[k].bytes
                              /\ cut[k].readonly = jobs[k].readonly
<1> DEFINE cut == CutBy(jobs, a, e)
<1>1. Len(s) \in Nat /\ a \in Nat /\ e \in Nat /\ a <= e /\ e <= Len(s) /\ Len(u) \in Nat
  BY DEF Bytes
<1>2. ASSUME NEW k \in Job
      PROVE  /\ cut[k] \in Chain /\ ChainInv(cut[k], temp[k], u)
             /\ cut[k].step = jobs[k].step /\ cut[k].bytes = jobs[k].bytes
             /\ cut[k].readonly = jobs[k].readonly
  <2> DEFINE c == jobs[k]
             at == IF c.at <= a THEN c.at ELSE IF c.at >= e THEN c.at - (e - a) ELSE a
             d == [c EXCEPT !.at = at]
  <2>1. c \in Chain /\ ChainInv(c, temp[k], s)
    OBVIOUS
  <2>2. cut[k] = d
    BY DEF CutBy
  <2> HIDE DEF c, cut
  <2>3. at \in Nat /\ at \in 0..Len(u) /\ (c.step # "write" => at = 0)
    BY <2>1, <1>1 DEF ChainInv, Chain
  <2> HIDE DEF at
  <2>4. /\ d \in Chain /\ d.at = at /\ d.step = c.step /\ d.readonly = c.readonly
        /\ d.buffer = c.buffer /\ d.asked = c.asked /\ d.running = c.running
        /\ d.bytes = c.bytes
    BY <2>1, <2>3 DEF Chain
  <2> HIDE DEF d
  <2>5. ChainInv(d, temp[k], u)
    <3>1. /\ NotWriting(c, temp[k]) => NotWriting(d, temp[k])
          /\ IsWriting(c, temp[k]) => IsWriting(d, temp[k])
          /\ HasWritten(c, temp[k]) => HasWritten(d, temp[k])
      BY <2>4 DEF NotWriting, IsWriting, HasWritten, Queued, InFile
    <3> QED BY <2>1, <2>3, <2>4, <3>1 DEF ChainInv
  <2> QED BY <2>2, <2>4, <2>5 DEF c
<1>3. cut = [k \in Job |-> cut[k]]
  BY DEF CutBy
<1> HIDE DEF cut
<1>4. cut \in [Job -> Chain]
  BY <1>2, <1>3
<1> QED BY <1>2, <1>4 DEF cut

(* The text grows: the cursor of a save behind the new characters moves.   *)
LEMMA ShiftStep ==
  ASSUME NEW jobs \in [Job -> Chain], TypeInv,
         NEW s \in Bytes, NEW p \in 0..Len(s), NEW n \in Nat,
         \A k \in Job : ChainInv(jobs[k], temp[k], s),
         job' = ShiftedBy(jobs, p, n), temp' = temp,
         document'.text \in Bytes, Len(document'.text) = Len(s) + n
  PROVE  /\ job' \in [Job -> Chain] /\ ChainsInv'
         /\ \A k \in Job : job'[k].step = jobs[k].step /\ job'[k].bytes = jobs[k].bytes
                           /\ job'[k].readonly = jobs[k].readonly
<1>1. Len(s) \in Nat /\ p \in Nat
  BY DEF Bytes
<1>2. ASSUME NEW k \in Job
      PROVE  /\ job'[k] \in Chain /\ ChainInv(job'[k], temp'[k], document'.text)
             /\ job'[k].step = jobs[k].step /\ job'[k].bytes = jobs[k].bytes
             /\ job'[k].readonly = jobs[k].readonly
  <2> DEFINE c == jobs[k]
             at == IF c.step = "write" /\ c.at >= p THEN c.at + n ELSE c.at
             d == [c EXCEPT !.at = at]
  <2>1. c \in Chain /\ ChainInv(c, temp[k], s)
    OBVIOUS
  <2>2. job'[k] = d
    BY DEF ShiftedBy
  <2> HIDE DEF c
  <2>3. at \in Nat /\ at \in 0..(Len(s) + n) /\ (c.step # "write" => at = 0)
    BY <2>1, <1>1 DEF ChainInv, Chain
  <2> HIDE DEF at
  <2>4. /\ d \in Chain /\ d.at = at /\ d.step = c.step /\ d.readonly = c.readonly
        /\ d.buffer = c.buffer /\ d.asked = c.asked /\ d.running = c.running
        /\ d.bytes = c.bytes
    BY <2>1, <2>3 DEF Chain
  <2> HIDE DEF d
  <2>5. ChainInv(d, temp[k], document'.text)
    BY <2>1, <2>3, <2>4
       DEF ChainInv, NotWriting, IsWriting, HasWritten, Queued, InFile
  <2> QED BY <2>2, <2>4, <2>5 DEF c
<1>3. job' = [k \in Job |-> job'[k]]
  BY DEF ShiftedBy
<1> QED BY <1>2, <1>3 DEF ChainsInv

(* A step of the chain j on its way, for the facts about calls that run    *)
(* one at a time.                                                          *)
LEMMA AloneStep ==
  ASSUME TypeInv, AloneInv, NEW j \in Active, NEW chain \in Chain,
         job' = [job EXCEPT ![j] = chain], document' = document, seen' = seen,
         chain.step # "idle", chain.readonly = job[j].readonly,
         chain.step \in {"temp", "open", "write", "flush", "close", "move", "stat"}
           => job[j].step \in {"temp", "open", "write", "flush", "close", "move", "stat"},
         chain.step = "write" => EncodedTo(chain, document.text),
         chain.step \in {"flush", "close", "move", "stat"}
           => chain.bytes = FileText(document.text)
  PROVE  AloneInv'
<1>1. j \in Job /\ job[j].step # "idle"
  BY DEF Active
<1>2. \A k \in Job : job'[k] = IF k = j THEN chain ELSE job[k]
  BY <1>1 DEF TypeInv
<1>3. Active' = Active
  BY <1>1, <1>2 DEF Active
<1>4. \A k \in Job : k # j => job[k].step = "idle"
  BY DEF Active, AloneInv
<1>5. \A k \in Active' : job'[k].readonly = seen'.readonly
  BY <1>2, <1>3, <1>1 DEF AloneInv, Active
<1>6. ASSUME NEW k \in Job
      PROVE  /\ job'[k].step \in {"temp", "open", "write", "flush", "close", "move", "stat"}
                  => document'.readonly
             /\ job'[k].step = "write" => EncodedTo(job'[k], document'.text)
             /\ job'[k].step \in {"flush", "close", "move", "stat"}
                  => job'[k].bytes = FileText(document'.text)
  BY <1>1, <1>2, <1>4 DEF AloneInv
<1> QED BY <1>3, <1>5, <1>6 DEF AloneInv

(* A chain ends in whatever way, and gives the document its attribute.     *)
LEMMA AloneEnd ==
  ASSUME TypeInv, AloneInv, NEW j \in Active,
         \A k \in Job : k # j => job'[k].step = job[k].step, job'[j].step = "idle",
         seen'.alone, document'.readonly = seen'.readonly,
         EditsInv(document', seen'.bytes, seen'.edits)
  PROVE  AloneInv'
<1>1. \A k \in Job : job'[k].step = "idle"
  BY DEF Active, AloneInv
<1>2. Active' = {}
  BY <1>1 DEF Active
<1> QED BY <1>1, <1>2 DEF AloneInv

LEMMA FailedStep ==
  ASSUME Inv, NEW j \in Active, NEW tmp \in Seq(Bytes), tmp \in {<< >>, << << >> >>},
         job' = [job EXCEPT ![j] = Idle], temp' = [temp EXCEPT ![j] = tmp],
         document' = [document EXCEPT !.obsolete = "UNKNOWN", !.readonly = job[j].readonly],
         UNCHANGED <<file, check, seen>>
  PROVE  Inv'
<1>1. j \in Job /\ job[j].readonly \in BOOLEAN
  BY DEF Active, Inv, TypeInv, Chain
<1>2. /\ document'.text = document.text /\ Kept(document, document')
      /\ document'.readonly = job[j].readonly /\ document'.obsolete = "UNKNOWN"
      /\ document' \in Documents
  BY <1>1 DEF Inv, TypeInv, DocumentInv, Documents, Kept
<1>3. Idle \in Chain /\ Idle.step = "idle"
  BY DEF Idle, Chain, Bytes
<1>4. ChainInv(Idle, tmp, document.text)
  BY DEF ChainInv, NotWriting, Idle, Inv, TypeInv, Bytes
<1>5. /\ job' \in [Job -> Chain] /\ temp' \in [Job -> Seq(Bytes)] /\ ChainsInv'
  BY <1>1, <1>2, <1>3, <1>4, ChainStep DEF Inv
<1>6. TypeInv'
  BY <1>2, <1>5, KeptDocument DEF Inv, TypeInv
<1>7. seen'.alone => AloneInv'
  <2> SUFFICES ASSUME seen'.alone  PROVE AloneInv'
    OBVIOUS
  <2>1. AloneInv /\ TypeInv /\ seen.alone
    BY DEF Inv
  <2>2. /\ \A k \in Job : k # j => job'[k].step = job[k].step
        /\ job'[j].step = "idle"
    BY <1>1, <1>3, <2>1 DEF TypeInv
  <2>3. document'.readonly = seen'.readonly
    BY <1>2, <2>1 DEF AloneInv
  <2>4. EditsInv(document', seen'.bytes, seen'.edits)
    BY <1>2, <2>1, KeptEdits DEF AloneInv
  <2> QED BY <2>1, <2>2, <2>3, <2>4, AloneEnd
<1>8. CheckingEnds'
  BY <1>2 DEF CheckingEnds
<1> QED BY <1>5, <1>6, <1>7, <1>8 DEF Inv

(* The catch clause of a save, and of a load.                              *)
LEMMA CaughtStep ==
  ASSUME Inv, NEW j \in Active, NEW opened \in BOOLEAN, Caught(j, opened)
  PROVE  Inv'
<1>1. << >> \in Seq(Bytes)
  OBVIOUS
<1> QED BY <1>1, FailedStep DEF Caught

LEMMA LoadFailedStep ==
  ASSUME Inv, NEW j \in Active, job[j].step \in {"openread", "read", "statread"}, LoadFailed(j)
  PROVE  Inv'
<1>1. j \in Job
  BY DEF Active
<1>2. temp' = [temp EXCEPT ![j] = temp[j]] /\ temp[j] \in Seq(Bytes)
  BY <1>1 DEF LoadFailed, Inv, TypeInv
<1>3. temp[j] \in {<< >>, << << >> >>}
  BY <1>1 DEF Inv, ChainsInv, ChainInv, NotWriting
<1> QED BY <1>2, <1>3, FailedStep DEF LoadFailed

(* A request of the chain j that was answered, while the document stays.   *)
LEMMA AnsweredStep ==
  ASSUME Inv, NEW j \in Active, NEW chain \in Chain, NEW tmp \in Seq(Bytes),
         job' = [job EXCEPT ![j] = chain], temp' = [temp EXCEPT ![j] = tmp],
         UNCHANGED <<document, check, seen>>,
         file' \in [bytes : Bytes, readonly : BOOLEAN],
         ChainInv(chain, tmp, document.text),
         chain.step # "idle", chain.readonly = job[j].readonly,
         chain.step \in {"temp", "open", "write", "flush", "close", "move", "stat"}
           => job[j].step \in {"temp", "open", "write", "flush", "close", "move", "stat"},
         AloneInv =>
           /\ chain.step = "write" => EncodedTo(chain, document.text)
           /\ chain.step \in {"flush", "close", "move", "stat"}
                => chain.bytes = FileText(document.text)
  PROVE  Inv'
<1>1. j \in Job /\ job[j].step # "idle"
  BY DEF Active
<1>2. /\ job' \in [Job -> Chain] /\ temp' \in [Job -> Seq(Bytes)] /\ ChainsInv'
  BY <1>1, ChainStep DEF Inv
<1>3. TypeInv'
  BY <1>2 DEF Inv, TypeInv
<1>4. seen'.alone => AloneInv'
  BY AloneStep DEF Inv
<1>5. CheckingEnds'
  <2>1. j \in Active'
    BY <1>1 DEF Active, Inv, TypeInv
  <2> QED BY <2>1 DEF CheckingEnds
<1> QED BY <1>2, <1>3, <1>4, <1>5 DEF Inv

-----------------------------------------------------------------------------
(* The steps of a save                                                     *)

(* The state of a chain that begins.                                       *)
LEMMA BegunChain ==
  ASSUME Inv, NEW step \in {"temp", "openread"}
  PROVE  LET chain == [Idle EXCEPT !.step = step, !.readonly = document.readonly]
         IN  /\ chain \in Chain /\ chain.step = step /\ chain.readonly = document.readonly
             /\ chain.at = 0 /\ chain.buffer = << >> /\ chain.bytes = << >>
             /\ chain.asked = << >> /\ chain.running = << >>
<1>1. << >> \in Bytes /\ << >> \in Seq(Bytes)
  BY DEF Bytes
<1>2. document.readonly \in BOOLEAN
  BY DEF Inv, TypeInv, DocumentInv, Documents
<1> QED BY <1>1, <1>2 DEF Idle, Chain

LEMMA SaveStep ==
  ASSUME Inv, NEW j \in Job, Save(j)
  PROVE  Inv'
<1> DEFINE chain == [Idle EXCEPT !.step = "temp", !.readonly = document.readonly]
<1>1. /\ chain \in Chain /\ chain.step = "temp" /\ chain.readonly = document.readonly
      /\ chain.at = 0 /\ chain.buffer = << >> /\ chain.bytes = << >>
      /\ chain.asked = << >> /\ chain.running = << >>
  BY BegunChain
<1> HIDE DEF chain
<1>2. /\ job' = [job EXCEPT ![j] = chain] /\ job[j].step = "idle" /\ seen.alone
      /\ seen' = IF Active = {} THEN seen ELSE [seen EXCEPT !.alone = FALSE, !.bytes = << >>]
      /\ document' = [document EXCEPT !.obsolete = "CHECKING", !.readonly = TRUE]
      /\ temp' = [temp EXCEPT ![j] = temp[j]] /\ UNCHANGED <<file, check>>
  BY DEF Save, Begin, chain, Inv, TypeInv
<1>3. /\ document'.text = document.text /\ Kept(document, document')
      /\ document'.readonly
      /\ document' \in Documents
  BY <1>2 DEF Inv, TypeInv, DocumentInv, Documents, Kept
<1>4. ChainInv(chain, temp[j], document.text) /\ temp[j] \in Seq(Bytes)
  <2>1. NotWriting(job[j], temp[j]) /\ 0 \in 0..Len(document.text) /\ temp[j] \in Seq(Bytes)
    BY <1>2 DEF Inv, ChainsInv, ChainInv, TypeInv, Bytes, DocumentInv, Documents
  <2> QED BY <1>1, <2>1 DEF ChainInv, NotWriting
<1>5. job' \in [Job -> Chain] /\ temp' \in [Job -> Seq(Bytes)] /\ ChainsInv'
  BY <1>1, <1>2, <1>3, <1>4, ChainStep DEF Inv
<1>6. seen' \in [alone : BOOLEAN, bytes : Bytes, readonly : BOOLEAN, edits : Kinds]
  <2>1. << >> \in Bytes
    BY DEF Bytes
  <2> QED BY <2>1, <1>2 DEF Inv, TypeInv
<1>7. TypeInv'
  BY <1>2, <1>3, <1>5, <1>6, KeptDocument DEF Inv, TypeInv
<1>8. \A k \in Job : job'[k] = IF k = j THEN chain ELSE job[k]
  BY <1>2 DEF Inv, TypeInv
<1>9. seen'.alone => AloneInv'
  <2> SUFFICES ASSUME seen'.alone  PROVE AloneInv'
    OBVIOUS
  <2>1. Active = {} /\ seen' = seen /\ AloneInv
    BY <1>2 DEF Inv, TypeInv
  <2>2. \A k \in Job : k # j => job'[k].step = "idle"
    BY <1>8, <2>1 DEF Active
  <2>3. Active' = {j} /\ job'[j] = chain
    BY <1>1, <1>8, <2>2 DEF Active
  <2>4. EditsInv(document', seen'.bytes, seen'.edits)
    BY <1>3, <2>1, KeptEdits DEF AloneInv
  <2> QED BY <1>1, <1>3, <2>1, <2>2, <2>3, <2>4 DEF AloneInv
<1>10. CheckingEnds'
  <2>1. j \in Active'
    BY <1>1, <1>8 DEF Active
  <2> QED BY <2>1 DEF CheckingEnds
<1> QED BY <1>5, <1>7, <1>9, <1>10 DEF Inv

LEMMA MakeTempStep ==
  ASSUME Inv, NEW j \in Job, MakeTemp(j)
  PROVE  Inv'
<1>1. j \in Active /\ job[j] \in Chain /\ job[j].step = "temp"
      /\ ChainInv(job[j], temp[j], document.text)
  BY DEF MakeTemp, Active, Inv, TypeInv, ChainsInv
<1>2. CASE Caught(j, FALSE)
  BY <1>1, <1>2, CaughtStep
<1>3. CASE ~ Caught(j, FALSE)
  <2> DEFINE chain == [job[j] EXCEPT !.step = "open"]
  <2>1. /\ job' = [job EXCEPT ![j] = chain]
        /\ temp' = [temp EXCEPT ![j] = << << >> >>]
        /\ UNCHANGED <<document, file, check, seen>>
    BY <1>3 DEF MakeTemp
  <2>2. /\ chain \in Chain /\ chain.step = "open" /\ chain.readonly = job[j].readonly
        /\ chain.at = job[j].at /\ chain.buffer = job[j].buffer
        /\ chain.asked = job[j].asked /\ chain.running = job[j].running
        /\ chain.bytes = job[j].bytes
    BY <1>1 DEF Chain
  <2> HIDE DEF chain
  <2>3. << << >> >> \in Seq(Bytes)
    BY DEF Bytes
  <2>4. ChainInv(chain, << << >> >>, document.text)
    BY <1>1, <2>2 DEF ChainInv, NotWriting
  <2> QED BY <1>1, <2>1, <2>2, <2>3, <2>4, AnsweredStep DEF Inv, TypeInv
<1> QED BY <1>2, <1>3

(* writeLoop starts, or goes on when all that it asked for is in the file. *)
LEMMA WritesOn ==
  ASSUME Inv, NEW j \in Active, NEW chain \in Chain, NEW tmp \in Seq(Bytes),
         Len(tmp) = 1, chain.running = << >>, chain.asked = << >>,
         chain.at \in 0..Len(document.text), Len(chain.buffer) < WriteSize,
         tmp[1] \o chain.buffer = chain.bytes,
         chain.readonly = job[j].readonly,
         job[j].step \in {"open", "write"},
         AloneInv => EncodedTo(chain, document.text),
         job' = [job EXCEPT ![j] = WriteLoop(chain, document.text)],
         temp' = [temp EXCEPT ![j] = tmp],
         UNCHANGED <<document, file, check, seen>>
  PROVE  Inv'
<1> DEFINE w == WriteLoop(chain, document.text)
<1>1. document.text \in Bytes /\ tmp[1] \in Bytes
  <2>1. 1 \in 1..Len(tmp)
    OBVIOUS
  <2> QED BY <2>1, ElementOfSeq DEF Inv, TypeInv, DocumentInv, Documents
<1>2. /\ w \in Chain
      /\ w.step \in {"write", "flush"}
      /\ w.step = "write" => w.at \in 0..Len(document.text) /\ Len(w.buffer) < WriteSize
      /\ w.step = "flush" => w.at = 0 /\ w.buffer = << >>
      /\ w.running = chain.running /\ w.readonly = chain.readonly
      /\ w.asked # << >>
      /\ \A i \in DOMAIN w.asked : Len(w.asked[i]) <= WriteSize
      /\ Queued(w, tmp[1])
      /\ EncodedTo(chain, document.text) =>
           IF w.step = "write" THEN EncodedTo(w, document.text)
           ELSE w.bytes = FileText(document.text)
  BY <1>1, WriteLoopFields
<1> HIDE DEF w
<1>3. InFile(w, tmp) = tmp[1]
  BY <1>1, <1>2, ConcatEmptySeq DEF InFile, Bytes
<1>4. ChainInv(w, tmp, document.text)
  BY <1>1, <1>2, <1>3 DEF ChainInv, IsWriting, Bytes
<1> QED BY <1>2, <1>4, AnsweredStep DEF w, Inv, TypeInv

LEMMA OpenStep ==
  ASSUME Inv, NEW j \in Job, Open(j)
  PROVE  Inv'
<1>1. j \in Active /\ job[j] \in Chain /\ job[j].step = "open"
      /\ ChainInv(job[j], temp[j], document.text) /\ document.text \in Bytes
  BY DEF Open, Active, Inv, TypeInv, ChainsInv, DocumentInv, Documents
<1>2. CASE Caught(j, FALSE)
  BY <1>1, <1>2, CaughtStep
<1>3. CASE ~ Caught(j, FALSE)
  <2>1. /\ job' = [job EXCEPT ![j] = WriteLoop(job[j], document.text)]
        /\ temp' = [temp EXCEPT ![j] = temp[j]] /\ temp[j] \in Seq(Bytes)
        /\ UNCHANGED <<document, file, check, seen>>
    BY <1>3 DEF Open, Inv, TypeInv
  <2>2. /\ temp[j] = << << >> >> /\ job[j].buffer = << >> /\ job[j].bytes = << >>
        /\ job[j].running = << >> /\ job[j].asked = << >> /\ job[j].at = 0
    BY <1>1 DEF ChainInv, NotWriting
  <2>3. /\ Len(temp[j]) = 1 /\ temp[j][1] = << >> /\ Len(job[j].buffer) < WriteSize
        /\ temp[j][1] \o job[j].buffer = job[j].bytes
    BY <2>2, SizesAssumption
  <2>4. EncodedTo(job[j], document.text)
    <3>1. 0 \in 0..Len(document.text)
      BY <1>1 DEF Bytes
    <3>2. Slice(document.text, 0, 0) = << >>
      BY <3>1 DEF Slice
    <3> QED BY <2>2, <3>2 DEF EncodedTo, LineAt, FileText
  <2> QED BY <1>1, <2>1, <2>2, <2>3, <2>4, <1>1, WritesOn DEF ChainInv
<1> QED BY <1>2, <1>3

LEMMA StartWriteStep ==
  ASSUME Inv, NEW j \in Job, StartWrite(j)
  PROVE  Inv'
<1>1. /\ job[j] \in Chain /\ ChainInv(job[j], temp[j], document.text)
      /\ job[j].asked # << >> /\ temp[j] \in Seq(Bytes)
  BY DEF StartWrite, Inv, TypeInv, ChainsInv
<1>2. job[j].step \in {"write", "flush"} /\ j \in Active
  BY <1>1 DEF ChainInv, NotWriting, HasWritten, Chain, Active
<1>3. CASE Caught(j, TRUE)
  BY <1>2, <1>3, CaughtStep
<1>4. CASE ~ Caught(j, TRUE)
  <2> DEFINE c == job[j]
             d == [c EXCEPT !.running = <<Head(c.asked)>>, !.asked = Tail(c.asked)]
  <2>1. /\ c.running = << >>
        /\ job' = [job EXCEPT ![j] = d]
        /\ temp' = [temp EXCEPT ![j] = temp[j]]
        /\ UNCHANGED <<document, file, check, seen>>
    BY <1>4 DEF StartWrite, Inv, TypeInv
  <2>2. c \in Chain /\ c.asked \in Seq(Bytes) /\ c.asked # << >> /\ c.buffer \in Bytes
        /\ c.bytes \in Bytes
    BY <1>1 DEF Chain
  <2> HIDE DEF c
  <2>3. /\ Head(c.asked) \in Bytes /\ Tail(c.asked) \in Seq(Bytes)
        /\ \A i \in DOMAIN Tail(c.asked) : i + 1 \in DOMAIN c.asked
                                           /\ Tail(c.asked)[i] = c.asked[i + 1]
    BY <2>2
  <2>4. <<Head(c.asked)>> \in Seq(Bytes) /\ Len(<<Head(c.asked)>>) = 1
        /\ <<Head(c.asked)>> # << >>
    BY <2>3
  <2>5. /\ d \in Chain /\ d.step = c.step /\ d.readonly = c.readonly /\ d.at = c.at
        /\ d.buffer = c.buffer /\ d.bytes = c.bytes
        /\ d.running = <<Head(c.asked)>> /\ d.asked = Tail(c.asked)
    BY <2>2, <2>3, <2>4 DEF Chain
  <2> HIDE DEF d
  <2>6. IsWriting(c, temp[j])
    BY <1>1, <1>2 DEF ChainInv, c
  <2>7. temp[j][1] \in Bytes
    BY <1>1, <2>6 DEF IsWriting
  <2>8. Queued(d, InFile(d, temp[j]))
    <3>1. InFile(c, temp[j]) = temp[j][1]
      BY <2>1, <2>7, ConcatEmptySeq DEF InFile, Bytes, c
    <3>2. InFile(d, temp[j]) = temp[j][1] \o Head(c.asked)
      <4>1. d.running # << >> /\ d.running[1] = Head(c.asked)
        BY <2>4, <2>5
      <4> QED BY <4>1, Zenon DEF InFile
    <3>3. PICK q \in Bytes : Joined(c.asked, q) /\ (temp[j][1] \o q) \o c.buffer = c.bytes
      BY <2>6, <3>1 DEF IsWriting, Queued
    <3>4. PICK r \in Bytes : Joined(Tail(c.asked), r) /\ Head(c.asked) \o r = q
      BY <2>2, <3>3, JoinedTail
    <3>5. (temp[j][1] \o Head(c.asked)) \o r = temp[j][1] \o (Head(c.asked) \o r)
      BY <2>3, <2>7, Associative, Zenon
    <3> QED BY <2>5, <3>2, <3>3, <3>4, <3>5 DEF Queued
  <2>9. IsWriting(d, temp[j])
    BY <2>3, <2>4, <2>5, <2>6, <2>8 DEF IsWriting
  <2>10. ChainInv(d, temp[j], document.text)
    BY <1>1, <1>2, <2>5, <2>9 DEF ChainInv, c
  <2>11. AloneInv =>
           /\ d.step = "write" => EncodedTo(d, document.text)
           /\ d.step \in {"flush", "close", "move", "stat"}
                => d.bytes = FileText(document.text)
    BY <2>5 DEF AloneInv, EncodedTo, c
  <2> QED BY <1>1, <1>2, <2>1, <2>5, <2>10, <2>11, AnsweredStep DEF c, Inv, TypeInv
<1> QED BY <1>3, <1>4

LEMMA WriteDoneStep ==
  ASSUME Inv, NEW j \in Job, WriteDone(j)
  PROVE  Inv'
<1> DEFINE c == job[j]
           d == [c EXCEPT !.running = << >>]
           tmp == <<temp[j][1] \o c.running[1]>>
<1>1. /\ c \in Chain /\ ChainInv(c, temp[j], document.text)
      /\ c.running # << >> /\ temp[j] \in Seq(Bytes) /\ document.text \in Bytes
  BY DEF WriteDone, Inv, TypeInv, ChainsInv, DocumentInv, Documents
<1>2. c.step \in {"write", "flush"} /\ j \in Active /\ IsWriting(c, temp[j])
  BY <1>1 DEF ChainInv, NotWriting, HasWritten, Chain, Active
<1>3. CASE Caught(j, TRUE)
  BY <1>2, <1>3, CaughtStep
<1>4. CASE ~ Caught(j, TRUE)
  <2>1. /\ temp' = [temp EXCEPT ![j] = tmp]
        /\ job' = [job EXCEPT ![j] =
             IF d.asked # << >> THEN d
             ELSE IF d.step = "flush" THEN [d EXCEPT !.step = "close"]
             ELSE WriteLoop(d, document.text)]
        /\ UNCHANGED <<document, file, check, seen>>
    BY <1>4 DEF WriteDone
  <2>2. /\ c.buffer \in Bytes /\ c.bytes \in Bytes /\ c.asked \in Seq(Bytes)
        /\ c.running \in Seq(Bytes) /\ << >> \in Seq(Bytes) /\ << >> \in Bytes
    BY <1>1 DEF Chain, Bytes
  <2>3. temp[j][1] \in Bytes /\ c.running[1] \in Bytes
    <3>1. 1 \in 1..Len(temp[j]) /\ 1 \in 1..Len(c.running)
      BY <1>1, <1>2, <2>2 DEF IsWriting
    <3> QED BY <3>1, <1>1, <2>2, ElementOfSeq
  <2>4. tmp[1] \in Bytes /\ tmp \in Seq(Bytes) /\ Len(tmp) = 1
        /\ tmp[1] = InFile(c, temp[j])
    <3>1. temp[j][1] \o c.running[1] \in Bytes
      BY <2>3 DEF Bytes
    <3>2. InFile(c, temp[j]) = temp[j][1] \o c.running[1]
      BY <1>1, Zenon DEF InFile
    <3>3. \A x \in Bytes : <<x>>[1] = x /\ <<x>> \in Seq(Bytes) /\ Len(<<x>>) = 1
      OBVIOUS
    <3> QED BY <3>1, <3>2, <3>3, Zenon
  <2> HIDE DEF tmp
  <2>5. /\ d \in Chain /\ d.step = c.step /\ d.readonly = c.readonly /\ d.at = c.at
        /\ d.buffer = c.buffer /\ d.bytes = c.bytes
        /\ d.running = << >> /\ d.asked = c.asked
    BY <1>1, <2>2 DEF Chain
  <2> HIDE DEF d, c
  <2>6. \A x \in Chain : x.running = << >> => InFile(x, tmp) = tmp[1]
    BY <2>4, ConcatEmptySeq DEF InFile, Bytes
  <2>7. Queued(d, tmp[1])
    BY <1>2, <2>4, <2>5 DEF IsWriting, Queued
  <2>8. CASE d.asked # << >>
    <3>1. job' = [job EXCEPT ![j] = d]
      BY <2>1, <2>8
    <3>2. IsWriting(d, tmp)
      BY <1>2, <2>4, <2>5, <2>6, <2>7, <2>8 DEF IsWriting
    <3>3. ChainInv(d, tmp, document.text)
      BY <1>1, <1>2, <2>5, <3>2 DEF ChainInv
    <3>4. AloneInv =>
            /\ d.step = "write" => EncodedTo(d, document.text)
            /\ d.step \in {"flush", "close", "move", "stat"}
                 => d.bytes = FileText(document.text)
      BY <2>5 DEF AloneInv, EncodedTo, c
    <3> QED BY <1>2, <2>1, <2>4, <2>5, <3>1, <3>3, <3>4, AnsweredStep DEF c, Inv, TypeInv
  <2>9. ASSUME d.asked = << >>  PROVE tmp[1] \o d.buffer = d.bytes
    <3>1. PICK q \in Bytes : Joined(d.asked, q) /\ (tmp[1] \o q) \o d.buffer = d.bytes
      BY <2>7 DEF Queued
    <3>2. q = << >>
      BY <3>1, <2>9, JoinedNone
    <3>3. tmp[1] \o << >> = tmp[1]
      BY <2>4, ConcatEmptySeq DEF Bytes
    <3> QED BY <3>1, <3>2, <3>3
  <2>10. CASE d.asked = << >> /\ d.step = "flush"
    <3> DEFINE e == [d EXCEPT !.step = "close"]
    <3>1. job' = [job EXCEPT ![j] = e]
      BY <2>1, <2>10
    <3>2. /\ e \in Chain /\ e.step = "close" /\ e.readonly = d.readonly /\ e.at = d.at
          /\ e.bytes = d.bytes /\ e.running = << >> /\ e.asked = << >>
      BY <2>5, <2>10 DEF Chain
    <3> HIDE DEF e
    <3>3. d.buffer = << >>
      BY <1>1, <2>5, <2>10 DEF ChainInv
    <3>4. tmp[1] = d.bytes
      BY <2>9, <2>10, <3>3, <2>4, ConcatEmptySeq DEF Bytes
    <3>5. ChainInv(e, tmp, document.text)
      BY <1>1, <2>4, <2>5, <2>10, <3>2, <3>4 DEF ChainInv, HasWritten
    <3>6. AloneInv => e.bytes = FileText(document.text)
      BY <2>5, <2>10, <3>2 DEF AloneInv, c
    <3> QED BY <1>2, <2>1, <2>4, <2>5, <2>10, <3>1, <3>2, <3>5, <3>6, AnsweredStep
            DEF c, Inv, TypeInv
  <2>11. CASE d.asked = << >> /\ d.step = "write"
    <3>1. job' = [job EXCEPT ![j] = WriteLoop(d, document.text)]
      BY <2>1, <2>11
    <3>2. d.at \in 0..Len(document.text) /\ Len(d.buffer) < WriteSize
      BY <1>1, <2>5, <2>11 DEF ChainInv
    <3>3. AloneInv => EncodedTo(d, document.text)
      BY <2>5, <2>11 DEF AloneInv, EncodedTo, c
    <3>4. d.readonly = job[j].readonly /\ job[j].step \in {"open", "write"}
      BY <2>5, <2>11 DEF c
    <3> QED BY <1>2, <2>1, <2>4, <2>5, <2>9, <2>11, <3>1, <3>2, <3>3, <3>4, WritesOn
  <2> QED BY <1>2, <2>5, <2>8, <2>10, <2>11
<1> QED BY <1>3, <1>4

LEMMA CloseFileStep ==
  ASSUME Inv, NEW j \in Job, CloseFile(j)
  PROVE  Inv'
<1>1. j \in Active /\ job[j] \in Chain /\ job[j].step = "close"
      /\ ChainInv(job[j], temp[j], document.text)
  BY DEF CloseFile, Active, Inv, TypeInv, ChainsInv
<1>2. CASE Caught(j, TRUE)
  BY <1>1, <1>2, CaughtStep
<1>3. CASE ~ Caught(j, TRUE)
  <2> DEFINE chain == [job[j] EXCEPT !.step = "move"]
  <2>1. /\ job' = [job EXCEPT ![j] = chain]
        /\ temp' = [temp EXCEPT ![j] = temp[j]] /\ temp[j] \in Seq(Bytes)
        /\ UNCHANGED <<document, file, check, seen>>
    BY <1>3 DEF CloseFile, Inv, TypeInv
  <2>2. /\ chain \in Chain /\ chain.step = "move" /\ chain.readonly = job[j].readonly
        /\ chain.at = job[j].at /\ chain.asked = job[j].asked
        /\ chain.running = job[j].running /\ chain.bytes = job[j].bytes
    BY <1>1 DEF Chain
  <2> HIDE DEF chain
  <2>3. ChainInv(chain, temp[j], document.text)
    BY <1>1, <2>2 DEF ChainInv, HasWritten
  <2>4. AloneInv => chain.bytes = FileText(document.text)
    BY <1>1, <2>2 DEF AloneInv
  <2> QED BY <1>1, <2>1, <2>2, <2>3, <2>4, AnsweredStep DEF Inv, TypeInv
<1> QED BY <1>2, <1>3

LEMMA MoveStep ==
  ASSUME Inv, NEW j \in Job, Move(j)
  PROVE  Inv'
<1>1. j \in Active /\ job[j] \in Chain /\ job[j].step = "move"
      /\ ChainInv(job[j], temp[j], document.text)
  BY DEF Move, Active, Inv, TypeInv, ChainsInv
<1>2. CASE Caught(j, TRUE)
  BY <1>1, <1>2, CaughtStep
<1>3. CASE ~ Caught(j, TRUE)
  <2> DEFINE chain == [job[j] EXCEPT !.step = "stat"]
  <2>1. /\ job' = [job EXCEPT ![j] = chain]
        /\ temp' = [temp EXCEPT ![j] = << >>]
        /\ file' = [file EXCEPT !.bytes = temp[j][1]]
        /\ UNCHANGED <<document, check, seen>>
    BY <1>3 DEF Move
  <2>2. /\ chain \in Chain /\ chain.step = "stat" /\ chain.readonly = job[j].readonly
        /\ chain.at = job[j].at /\ chain.asked = job[j].asked
        /\ chain.running = job[j].running /\ chain.bytes = job[j].bytes
    BY <1>1 DEF Chain
  <2> HIDE DEF chain
  <2>3. ChainInv(chain, << >>, document.text)
    BY <1>1, <2>2 DEF ChainInv, HasWritten, NotWriting
  <2>4. AloneInv => chain.bytes = FileText(document.text)
    BY <1>1, <2>2 DEF AloneInv
  <2>5. file' \in [bytes : Bytes, readonly : BOOLEAN]
    BY <1>1, <2>1 DEF ChainInv, HasWritten, Inv, TypeInv, Chain
  <2>6. << >> \in Seq(Bytes)
    OBVIOUS
  <2> QED BY <1>1, <2>1, <2>2, <2>3, <2>4, <2>5, <2>6, AnsweredStep
<1> QED BY <1>2, <1>3

LEMMA StatStep ==
  ASSUME Inv, NEW j \in Job, Stat(j)
  PROVE  Inv'
<1>1. j \in Active /\ job[j] \in Chain /\ job[j].step = "stat"
      /\ ChainInv(job[j], temp[j], document.text)
  BY DEF Stat, Active, Inv, TypeInv, ChainsInv
<1>2. CASE Caught(j, TRUE)
  BY <1>1, <1>2, CaughtStep
<1>3. CASE ~ Caught(j, TRUE)
  <2>1. /\ document' = [document EXCEPT !.saved = document.revision,
                                        !.obsolete = "NO", !.readonly = job[j].readonly]
        /\ seen' = [seen EXCEPT !.bytes = Shared(j)]
        /\ job' = [job EXCEPT ![j] = Idle]
        /\ temp' = [temp EXCEPT ![j] = temp[j]] /\ temp[j] \in Seq(Bytes)
        /\ UNCHANGED <<file, temp, check>>
    BY <1>3 DEF Stat, Inv, TypeInv
  <2>2. Idle \in Chain /\ Idle.step = "idle" /\ ChainInv(Idle, temp[j], document.text)
    <3>1. << >> \in Bytes /\ << >> \in Seq(Bytes) /\ 0 \in 0..Len(document.text)
      BY DEF Bytes, Inv, TypeInv
    <3> QED BY <1>1, <3>1 DEF Idle, Chain, ChainInv, NotWriting
  <2>3. /\ document'.text = document.text /\ document'.obsolete = "NO"
        /\ document'.readonly = job[j].readonly
        /\ document' \in Documents /\ document'.undo = document.undo
        /\ document'.revision = document.revision /\ document'.saved = document.revision
    BY <1>1, <2>1 DEF Inv, TypeInv, Chain, DocumentInv, Documents
  <2>4. /\ job' \in [Job -> Chain] /\ temp' \in [Job -> Seq(Bytes)] /\ ChainsInv'
    BY <2>1, <2>2, <2>3, ChainStep DEF Inv
  <2>5. Shared(j) \in Bytes
    <3>1. << >> \in Bytes /\ job[j].bytes \in Bytes
      BY <1>1 DEF Bytes, Chain
    <3> QED BY <3>1 DEF Shared
  <2>6. /\ seen' \in [alone : BOOLEAN, bytes : Bytes, readonly : BOOLEAN, edits : Kinds]
        /\ seen'.alone = seen.alone /\ seen'.readonly = seen.readonly
        /\ seen'.bytes = Shared(j) /\ seen'.edits = seen.edits
    BY <2>1, <2>5 DEF Inv, TypeInv
  <2>7. TypeInv'
    <3>1. DocumentInv(document')
      BY <2>3 DEF Inv, TypeInv, DocumentInv
    <3> QED BY <2>1, <2>4, <2>6, <3>1 DEF Inv, TypeInv
  <2>8. seen'.alone => AloneInv'
    <3> SUFFICES ASSUME seen'.alone  PROVE AloneInv'
      OBVIOUS
    <3>1. AloneInv /\ TypeInv /\ seen.alone
      BY <2>6 DEF Inv
    <3>2. /\ \A k \in Job : k # j => job'[k].step = job[k].step
          /\ job'[j].step = "idle"
      BY <2>1, <2>2, <3>1 DEF TypeInv
    <3>3. document'.readonly = seen'.readonly
      BY <1>1, <2>3, <2>6, <3>1 DEF AloneInv
    <3>4. FileText(document'.text) = FileText(seen'.bytes)
      <4>1. seen'.bytes = FileText(document.text) /\ document.text \in Bytes
        BY <1>1, <2>6, <3>1 DEF AloneInv, Shared, TypeInv, DocumentInv, Documents
      <4> QED BY <4>1, <2>3, FileTextFields
    <3>5. seen.edits # "branched" =>
            \E old \in Nat, b \in Bytes :
              Remembers(document.undo, document.text, document.revision, old, b)
      <4>1. document.saved \in Nat /\ seen.bytes \in Bytes
        BY <3>1 DEF TypeInv, DocumentInv, Documents
      <4> QED BY <4>1, <3>1 DEF AloneInv, EditsInv
    <3>6. EditsInv(document', seen'.bytes, seen'.edits)
      <4>1. seen'.bytes \in Bytes /\ seen'.edits \in Kinds
        BY <2>6
      <4> QED BY <2>3, <2>6, <3>4, <3>5, <4>1, SharedEdits
    <3> QED BY <1>1, <2>6, <3>1, <3>2, <3>3, <3>6, AloneEnd
  <2>9. CheckingEnds'
    BY <2>3 DEF CheckingEnds
  <2> QED BY <2>4, <2>7, <2>8, <2>9 DEF Inv
<1> QED BY <1>2, <1>3

-----------------------------------------------------------------------------
(* The steps of a load, and of everybody else                              *)

LEMMA LoadStep ==
  ASSUME Inv, NEW j \in Job, Load(j)
  PROVE  Inv'
<1> DEFINE chain == [Idle EXCEPT !.step = "openread", !.readonly = document.readonly]
<1>1. /\ chain \in Chain /\ chain.step = "openread" /\ chain.readonly = document.readonly
      /\ chain.at = 0 /\ chain.buffer = << >> /\ chain.bytes = << >>
      /\ chain.asked = << >> /\ chain.running = << >>
  BY BegunChain
<1> HIDE DEF chain
<1>2. /\ job' = [job EXCEPT ![j] = chain] /\ job[j].step = "idle" /\ seen.alone
      /\ seen' = IF Active = {} THEN seen ELSE [seen EXCEPT !.alone = FALSE, !.bytes = << >>]
      /\ document' = [document EXCEPT !.obsolete = "CHECKING"]
      /\ temp' = [temp EXCEPT ![j] = temp[j]] /\ UNCHANGED <<file, check>>
  BY DEF Load, Begin, chain, Inv, TypeInv
<1>3. /\ document'.text = document.text /\ Kept(document, document')
      /\ document'.readonly = document.readonly
      /\ document' \in Documents
  BY <1>2 DEF Inv, TypeInv, DocumentInv, Documents, Kept
<1>4. ChainInv(chain, temp[j], document.text) /\ temp[j] \in Seq(Bytes)
  <2>1. NotWriting(job[j], temp[j]) /\ 0 \in 0..Len(document.text) /\ temp[j] \in Seq(Bytes)
    BY <1>2 DEF Inv, ChainsInv, ChainInv, TypeInv, Bytes, DocumentInv, Documents
  <2> QED BY <1>1, <2>1 DEF ChainInv, NotWriting
<1>5. job' \in [Job -> Chain] /\ temp' \in [Job -> Seq(Bytes)] /\ ChainsInv'
  BY <1>1, <1>2, <1>3, <1>4, ChainStep DEF Inv
<1>6. seen' \in [alone : BOOLEAN, bytes : Bytes, readonly : BOOLEAN, edits : Kinds]
  <2>1. << >> \in Bytes
    BY DEF Bytes
  <2> QED BY <2>1, <1>2 DEF Inv, TypeInv
<1>7. TypeInv'
  BY <1>2, <1>3, <1>5, <1>6, KeptDocument DEF Inv, TypeInv
<1>8. \A k \in Job : job'[k] = IF k = j THEN chain ELSE job[k]
  BY <1>2 DEF Inv, TypeInv
<1>9. seen'.alone => AloneInv'
  <2> SUFFICES ASSUME seen'.alone  PROVE AloneInv'
    OBVIOUS
  <2>1. Active = {} /\ seen' = seen /\ AloneInv
    BY <1>2 DEF Inv, TypeInv
  <2>2. \A k \in Job : k # j => job'[k].step = "idle"
    BY <1>8, <2>1 DEF Active
  <2>3. Active' = {j} /\ job'[j] = chain
    BY <1>1, <1>8, <2>2 DEF Active
  <2>4. EditsInv(document', seen'.bytes, seen'.edits)
    BY <1>3, <2>1, KeptEdits DEF AloneInv
  <2> QED BY <1>1, <1>3, <2>1, <2>2, <2>3, <2>4 DEF AloneInv
<1>10. CheckingEnds'
  <2>1. j \in Active'
    BY <1>1, <1>8 DEF Active
  <2> QED BY <2>1 DEF CheckingEnds
<1> QED BY <1>5, <1>7, <1>9, <1>10 DEF Inv

LEMMA OpenReadStep ==
  ASSUME Inv, NEW j \in Job, OpenRead(j)
  PROVE  Inv'
<1>1. j \in Active /\ job[j] \in Chain /\ job[j].step = "openread"
      /\ ChainInv(job[j], temp[j], document.text)
  BY DEF OpenRead, Active, Inv, TypeInv, ChainsInv
<1>2. CASE LoadFailed(j)
  BY <1>1, <1>2, LoadFailedStep
<1>3. CASE ~ LoadFailed(j)
  <2> DEFINE chain == [job[j] EXCEPT !.step = "read", !.buffer = file.bytes]
  <2>1. /\ job' = [job EXCEPT ![j] = chain]
        /\ temp' = [temp EXCEPT ![j] = temp[j]] /\ temp[j] \in Seq(Bytes)
        /\ UNCHANGED <<document, file, check, seen>>
    BY <1>3 DEF OpenRead, Inv, TypeInv
  <2>2. /\ chain \in Chain /\ chain.step = "read" /\ chain.readonly = job[j].readonly
        /\ chain.at = job[j].at /\ chain.asked = job[j].asked
        /\ chain.running = job[j].running
    BY <1>1 DEF Chain, Inv, TypeInv
  <2> HIDE DEF chain
  <2>3. ChainInv(chain, temp[j], document.text)
    BY <1>1, <2>2 DEF ChainInv, NotWriting
  <2> QED BY <1>1, <2>1, <2>2, <2>3, AnsweredStep DEF Inv, TypeInv
<1> QED BY <1>2, <1>3

(* The history after an insertion.                                         *)
LEMMA SeenInsertFields ==
  ASSUME Inv, NEW p, NEW s, seen' = SeenInsert(p, s)
  PROVE  /\ seen' \in [alone : BOOLEAN, bytes : Bytes, readonly : BOOLEAN, edits : Kinds]
         /\ seen'.alone = seen.alone /\ seen'.bytes = seen.bytes
         /\ seen'.readonly = seen.readonly
         /\ seen'.edits = IF seen.edits = "linear" /\ ~Precedes(document, p, s)
                         THEN seen.edits ELSE "branched"
<1> DEFINE edits == IF seen.edits = "linear" /\ ~Precedes(document, p, s)
                    THEN seen.edits ELSE "branched"
<1>1. seen \in [alone : BOOLEAN, bytes : Bytes, readonly : BOOLEAN, edits : Kinds]
  BY DEF Inv, TypeInv
<1>2. edits \in Kinds
  BY <1>1 DEF Kinds
<1>3. seen' = [seen EXCEPT !.edits = edits]
  BY DEF SeenInsert
<1> HIDE DEF edits
<1>4. /\ seen' \in [alone : BOOLEAN, bytes : Bytes, readonly : BOOLEAN, edits : Kinds]
      /\ seen'.alone = seen.alone /\ seen'.bytes = seen.bytes
      /\ seen'.readonly = seen.readonly /\ seen'.edits = edits
  BY <1>1, <1>2, <1>3
<1> QED BY <1>4 DEF edits

(* A chunk is shown behind the text.                                       *)
LEMMA ChunkStep ==
  ASSUME Inv, NEW j \in Active, job[j].step = "read",
         NEW chunk \in Bytes, chunk # << >>, NEW chain \in Chain,
         chain.step = "read", chain.readonly = job[j].readonly,
         chain.at = job[j].at, chain.asked = job[j].asked, chain.running = job[j].running,
         document' = [InsertedInto(document, Len(document.text), chunk)
                        EXCEPT !.readonly = TRUE],
         seen' = SeenInsert(Len(document.text), chunk),
         job' = ShiftedBy([job EXCEPT ![j] = chain], Len(document.text), Len(chunk)),
         UNCHANGED <<file, temp, check>>
  PROVE  Inv'
<1> DEFINE p == Len(document.text)
           new == InsertedInto(document, p, chunk)
           jobs == [job EXCEPT ![j] = chain]
<1>1. /\ j \in Job /\ document.text \in Bytes /\ Len(chunk) \in Nat
      /\ p \in 0..Len(document.text) /\ DocumentInv(document)
  BY DEF Active, Inv, TypeInv, Bytes, DocumentInv, Documents
<1>2. jobs \in [Job -> Chain]
  BY DEF Inv, TypeInv
<1>3. \A k \in Job : jobs[k] = IF k = j THEN chain ELSE job[k]
  BY DEF Inv, TypeInv
<1> HIDE DEF jobs
<1>4. \A k \in Job : ChainInv(jobs[k], temp[k], document.text)
  <2>1. ChainInv(chain, temp[j], document.text)
    BY <1>1 DEF Inv, ChainsInv, ChainInv, NotWriting
  <2> QED BY <2>1, <1>3 DEF Inv, ChainsInv
<1>5. /\ Kept(new, document') /\ document'.readonly
      /\ document'.obsolete = document.obsolete
      /\ document'.text \in Bytes /\ Len(document'.text) = Len(document.text) + Len(chunk)
      /\ DocumentInv(document')
  <2>1. /\ DocumentInv(new) /\ new.text \in Bytes
        /\ Len(new.text) = Len(document.text) + Len(chunk)
        /\ new.obsolete = document.obsolete
    BY <1>1, InsertedIntoFields
  <2>2. document' = [new EXCEPT !.readonly = TRUE]
    OBVIOUS
  <2> HIDE DEF new
  <2>3. new \in Documents
    BY <2>1 DEF DocumentInv
  <2>4. Kept(new, document') /\ document'.readonly /\ document'.obsolete = new.obsolete
    BY <2>2, <2>3 DEF Kept, Documents
  <2>5. DocumentInv(document')
    BY <2>1, <2>4, KeptDocument
  <2>6. document'.text = new.text
    BY <2>4 DEF Kept
  <2> QED BY <2>1, <2>4, <2>5, <2>6
<1>6. /\ seen' \in [alone : BOOLEAN, bytes : Bytes, readonly : BOOLEAN, edits : Kinds]
      /\ seen'.alone = seen.alone /\ seen'.bytes = seen.bytes
      /\ seen'.readonly = seen.readonly
      /\ seen'.edits = IF seen.edits = "linear" /\ ~Precedes(document, p, chunk)
                      THEN seen.edits ELSE "branched"
  BY SeenInsertFields
<1>7. /\ job' \in [Job -> Chain] /\ ChainsInv'
      /\ \A k \in Job : job'[k].step = jobs[k].step /\ job'[k].readonly = jobs[k].readonly
  BY <1>1, <1>2, <1>4, <1>5, ShiftStep DEF jobs, Inv
<1>8. TypeInv'
  BY <1>5, <1>6, <1>7 DEF Inv, TypeInv
<1>9. Active' = Active
  <2>1. ASSUME NEW k \in Job  PROVE job'[k].step = job[k].step
    BY <1>3, <1>7
  <2> QED BY <2>1 DEF Active
<1>10. seen'.alone => AloneInv'
  <2> SUFFICES ASSUME seen'.alone  PROVE AloneInv'
    OBVIOUS
  <2>0. seen.alone /\ AloneInv
    BY <1>6 DEF Inv
  <2>1. \A k \in Job : job'[k].step = IF k = j THEN "read" ELSE "idle"
    <3> SUFFICES ASSUME NEW k \in Job
                 PROVE  job'[k].step = IF k = j THEN "read" ELSE "idle"
      OBVIOUS
    <3>1. job'[k].step = job[k].step
      BY <1>3, <1>7
    <3>2. k # j => k \notin Active
      BY <2>0, <1>1 DEF AloneInv, Active
    <3>3. k # j => job[k].step = "idle"
      BY <3>2 DEF Active
    <3> QED BY <3>1, <3>3
  <2>2. job'[j].readonly = seen'.readonly
    BY <1>1, <1>3, <1>6, <1>7, <2>0 DEF AloneInv
  <2>3. Active' = {j}
    BY <1>1, <2>1 DEF Active
  <2>4. EditsInv(document', seen'.bytes, seen'.edits)
    <3>1. /\ EditsInv(document, seen.bytes, seen.edits) /\ DocumentInv(document)
          /\ seen.bytes \in Bytes /\ seen.edits \in Kinds
      BY <2>0 DEF AloneInv, Inv, TypeInv
    <3>2. EditsInv(new, seen'.bytes, seen'.edits)
      BY <1>1, <1>6, <3>1, InsertedIntoFields
    <3> QED BY <1>5, <3>2, KeptEdits
  <2> QED BY <1>1, <1>5, <2>1, <2>2, <2>3, <2>4 DEF AloneInv
<1>11. CheckingEnds'
  BY <1>9, <1>1 DEF CheckingEnds
<1> QED BY <1>7, <1>8, <1>10, <1>11 DEF Inv

LEMMA ReadStep ==
  ASSUME Inv, NEW j \in Job, Read(j)
  PROVE  Inv'
<1> DEFINE c == job[j]
<1>1. j \in Active /\ c \in Chain /\ c.step = "read"
      /\ ChainInv(c, temp[j], document.text)
  BY DEF Read, Active, Inv, TypeInv, ChainsInv
<1>2. CASE LoadFailed(j)
  BY <1>1, <1>2, LoadFailedStep
<1>3. CASE ~ LoadFailed(j) /\ c.buffer = << >>
  <2> DEFINE chain == [c EXCEPT !.step = "statread"]
  <2>1. /\ job' = [job EXCEPT ![j] = chain]
        /\ temp' = [temp EXCEPT ![j] = temp[j]] /\ temp[j] \in Seq(Bytes)
        /\ UNCHANGED <<document, file, check, seen>>
    BY <1>3 DEF Read, Inv, TypeInv
  <2>2. /\ chain \in Chain /\ chain.step = "statread" /\ chain.readonly = c.readonly
        /\ chain.at = c.at /\ chain.asked = c.asked /\ chain.running = c.running
    BY <1>1 DEF Chain
  <2> HIDE DEF chain
  <2>3. ChainInv(chain, temp[j], document.text)
    BY <1>1, <2>2 DEF ChainInv, NotWriting
  <2> QED BY <1>1, <2>1, <2>2, <2>3, AnsweredStep DEF Inv, TypeInv
<1>4. CASE ~ LoadFailed(j) /\ c.buffer # << >>
  <2> DEFINE size == Min({ReadSize, Len(c.buffer)})
             chunk == SubSeq(c.buffer, 1, size)
             rest == SubSeq(c.buffer, size + 1, Len(c.buffer))
             chain == [c EXCEPT !.buffer = rest, !.bytes = @ \o chunk]
  <2>1. /\ document' = [InsertedInto(document, Len(document.text), chunk)
                          EXCEPT !.readonly = TRUE]
        /\ seen' = SeenInsert(Len(document.text), chunk)
        /\ job' = ShiftedBy([job EXCEPT ![j] = chain], Len(document.text), size)
        /\ UNCHANGED <<file, temp, check>>
    BY <1>4 DEF Read
  <2>2. c.buffer \in Seq(Char) /\ c.bytes \in Seq(Char) /\ Len(c.buffer) \in Nat
    BY <1>1 DEF Chain, Bytes
  <2>3. size \in Nat \ {0} /\ size <= Len(c.buffer)
    <3>0. Len(c.buffer) # 0
      BY <1>4, <2>2
    <3>1. {ReadSize, Len(c.buffer)} \in SUBSET Nat /\ {ReadSize, Len(c.buffer)} # {}
      BY <2>2, SizesAssumption
    <3>2. size \in {ReadSize, Len(c.buffer)}
          /\ \A y \in {ReadSize, Len(c.buffer)} : size <= y
      BY <3>1, MinIsLeast
    <3> QED BY <3>0, <3>1, <3>2, SizesAssumption
  <2> HIDE DEF size
  <2>4. chunk \in Seq(Char) /\ Len(chunk) = size /\ rest \in Seq(Char)
    <3>1. 0 \in 0..Len(c.buffer) /\ size \in 0..Len(c.buffer) /\ 0 + 1 = 1 /\ size - 0 = size
          /\ Len(c.buffer) \in size..Len(c.buffer)
      BY <2>2, <2>3
    <3> QED BY <2>2, <3>1, PartFields
  <2> HIDE DEF chunk, rest
  <2>8. chunk # << >>
    BY <2>3, <2>4
  <2>5. chunk \in Bytes /\ rest \in Bytes /\ c.bytes \o chunk \in Bytes
    BY <2>2, <2>4 DEF Bytes
  <2>6. /\ chain \in Chain /\ chain.step = "read" /\ chain.readonly = c.readonly
        /\ chain.at = c.at /\ chain.asked = c.asked /\ chain.running = c.running
    BY <1>1, <2>5 DEF Chain
  <2> HIDE DEF chain
  <2>7. job' = ShiftedBy([job EXCEPT ![j] = chain], Len(document.text), Len(chunk))
    BY <2>1, <2>4
  <2> QED BY <1>1, <2>1, <2>5, <2>6, <2>7, <2>8, ChunkStep
<1> QED BY <1>2, <1>3, <1>4

LEMMA FinishStep ==
  ASSUME Inv, NEW j \in Job, Finish(j)
  PROVE  Inv'
<1>1. j \in Active /\ job[j] \in Chain /\ job[j].step = "statread"
      /\ ChainInv(job[j], temp[j], document.text)
  BY DEF Finish, Active, Inv, TypeInv, ChainsInv
<1>2. CASE LoadFailed(j)
  BY <1>1, <1>2, LoadFailedStep
<1>3. CASE ~ LoadFailed(j)
  <2> DEFINE s == job[j].bytes
             ended == [job EXCEPT ![j] = Idle]
             jobs == CutBy(ended, 0, Len(document.text))
             revision == document.revision + Edits(s)
  <2>1. /\ document' = [text |-> s, revision |-> revision, saved |-> revision,
                         undo |-> << >>, readonly |-> file.readonly, obsolete |-> "NO"]
        /\ seen' = [seen EXCEPT !.bytes = Shared(j), !.readonly = file.readonly,
                                !.edits = "linear"]
        /\ job' = ShiftedBy(jobs, 0, Len(s))
        /\ UNCHANGED <<file, temp, check>>
    BY <1>3 DEF Finish
  <2>0. revision \in Nat /\ document.text \in Bytes /\ Len(document.text) \in Nat
    <3>1. Edits(s) \in Nat /\ document.revision \in Nat
      BY <1>1, EditsCounted DEF Chain, Inv, TypeInv, DocumentInv, Documents
    <3> QED BY <3>1 DEF Inv, TypeInv, DocumentInv, Documents, Bytes
  <2> HIDE DEF revision
  <2>2. s \in Bytes /\ Len(s) \in Nat /\ << >> \in Bytes /\ << >> \in Seq(Bytes)
    BY <1>1 DEF Chain, Bytes
  <2>3. Idle \in Chain /\ Idle.step = "idle"
    BY <2>2 DEF Idle, Chain
  <2>4. /\ ended \in [Job -> Chain]
        /\ \A k \in Job : ended[k] = IF k = j THEN Idle ELSE job[k]
    BY <2>3 DEF Inv, TypeInv
  <2> HIDE DEF ended
  <2>5. ASSUME NEW k \in Job  PROVE ChainInv(ended[k], temp[k], document.text)
    <3>1. CASE k = j
      BY <1>1, <2>0, <2>2, <2>3, <2>4, <3>1 DEF ChainInv, NotWriting, Idle
    <3>2. CASE k # j
      BY <2>4, <3>2 DEF Inv, ChainsInv
    <3> QED BY <3>1, <3>2
  <2>6. /\ jobs \in [Job -> Chain]
        /\ \A k \in Job : ChainInv(jobs[k], temp[k], << >>) /\ jobs[k].step = ended[k].step
    <3> DEFINE zero == 0
               n == Len(document.text)
               none == << >>
    <3>1. /\ zero \in 0..Len(document.text) /\ n \in zero..Len(document.text)
          /\ none \in Bytes /\ Len(none) = Len(document.text) - (n - zero)
      BY <2>0, <2>2
    <3>2. jobs = CutBy(ended, zero, n)
      OBVIOUS
    <3> HIDE DEF zero, n, none, jobs
    <3>3. /\ jobs \in [Job -> Chain]
          /\ \A k \in Job : /\ ChainInv(jobs[k], temp[k], none)
                            /\ jobs[k].step = ended[k].step
                            /\ jobs[k].bytes = ended[k].bytes
                            /\ jobs[k].readonly = ended[k].readonly
      BY <2>0, <2>4, <2>5, <3>1, <3>2, CutFields
    <3> QED BY <3>3 DEF none
  <2> HIDE DEF jobs
  <2>7. /\ document' \in Documents /\ document'.text = s /\ document'.undo = << >>
        /\ document'.revision = revision /\ document'.saved = revision
        /\ document'.readonly = file.readonly /\ document'.obsolete = "NO"
        /\ file.readonly \in BOOLEAN
    <3>1. << >> \in Seq(Steps) /\ file.readonly \in BOOLEAN
      BY DEF Inv, TypeInv
    <3> QED BY <2>0, <2>1, <2>2, <3>1 DEF Documents
  <2>8. /\ job' \in [Job -> Chain] /\ ChainsInv'
        /\ \A k \in Job : job'[k].step = jobs[k].step
    <3>1. 0 \in 0..Len(<< >>) /\ Len(s) = Len(<< >>) + Len(s)
      BY <2>2
    <3> QED BY <2>1, <2>2, <2>6, <2>7, <3>1, ShiftStep DEF Inv
  <2>9. /\ seen' \in [alone : BOOLEAN, bytes : Bytes, readonly : BOOLEAN, edits : Kinds]
        /\ seen'.alone = seen.alone /\ seen'.readonly = file.readonly
        /\ seen'.bytes = Shared(j) /\ seen'.edits = "linear"
    <3>1. Shared(j) \in Bytes
      BY <2>2 DEF Shared
    <3>2. "linear" \in Kinds
      BY DEF Kinds
    <3> QED BY <2>1, <2>7, <3>1, <3>2 DEF Inv, TypeInv
  <2>10. TypeInv'
    <3>1. Fit(<< >>, Len(s))
      BY <2>0, <2>2, NothingRemembered
    <3>2. DocumentInv(document')
      BY <2>7, <3>1 DEF DocumentInv
    <3> QED BY <2>1, <2>8, <2>9, <3>2 DEF Inv, TypeInv
  <2>11. seen'.alone => AloneInv'
    <3> SUFFICES ASSUME seen'.alone  PROVE AloneInv'
      OBVIOUS
    <3>1. AloneInv /\ TypeInv /\ seen.alone
      BY <2>9 DEF Inv
    <3>2. /\ \A k \in Job : k # j => job'[k].step = job[k].step
          /\ job'[j].step = "idle"
      BY <2>3, <2>4, <2>6, <2>8
    <3>3. document'.readonly = seen'.readonly
      BY <2>7, <2>9
    <3>4. FileText(document'.text) = FileText(seen'.bytes)
      BY <2>7, <2>9, <3>1 DEF Shared
    <3>5. \E old \in Nat, b \in Bytes :
            Remembers(document'.undo, document'.text, document'.revision, old, b)
      BY <2>0, <2>2, <2>7, NothingRemembered
    <3>6. EditsInv(document', seen'.bytes, seen'.edits)
      <4>1. seen'.bytes \in Bytes /\ seen'.edits \in Kinds
        BY <2>9
      <4> QED BY <2>7, <3>4, <3>5, <4>1, SharedEdits
    <3> QED BY <1>1, <3>1, <3>2, <3>3, <3>6, AloneEnd
  <2>12. CheckingEnds'
    BY <2>7 DEF CheckingEnds
  <2> QED BY <2>8, <2>10, <2>11, <2>12 DEF Inv
<1> QED BY <1>2, <1>3

(* A status check starts, or is answered.                                  *)
LEMMA CheckStep ==
  ASSUME Inv, Check \/ Checked
  PROVE  Inv'
<1>1. /\ UNCHANGED <<file, job, temp, seen>> /\ check' \in BOOLEAN
      /\ document' \in Documents
      /\ document'.text = document.text /\ Kept(document, document')
      /\ document'.readonly = document.readonly
      /\ document'.obsolete = "CHECKING" => check'
  <2>1. CASE Check
    BY <2>1 DEF Check, Inv, TypeInv, DocumentInv, Documents, Kept
  <2>2. CASE Checked
    BY <2>2 DEF Checked, Inv, TypeInv, DocumentInv, Documents, Kept
  <2> QED BY <2>1, <2>2
<1>2. TypeInv'
  BY <1>1, KeptDocument DEF Inv, TypeInv
<1>3. ChainsInv'
  BY <1>1 DEF Inv, ChainsInv
<1>4. Active' = Active
  BY <1>1 DEF Active
<1>5. seen'.alone => AloneInv'
  <2> SUFFICES ASSUME seen'.alone  PROVE AloneInv'
    OBVIOUS
  <2>1. AloneInv
    BY <1>1 DEF Inv
  <2>2. EditsInv(document', seen'.bytes, seen'.edits)
    BY <1>1, <2>1, KeptEdits DEF AloneInv
  <2> QED BY <1>1, <1>4, <2>1, <2>2 DEF AloneInv
<1>6. CheckingEnds'
  BY <1>1 DEF CheckingEnds
<1> QED BY <1>2, <1>3, <1>5, <1>6 DEF Inv

(* A step of a user who edits: the document is not read only, so that no   *)
(* save has it for itself.                                                 *)
LEMMA EditStep ==
  ASSUME Inv, ~document.readonly, DocumentInv(document'),
         document'.readonly = document.readonly, document'.obsolete = document.obsolete,
         job' \in [Job -> Chain], ChainsInv',
         \A k \in Job : job'[k].step = job[k].step /\ job'[k].readonly = job[k].readonly,
         seen' \in [alone : BOOLEAN, bytes : Bytes, readonly : BOOLEAN, edits : Kinds],
         seen'.alone = seen.alone, seen'.readonly = seen.readonly,
         AloneInv => EditsInv(document', seen'.bytes, seen'.edits),
         UNCHANGED <<file, temp, check>>
  PROVE  Inv'
<1>1. TypeInv'
  BY DEF Inv, TypeInv
<1>2. Active' = Active
  BY DEF Active
<1>3. seen'.alone => AloneInv'
  <2> SUFFICES ASSUME AloneInv  PROVE AloneInv'
    BY DEF Inv
  <2>1. \A k \in Job :
          job'[k].step \notin {"temp", "open", "write", "flush", "close", "move", "stat"}
    BY DEF AloneInv
  <2>2. \A k \in Job : job'[k].step # "write"
    BY <2>1
  <2>3. \A k \in Active' : job'[k].readonly = seen'.readonly
    BY <1>2 DEF AloneInv, Active
  <2> QED BY <1>2, <2>1, <2>2, <2>3 DEF AloneInv
<1>4. CheckingEnds'
  BY <1>2 DEF Inv, CheckingEnds
<1> QED BY <1>1, <1>3, <1>4 DEF Inv

(* The user types.                                                         *)
LEMMA TypeStep ==
  ASSUME Inv, NEW p \in 0..Len(document.text), NEW c \in Char, Type(p, c)
  PROVE  Inv'
<1>1. /\ document.text \in Bytes /\ Len(document.text) \in Nat /\ DocumentInv(document)
      /\ job \in [Job -> Chain]
      /\ \A k \in Job : ChainInv(job[k], temp[k], document.text)
      /\ <<c>> \in Bytes /\ Len(<<c>>) = 1 /\ <<c>> # << >>
  BY DEF Inv, TypeInv, DocumentInv, Documents, ChainsInv, Bytes
<1>2. /\ document' = InsertedInto(document, p, <<c>>)
      /\ seen' = SeenInsert(p, <<c>>)
      /\ job' = ShiftedBy(job, p, 1)
      /\ ~document.readonly /\ UNCHANGED <<file, temp, check>>
  BY DEF Type
<1>3. /\ DocumentInv(document') /\ document'.text \in Bytes
      /\ Len(document'.text) = Len(document.text) + 1
      /\ document'.readonly = document.readonly
      /\ document'.obsolete = document.obsolete
      /\ \A bytes \in Bytes, edits \in Kinds :
           EditsInv(document, bytes, edits) =>
             EditsInv(document', bytes,
               IF edits = "linear" /\ ~Precedes(document, p, <<c>>) THEN edits
               ELSE "branched")
  BY <1>1, <1>2, InsertedIntoFields
<1>4. /\ job' \in [Job -> Chain] /\ ChainsInv'
      /\ \A k \in Job : job'[k].step = job[k].step /\ job'[k].readonly = job[k].readonly
  BY <1>1, <1>2, <1>3, ShiftStep DEF Inv
<1>5. /\ seen' \in [alone : BOOLEAN, bytes : Bytes, readonly : BOOLEAN, edits : Kinds]
      /\ seen'.alone = seen.alone /\ seen'.bytes = seen.bytes
      /\ seen'.readonly = seen.readonly
      /\ seen'.edits = IF seen.edits = "linear" /\ ~Precedes(document, p, <<c>>)
                      THEN seen.edits ELSE "branched"
  BY <1>2, SeenInsertFields
<1>6. AloneInv => EditsInv(document', seen'.bytes, seen'.edits)
  <2>1. seen.bytes \in Bytes /\ seen.edits \in Kinds
    BY DEF Inv, TypeInv
  <2> QED BY <1>3, <1>5, <2>1 DEF AloneInv
<1> QED BY <1>2, <1>3, <1>4, <1>5, <1>6, EditStep

(* The user takes the last step back.                                      *)
LEMMA UndoStep ==
  ASSUME Inv, Undo
  PROVE  Inv'
<1> DEFINE step == Last(document.undo)
           edits == IF seen.edits = "linear" THEN "undone" ELSE seen.edits
<1>1. /\ document.text \in Bytes /\ Len(document.text) \in Nat /\ DocumentInv(document)
      /\ job \in [Job -> Chain]
      /\ \A k \in Job : ChainInv(job[k], temp[k], document.text)
  BY DEF Inv, TypeInv, DocumentInv, Documents, ChainsInv, Bytes
<1>2. /\ document' = UndoneFrom(document) /\ document.undo # << >>
      /\ job' = CutBy(job, step.start, step.end)
      /\ seen' = [seen EXCEPT !.edits = edits]
      /\ ~document.readonly /\ UNCHANGED <<file, temp, check>>
  BY DEF Undo, UndoneFrom
<1>3. /\ DocumentInv(document') /\ document'.text \in Bytes
      /\ document'.readonly = document.readonly
      /\ document'.obsolete = document.obsolete
      /\ step.start \in 0..Len(document.text)
      /\ step.end \in step.start..Len(document.text)
      /\ Len(document'.text) = Len(document.text) - (step.end - step.start)
      /\ \A bytes \in Bytes, e \in Kinds :
           EditsInv(document, bytes, e) =>
             EditsInv(document', bytes, IF e = "linear" THEN "undone" ELSE e)
  BY <1>1, <1>2, UndoneFields
<1> HIDE DEF step
<1>4. /\ job' \in [Job -> Chain]
      /\ \A k \in Job : /\ ChainInv(job'[k], temp[k], document'.text)
                        /\ job'[k].step = job[k].step /\ job'[k].readonly = job[k].readonly
  <2> DEFINE start == step.start
             end == step.end
             u == document'.text
             cut == CutBy(job, start, end)
  <2>1. /\ start \in 0..Len(document.text) /\ end \in start..Len(document.text)
        /\ u \in Bytes /\ Len(u) = Len(document.text) - (end - start) /\ job' = cut
    BY <1>2, <1>3
  <2> HIDE DEF start, end, u, cut
  <2>2. /\ cut \in [Job -> Chain]
        /\ \A k \in Job : /\ ChainInv(cut[k], temp[k], u)
                          /\ cut[k].step = job[k].step
                          /\ cut[k].bytes = job[k].bytes
                          /\ cut[k].readonly = job[k].readonly
    <3> DEFINE t == document.text
    <3>1. /\ t \in Bytes /\ start \in 0..Len(t) /\ end \in start..Len(t)
          /\ Len(u) = Len(t) - (end - start) /\ u \in Bytes /\ job \in [Job -> Chain]
          /\ \A k \in Job : ChainInv(job[k], temp[k], t)
      BY <1>1, <2>1
    <3> HIDE DEF t
    <3> QED BY <3>1, CutFields DEF cut
  <2> QED BY <2>1, <2>2 DEF u
<1>5. ChainsInv'
  BY <1>2, <1>4 DEF ChainsInv
<1>6. /\ seen' \in [alone : BOOLEAN, bytes : Bytes, readonly : BOOLEAN, edits : Kinds]
      /\ seen'.alone = seen.alone /\ seen'.bytes = seen.bytes
      /\ seen'.readonly = seen.readonly /\ seen'.edits = edits
  <2>1. seen \in [alone : BOOLEAN, bytes : Bytes, readonly : BOOLEAN, edits : Kinds]
    BY DEF Inv, TypeInv
  <2>2. edits \in Kinds
    BY <2>1 DEF Kinds
  <2> HIDE DEF edits
  <2> QED BY <1>2, <2>1, <2>2
<1>7. AloneInv => EditsInv(document', seen'.bytes, seen'.edits)
  <2>1. seen.bytes \in Bytes /\ seen.edits \in Kinds
    BY DEF Inv, TypeInv
  <2> QED BY <1>3, <1>6, <2>1 DEF AloneInv
<1> QED BY <1>2, <1>3, <1>4, <1>5, <1>6, <1>7, EditStep

(* Another program changes the file, a temporary file that nobody waits    *)
(* for is removed or not, or nothing happens.                              *)
LEMMA ExternalStep ==
  ASSUME Inv, External \/ UNCHANGED vars \/ \E n \in Name : RemoveFile(n)
  PROVE  Inv'
<1>1. UNCHANGED <<document, job, temp, check, seen>>
  BY DEF External, RemoveFile, vars
<1>2. file' \in [bytes : Bytes, readonly : BOOLEAN]
  BY ContentsAssumption DEF External, RemoveFile, vars, Inv, TypeInv, Bytes
<1>3. TypeInv' /\ ChainsInv' /\ Active' = Active
  BY <1>1, <1>2 DEF Inv, TypeInv, ChainsInv, Active
<1> QED BY <1>1, <1>3 DEF Inv, AloneInv, CheckingEnds

LEMMA StepInv == Inv /\ [Next]_vars => Inv'
<1> SUFFICES ASSUME Inv, [Next]_vars  PROVE Inv'
  OBVIOUS
<1>1. ASSUME NEW j \in Job, Save(j) \/ Load(j)  PROVE Inv'
  BY <1>1, SaveStep, LoadStep
<1>2. ASSUME NEW j \in Job, JobStep(j)  PROVE Inv'
  BY <1>2, MakeTempStep, OpenStep, StartWriteStep, WriteDoneStep, CloseFileStep, MoveStep,
     StatStep, OpenReadStep, ReadStep, FinishStep
     DEF JobStep
<1>3. CASE Check \/ Checked
  BY <1>3, CheckStep
<1>4. ASSUME NEW p \in 0..Len(document.text), NEW c \in Char, Type(p, c)  PROVE Inv'
  BY <1>4, TypeStep
<1>5. CASE Undo
  BY <1>5, UndoStep
<1>6. CASE External \/ UNCHANGED vars
  BY <1>6, ExternalStep
<1>7. ASSUME NEW n \in Name, RemoveFile(n)  PROVE Inv'
  BY <1>7, ExternalStep
<1> QED BY <1>1, <1>2, <1>3, <1>4, <1>5, <1>6, <1>7 DEF Next

LEMMA Invariance == Spec => []Inv
BY InitInv, StepInv, PTL DEF Spec

-----------------------------------------------------------------------------
(* The temporary files                                                     *)

Folders == [names : SUBSET Name, removals : SUBSET Name, own : [Job -> SUBSET Name]]

HasTemp == {"open", "write", "flush", "close", "move"}

(* What a save calls its own is there, is not going to be removed and is   *)
(* nobody else's; that is so for a save that has none, too.                *)
FolderInv ==
  /\ folder \in Folders
  /\ folder.removals \subseteq folder.names
  /\ \A j \in Job : folder.own[j] \subseteq folder.names \ folder.removals
  /\ \A j, k \in Job : j # k => folder.own[j] \cap folder.own[k] = {}
  /\ \A j \in Job : job[j].step \in HasTemp =>
                      folder.own[j] # {}

(* A step of the chain j that leaves the folder.                           *)
LEMMA FolderKept ==
  ASSUME FolderInv, folder' = folder,
         \A k \in Job :
           job'[k].step \in HasTemp =>
             job[k].step \in HasTemp
  PROVE  FolderInv'
BY DEF FolderInv

(* The folder gets the names and removals given, and j the files it calls  *)
(* its own: those of others are neither removed nor given to j.            *)
LEMMA FolderStep ==
  ASSUME FolderInv, NEW j \in Job, NEW names \in SUBSET Name, NEW removals \in SUBSET Name,
         NEW own \in SUBSET Name,
         folder' = [folder EXCEPT !.names = names, !.removals = removals, !.own[j] = own],
         removals \subseteq names, own \subseteq names \ removals,
         \A k \in Job \ {j} : folder.own[k] \subseteq names \ removals,
         \A k \in Job \ {j} : folder.own[k] \cap own = {},
         \A k \in Job \ {j} : job'[k].step = job[k].step,
         job'[j].step \in HasTemp => own # {}
  PROVE  FolderInv'
<1>1. /\ folder' \in Folders /\ folder'.names = names /\ folder'.removals = removals
      /\ folder'.own = [folder.own EXCEPT ![j] = own]
      /\ folder.own \in [Job -> SUBSET Name]
  BY DEF FolderInv, Folders
<1>2. \A k \in Job : folder'.own[k] = IF k = j THEN own ELSE folder.own[k]
  BY <1>1
<1>3. \A k \in Job : folder'.own[k] \subseteq folder'.names \ folder'.removals
  BY <1>1, <1>2
<1>4. ASSUME NEW i \in Job, NEW k \in Job, i # k
      PROVE  folder'.own[i] \cap folder'.own[k] = {}
  <2>1. CASE i = j
    BY <1>2, <1>4, <2>1
  <2>2. CASE k = j
    BY <1>2, <1>4, <2>2
  <2>3. CASE i # j /\ k # j
    BY <1>2, <1>4, <2>3 DEF FolderInv
  <2> QED BY <2>1, <2>2, <2>3
<1>5. ASSUME NEW k \in Job, job'[k].step \in HasTemp
      PROVE  folder'.own[k] # {}
  BY <1>2, <1>5 DEF FolderInv
<1> QED BY <1>1, <1>3, <1>4, <1>5 DEF FolderInv

(* The catch clause: a removal is asked for, of a file that nobody else    *)
(* calls its own.                                                          *)
LEMMA FolderCaught ==
  ASSUME Inv, FolderInv, NEW j \in Job, NEW opened \in BOOLEAN, Caught(j, opened)
  PROVE  FolderInv'
<1> DEFINE removals == IF opened THEN folder.removals \cup folder.own[j]
                       ELSE folder.removals
<1>1. folder' = [folder EXCEPT !.names = folder.names, !.removals = removals, !.own[j] = {}]
  <2>1. folder' = [folder EXCEPT !.removals = removals, !.own[j] = {}]
    BY DEF Caught, Dropped
  <2> HIDE DEF removals
  <2> QED BY <2>1 DEF FolderInv, Folders
<1>2. /\ folder.names \in SUBSET Name /\ removals \in SUBSET Name
      /\ removals \subseteq folder.names
  BY DEF FolderInv, Folders
<1>3. \A k \in Job \ {j} : folder.own[k] \subseteq folder.names \ removals
  BY DEF FolderInv
<1>4. /\ \A k \in Job \ {j} : job'[k].step = job[k].step
      /\ job'[j].step \notin HasTemp
  BY DEF Caught, Inv, TypeInv, Idle, HasTemp
<1>5. /\ {} \in SUBSET Name /\ {} \subseteq folder.names \ removals
      /\ \A k \in Job \ {j} : folder.own[k] \cap {} = {}
  OBVIOUS
<1> HIDE DEF removals
<1> QED BY <1>1, <1>2, <1>3, <1>4, <1>5, FolderStep

LEMMA FolderMakeTemp ==
  ASSUME Inv, FolderInv, NEW j \in Job, MakeTemp(j), ~Caught(j, FALSE)
  PROVE  FolderInv'
<1>1. PICK n \in Name \ folder.names :
        folder' = [folder EXCEPT !.names = @ \cup {n}, !.own[j] = {n}]
  BY DEF MakeTemp
<1> DEFINE names == folder.names \cup {n}
           own == {n}
<1>2. folder' = [folder EXCEPT !.names = names, !.removals = folder.removals, !.own[j] = own]
  <2>1. folder' = [folder EXCEPT !.names = names, !.own[j] = own]
    BY <1>1
  <2> HIDE DEF names, own
  <2> QED BY <2>1 DEF FolderInv, Folders
<1>3. /\ names \in SUBSET Name /\ folder.removals \in SUBSET Name /\ own \in SUBSET Name
      /\ folder.removals \subseteq names /\ own \subseteq names \ folder.removals /\ own # {}
  BY DEF FolderInv, Folders
<1>4. /\ \A k \in Job \ {j} : folder.own[k] \subseteq names \ folder.removals
      /\ \A k \in Job \ {j} : folder.own[k] \cap own = {}
  BY DEF FolderInv
<1>5. \A k \in Job \ {j} : job'[k].step = job[k].step
  BY DEF MakeTemp, Inv, TypeInv
<1> HIDE DEF names, own
<1> QED BY <1>2, <1>3, <1>4, <1>5, FolderStep

LEMMA FolderMove ==
  ASSUME Inv, FolderInv, NEW j \in Job, Move(j), ~Caught(j, TRUE)
  PROVE  FolderInv'
<1> DEFINE names == folder.names \ folder.own[j]
<1>1. folder' = [folder EXCEPT !.names = names, !.removals = folder.removals, !.own[j] = {}]
  <2>1. folder' = [folder EXCEPT !.names = names, !.own[j] = {}]
    BY DEF Move
  <2> HIDE DEF names
  <2> QED BY <2>1 DEF FolderInv, Folders
<1>2. /\ names \in SUBSET Name /\ folder.removals \in SUBSET Name
      /\ folder.removals \subseteq names
  BY DEF FolderInv, Folders
<1>3. \A k \in Job \ {j} : folder.own[k] \subseteq names \ folder.removals
  BY DEF FolderInv
<1>4. /\ \A k \in Job \ {j} : job'[k].step = job[k].step
      /\ job'[j].step \notin HasTemp
  <2>1. job \in [Job -> Chain] /\ job[j] \in Chain /\ job' = [job EXCEPT ![j].step = "stat"]
    BY DEF Move, Inv, TypeInv
  <2> QED BY <2>1 DEF Chain, HasTemp
<1>5. /\ {} \in SUBSET Name /\ {} \subseteq names \ folder.removals
      /\ \A k \in Job \ {j} : folder.own[k] \cap {} = {}
  OBVIOUS
<1> HIDE DEF names
<1> QED BY <1>1, <1>2, <1>3, <1>4, <1>5, FolderStep

LEMMA FolderRemove ==
  ASSUME FolderInv, NEW n \in Name, RemoveFile(n)
  PROVE  FolderInv'
<1>1. PICK gone \in {{}, {n}} :
        folder' = [folder EXCEPT !.removals = @ \ {n}, !.names = @ \ gone]
  BY DEF RemoveFile
<1>2. /\ folder' \in Folders /\ folder'.own = folder.own
      /\ folder'.removals = folder.removals \ {n} /\ folder'.names = folder.names \ gone
  BY <1>1 DEF FolderInv, Folders
<1>3. folder'.removals \subseteq folder'.names
  BY <1>2 DEF FolderInv
<1>4. \A k \in Job : folder'.own[k] \subseteq folder'.names \ folder'.removals
  <2>1. n \in folder.removals /\ job' = job
    BY DEF RemoveFile
  <2>2. \A k \in Job : n \notin folder.own[k]
    BY <2>1 DEF FolderInv
  <2> QED BY <1>2, <2>2 DEF FolderInv
<1>5. job' = job
  BY DEF RemoveFile
<1> QED BY <1>2, <1>3, <1>4, <1>5 DEF FolderInv

(* Cursors that move are no steps.                                         *)
LEMMA ShiftedStep ==
  ASSUME NEW jobs, NEW p, NEW n, NEW k \in Job, "step" \in DOMAIN jobs[k]
  PROVE  ShiftedBy(jobs, p, n)[k].step = jobs[k].step
BY DEF ShiftedBy

LEMMA CutStep ==
  ASSUME NEW jobs, NEW a, NEW e, NEW k \in Job, "step" \in DOMAIN jobs[k]
  PROVE  /\ CutBy(jobs, a, e)[k].step = jobs[k].step
         /\ "step" \in DOMAIN CutBy(jobs, a, e)[k]
BY DEF CutBy

LEMMA FolderStepInv == Inv /\ Inv' /\ FolderInv /\ [Next]_vars => FolderInv'
<1> SUFFICES ASSUME Inv, Inv', FolderInv, [Next]_vars  PROVE FolderInv'
  OBVIOUS
<1>0. job \in [Job -> Chain] /\ job' \in [Job -> Chain]
  BY DEF Inv, TypeInv
<1>1. ASSUME NEW j \in Job, Save(j) \/ Load(j)  PROVE FolderInv'
  <2>1. folder' = folder
    BY <1>1 DEF Save, Load
  <2>2. \E step \in {"temp", "openread"} :
          job' = [job EXCEPT ![j] = [Idle EXCEPT !.step = step, !.readonly = document.readonly]]
    BY <1>1 DEF Save, Load, Begin
  <2>3. \A k \in Job : job'[k].step \in HasTemp => job[k].step \in HasTemp
    BY <1>0, <2>2 DEF Idle, HasTemp
  <2> QED BY <2>1, <2>3, FolderKept
<1>2. ASSUME NEW j \in Job, MakeTemp(j)  PROVE FolderInv'
  BY <1>2, FolderCaught, FolderMakeTemp
<1>3. ASSUME NEW j \in Job, Open(j)  PROVE FolderInv'
  <2>1. CASE Caught(j, FALSE)
    BY <2>1, FolderCaught
  <2>2. CASE ~ Caught(j, FALSE)
    <3>1. /\ folder' = folder /\ job[j].step \in HasTemp
          /\ \A k \in Job \ {j} : job'[k].step = job[k].step
      BY <1>0, <1>3, <2>2 DEF Open, HasTemp
    <3> QED BY <3>1, FolderKept
  <2> QED BY <2>1, <2>2
<1>4. ASSUME NEW j \in Job, StartWrite(j) \/ WriteDone(j) \/ CloseFile(j)  PROVE FolderInv'
  <2>1. CASE Caught(j, TRUE)
    BY <2>1, FolderCaught
  <2>2. CASE ~ Caught(j, TRUE)
    <3>1. /\ folder' = folder
          /\ \A k \in Job \ {j} : job'[k].step = job[k].step
      BY <1>0, <1>4, <2>2 DEF StartWrite, WriteDone, CloseFile
    <3>2. job[j].step \in HasTemp
      <4>1. ChainInv(job[j], temp[j], document.text) /\ job[j] \in Chain
        BY DEF Inv, ChainsInv, TypeInv
      <4> QED BY <1>4, <4>1
              DEF StartWrite, WriteDone, CloseFile, ChainInv, NotWriting, Chain, HasTemp
    <3> QED BY <3>1, <3>2, FolderKept
  <2> QED BY <2>1, <2>2
<1>5. ASSUME NEW j \in Job, Move(j)  PROVE FolderInv'
  BY <1>5, FolderCaught, FolderMove
<1>6. ASSUME NEW j \in Job, Stat(j)  PROVE FolderInv'
  <2>1. CASE Caught(j, TRUE)
    BY <2>1, FolderCaught
  <2>2. CASE ~ Caught(j, TRUE)
    <3>1. /\ folder' = folder /\ job' = [job EXCEPT ![j] = Idle]
      BY <1>6, <2>2 DEF Stat
    <3>2. \A k \in Job : job'[k].step \in HasTemp => job[k].step \in HasTemp
      BY <1>0, <3>1 DEF Idle, HasTemp
    <3> QED BY <3>1, <3>2, FolderKept
  <2> QED BY <2>1, <2>2
<1>7. ASSUME NEW j \in Job, OpenRead(j) \/ Read(j) \/ Finish(j)  PROVE FolderInv'
  <2>1. folder' = folder
    BY <1>7 DEF OpenRead, Read, Finish, LoadFailed
  <2>2. \A k \in Job : job'[k].step \in HasTemp => job[k].step \in HasTemp
    <3>1. CASE LoadFailed(j)
      BY <1>0, <3>1 DEF LoadFailed, Idle, HasTemp
    <3>2. CASE OpenRead(j) /\ ~LoadFailed(j)
      <4>1. job' = [job EXCEPT ![j] = [@ EXCEPT !.step = "read", !.buffer = file.bytes]]
        BY <3>2 DEF OpenRead
      <4>2. job[j] \in Chain /\ [job[j] EXCEPT !.step = "read", !.buffer = file.bytes].step = "read"
        BY <1>0 DEF Chain
      <4> QED BY <1>0, <4>1, <4>2 DEF HasTemp
    <3>3. CASE Read(j) /\ ~LoadFailed(j)
      <4>1. CASE job[j].buffer = << >>
        <5>1. job' = [job EXCEPT ![j].step = "statread"]
          BY <3>3, <4>1 DEF Read
        <5>2. job[j] \in Chain /\ [job[j] EXCEPT !.step = "statread"].step = "statread"
          BY <1>0 DEF Chain
        <5> QED BY <1>0, <5>1, <5>2 DEF HasTemp
      <4>2. CASE job[j].buffer # << >>
        <5> DEFINE rest == job[j].buffer
                   size == Min({ReadSize, Len(rest)})
                   c == [job[j] EXCEPT !.buffer = SubSeq(rest, size + 1, Len(rest)),
                                       !.bytes = @ \o SubSeq(rest, 1, size)]
                   jobs == [job EXCEPT ![j] = c]
        <5>1. job' = ShiftedBy(jobs, Len(document.text), size)
          BY <3>3, <4>2 DEF Read
        <5>2. "step" \in DOMAIN c /\ c.step = job[j].step
          BY <1>0 DEF Chain
        <5>3. \A k \in Job : "step" \in DOMAIN job[k]
          BY <1>0 DEF Chain
        <5> HIDE DEF c, size
        <5>4. \A k \in Job : jobs[k] = IF k = j THEN c ELSE job[k]
          BY <1>0
        <5> HIDE DEF jobs
        <5>5. \A k \in Job : jobs[k].step = job[k].step /\ "step" \in DOMAIN jobs[k]
          BY <5>2, <5>3, <5>4
        <5> QED BY <5>1, <5>5, ShiftedStep
      <4> QED BY <4>1, <4>2
    <3>4. CASE Finish(j) /\ ~LoadFailed(j)
      <4> DEFINE jobs == [job EXCEPT ![j] = Idle]
                 zero == 0
                 n == Len(document.text)
                 m == Len(job[j].bytes)
                 cut == CutBy(jobs, zero, n)
      <4>1. job' = ShiftedBy(cut, zero, m)
        BY <3>4 DEF Finish
      <4>2. \A k \in Job : jobs[k] = IF k = j THEN Idle ELSE job[k]
        BY <1>0
      <4>3. \A k \in Job : "step" \in DOMAIN jobs[k]
        BY <1>0, <4>2 DEF Idle, Chain
      <4>6. \A k \in Job : jobs[k].step \in HasTemp => job[k].step \in HasTemp
        BY <1>0, <4>2 DEF Idle, HasTemp
      <4> HIDE DEF jobs, zero, n, m
      <4>4. /\ \A k \in Job : "step" \in DOMAIN cut[k]
            /\ \A k \in Job : cut[k].step = jobs[k].step
        BY <4>3, CutStep
      <4> HIDE DEF cut
      <4>5. \A k \in Job : job'[k].step = cut[k].step
        BY <4>1, <4>4, ShiftedStep
      <4> QED BY <4>4, <4>5, <4>6
    <3> QED BY <1>7, <3>1, <3>2, <3>3, <3>4
  <2> QED BY <2>1, <2>2, FolderKept
<1>8. CASE Check \/ Checked \/ External \/ UNCHANGED vars
  BY <1>8, FolderKept DEF Check, Checked, External, vars
<1>9. \A k \in Job : "step" \in DOMAIN job[k]
  BY <1>0 DEF Chain
<1>11. CASE Undo
  <2>1. folder' = folder /\ \E a, e : job' = CutBy(job, a, e)
    BY <1>11 DEF Undo
  <2>2. \A k \in Job : job'[k].step = job[k].step
    BY <1>9, <2>1, CutStep
  <2> QED BY <2>1, <2>2, FolderKept
<1>12. ASSUME NEW p \in 0..Len(document.text), NEW c \in Char, Type(p, c)  PROVE FolderInv'
  <2>1. folder' = folder /\ job' = ShiftedBy(job, p, 1)
    BY <1>12 DEF Type
  <2>2. \A k \in Job : job'[k].step = job[k].step
    BY <1>9, <2>1, ShiftedStep
  <2> QED BY <2>1, <2>2, FolderKept
<1>10. ASSUME NEW n \in Name, RemoveFile(n)  PROVE FolderInv'
  BY <1>10, FolderRemove
<1> QED BY <1>1, <1>2, <1>3, <1>4, <1>5, <1>6, <1>7, <1>8, <1>10, <1>11, <1>12
        DEF Next, JobStep

LEMMA FolderInvariance == Spec => []FolderInv
<1>1. Init => FolderInv
  <2> SUFFICES ASSUME Init  PROVE FolderInv
    OBVIOUS
  <2>1. /\ folder.names = {} /\ folder.removals = {} /\ folder \in Folders
        /\ \A j \in Job : folder.own[j] = {}
    BY DEF Init, Folders
  <2>2. \A j \in Job : job[j].step \notin HasTemp
    BY DEF Init, Idle, HasTemp
  <2> QED BY <2>1, <2>2 DEF FolderInv
<1> QED BY <1>1, FolderStepInv, Invariance, PTL DEF Spec

-----------------------------------------------------------------------------
(* What follows                                                            *)

LEMMA ChainTypes ==
  ASSUME NEW chain \in Chain, NEW tmp \in Seq(Bytes), NEW t \in Bytes,
         ChainInv(chain, tmp, t)
  PROVE  /\ IsOption(chain.running) /\ IsOption(tmp)
         /\ chain.step \in {"write", "flush"} => chain.asked # << >> \/ chain.running # << >>
         /\ \A i \in DOMAIN chain.asked : Len(chain.asked[i]) <= WriteSize
         /\ chain.step \in {"write", "flush", "close", "move"} => tmp # << >>
<1>1. chain.running \in Seq(Bytes)
  BY DEF Chain
<1>2. CASE chain.step \in {"idle", "temp", "open", "stat", "openread", "read", "statread"}
  <2>1. /\ chain.asked = << >> /\ chain.running = << >>
        /\ tmp \in {<< >>, << << >> >>}
    BY <1>2 DEF ChainInv, NotWriting
  <2>2. Len(chain.running) <= 1 /\ Len(tmp) <= 1
    <3>1. Len(<< >>) <= 1 /\ Len(<< << >> >>) <= 1
      OBVIOUS
    <3> QED BY <2>1, <3>1, Zenon
  <2>3. \A i \in DOMAIN chain.asked : Len(chain.asked[i]) <= WriteSize
    BY <2>1
  <2>4. chain.step \notin {"write", "flush", "close", "move"}
    BY <1>2
  <2>5. IsOption(chain.running) /\ IsOption(tmp)
    BY <1>1, <2>2 DEF IsOption
  <2> HIDE DEF Bytes
  <2> QED BY <2>3, <2>4, <2>5
<1>3. CASE chain.step \in {"write", "flush"}
  <2>1. IsWriting(chain, tmp)
    BY <1>3 DEF ChainInv
  <2>2. tmp # << >>
    BY <2>1 DEF IsWriting
  <2> QED BY <1>1, <2>1, <2>2 DEF IsWriting, IsOption
<1>4. CASE chain.step \in {"close", "move"}
  <2>1. chain.asked = << >> /\ chain.running = << >> /\ Len(tmp) = 1
    BY <1>4 DEF ChainInv, HasWritten
  <2>2. tmp # << >> /\ Len(chain.running) <= 1
    <3>1. Len(<< >>) = 0 /\ 0 # 1 /\ 0 <= 1
      OBVIOUS
    <3> QED BY <2>1, <3>1, Zenon
  <2>3. \A i \in DOMAIN chain.asked : Len(chain.asked[i]) <= WriteSize
    BY <2>1
  <2>4. chain.step \notin {"write", "flush"}
    BY <1>4
  <2>5. IsOption(chain.running) /\ IsOption(tmp)
    BY <1>1, <2>1, <2>2 DEF IsOption
  <2> QED BY <2>2, <2>3, <2>4, <2>5
<1> QED BY <1>2, <1>3, <1>4 DEF Chain

(* A save never writes a temporary file that another save writes, or one   *)
(* that a save that has failed may still remove: that removal is asked for *)
(* when the failed save forgets the file, and waited for by nobody         *)
(* (DocumentFile.saveInternal's should_remove).                            *)
THEOREM TempFileIsOwn == Spec => []TempIsOwn
<1>1. Inv /\ FolderInv => TempIsOwn
  <2> SUFFICES ASSUME Inv, FolderInv  PROVE TempIsOwn
    OBVIOUS
  <2>1. ASSUME NEW j \in Job
        PROVE  /\ job[j].readonly \in BOOLEAN
               /\ job[j].at \in 0..Len(document.text)
               /\ IsOption(job[j].running)
               /\ job[j].step = "write" => Len(job[j].buffer) < WriteSize
               /\ job[j].step \in {"write", "flush"} =>
                    job[j].asked # << >> \/ job[j].running # << >>
               /\ \A i \in DOMAIN job[j].asked : Len(job[j].asked[i]) <= WriteSize
               /\ IsOption(temp[j])
               /\ job[j].step \in {"write", "flush", "close", "move"} => temp[j] # << >>
    <3>1. /\ job[j] \in Chain /\ temp[j] \in Seq(Bytes) /\ document.text \in Bytes
          /\ ChainInv(job[j], temp[j], document.text)
      BY DEF Inv, TypeInv, ChainsInv, DocumentInv, Documents
    <3>2. job[j].readonly \in BOOLEAN
      BY <3>1 DEF Chain
    <3>3. /\ job[j].at \in 0..Len(document.text)
          /\ job[j].step = "write" => Len(job[j].buffer) < WriteSize
      BY <3>1 DEF ChainInv
    <3> QED BY <3>1, <3>2, <3>3, ChainTypes
  <2>2. /\ document \in [text : Bytes, revision : Nat, saved : Nat,
                         undo : Seq([start : Nat, end : Nat, revision : Nat]),
                         readonly : BOOLEAN,
                         obsolete : {"UNKNOWN", "CHECKING", "NO", "YES"}]
        /\ file \in [bytes : Bytes, readonly : BOOLEAN] /\ check \in BOOLEAN
        /\ seen \in [alone : BOOLEAN, bytes : Bytes, readonly : BOOLEAN,
                     edits : {"linear", "undone", "branched"}]
    BY DEF Inv, TypeInv, DocumentInv, Documents, Steps, Kinds
  <2>3. /\ folder \in [names : SUBSET Name, removals : SUBSET Name,
                       own : [Job -> SUBSET Name]]
        /\ folder.removals \subseteq folder.names
    BY DEF FolderInv, Folders
  <2>4. TypeOK
    BY <2>1, <2>2, <2>3 DEF TypeOK
  <2>5. ASSUME NEW j \in Job, job[j].step \in {"open", "write", "flush", "close", "move"}
        PROVE  /\ folder.own[j] # {}
               /\ folder.own[j] \subseteq folder.names \ folder.removals
               /\ \A k \in Job \ {j} : folder.own[k] \cap folder.own[j] = {}
    BY <2>5 DEF FolderInv, HasTemp
  <2> QED BY <2>4, <2>5 DEF TempIsOwn
<1> QED BY <1>1, Invariance, FolderInvariance, PTL

(* While saves and loads come one at a time, a document whose revision is  *)
(* the saved one has the text that its file got from it or gave to it,     *)
(* until the first edit after an undo or in front of the one before it:    *)
(* the undo steps remember that text under its revision.                   *)
THEOREM SavedRevisionIsShared == Spec => []UnmodifiedIsShared
<1>1. Inv => UnmodifiedIsShared
  BY DEF Inv, AloneInv, EditsInv, UnmodifiedIsShared
<1> QED BY <1>1, Invariance, PTL

(* However a save or a load ends, the document is as read only as before,  *)
(* or as the file it was loaded from.                                      *)
THEOREM ReadonlyGivenBack == Spec => []ReadonlyRestored
<1>1. Inv => ReadonlyRestored
  BY DEF Inv, AloneInv, ReadonlyRestored
<1> QED BY <1>1, Invariance, PTL

(* The state CHECKING, which keeps windows from checking the file, is left *)
(* when the check, the save or the load that set it ends.                  *)
THEOREM CheckingIsLeft == Spec => []CheckingEnds
<1>1. Inv => CheckingEnds
  BY DEF Inv
<1> QED BY <1>1, Invariance, PTL

(* The file is replaced by everything the save has encoded, though it went *)
(* through a buffer that is filled and flushed in parts; and, unless       *)
(* another chain was under way, that is the whole text of the document.    *)
THEOREM FileIsWhole == Spec => FileWhole
<1> DEFINE Whole(j) == Move(j) /\ job'[j].step = "stat" =>
             /\ file'.bytes = job[j].bytes
             /\ seen.alone => file'.bytes = FileText(document.text)
<1>1. ASSUME Inv, NEW j \in Job  PROVE Whole(j)
  <2> SUFFICES ASSUME Move(j), job'[j].step = "stat"
               PROVE  /\ file'.bytes = job[j].bytes
                      /\ seen.alone => file'.bytes = FileText(document.text)
    OBVIOUS
  <2>1. job[j].step = "move" /\ file \in [bytes : Bytes, readonly : BOOLEAN]
        /\ job \in [Job -> Chain]
        /\ ChainInv(job[j], temp[j], document.text)
    BY <1>1 DEF Move, Inv, TypeInv, ChainsInv
  <2>2. ~ Caught(j, TRUE)
    <3> SUFFICES ASSUME Caught(j, TRUE)  PROVE FALSE
      OBVIOUS
    <3>1. job' = [job EXCEPT ![j] = Idle]
      BY DEF Caught
    <3> QED BY <2>1, <3>1 DEF Idle
  <2>3. file' = [file EXCEPT !.bytes = temp[j][1]]
    BY <2>2 DEF Move
  <2>4. temp[j][1] = job[j].bytes
    BY <2>1 DEF ChainInv, HasWritten
  <2>5. seen.alone => job[j].bytes = FileText(document.text)
    BY <1>1, <2>1 DEF Inv, AloneInv
  <2> QED BY <2>1, <2>3, <2>4, <2>5
<1>2. Inv => \A j \in Job : Whole(j)
  BY <1>1
<1>3. Inv => [\A j \in Job : Move(j) /\ job'[j].step = "stat" =>
                /\ file'.bytes = job[j].bytes
                /\ seen.alone => file'.bytes = FileText(document.text)]_vars
  BY <1>2
<1> QED BY <1>3, Invariance, PTL DEF FileWhole
=============================================================================
