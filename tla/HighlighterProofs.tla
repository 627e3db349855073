-------------------------- MODULE HighlighterProofs --------------------------
(***************************************************************************)
(* Syntax highlighting keeps up with edits, for texts of any length over   *)
(* any set of characters, any machine and any number of edits and loads:   *)
(* the record of MutationTracker describes the edits it merges, and the    *)
(* map of the tokenizer, adjusted by these records and scanned from the    *)
(* edit on, is what one scan over all of the text would give.              *)
(***************************************************************************)
EXTENDS Highlighter, FiniteSetTheorems, NaturalsInduction, WellFoundedInduction, TLAPS

(* The lesser of two counts.                                               *)
LEMMA LeastIs ==
  ASSUME NEW m \in Nat, NEW n \in Nat
  PROVE  /\ Least(m, n) \in Nat
         /\ Least(m, n) <= m /\ Least(m, n) <= n
BY DEF Least

(* An insertion keeps what is in front of it and moves what is behind.     *)
LEMMA InsertedText ==
  ASSUME NEW t \in Seq(Char), NEW p \in 0..Len(t), NEW s \in Seq(Char)
  PROVE  /\ Inserted(t, p, s) \in Seq(Char)
         /\ Len(Inserted(t, p, s)) = Len(t) + Len(s)
         /\ \A i \in 1..p : Inserted(t, p, s)[i] = t[i]
         /\ \A i \in (p + Len(s) + 1)..(Len(t) + Len(s)) :
              Inserted(t, p, s)[i] = t[i - Len(s)]
<1> DEFINE n == Len(t) + Len(s)
           u == Inserted(t, p, s)
<1>1. Len(t) \in Nat /\ Len(s) \in Nat
  OBVIOUS
<1>2. ASSUME NEW i \in 1..n  PROVE u[i] \in Char
  <2>1. CASE i <= p
    BY <1>1, <1>2, <2>1 DEF Inserted
  <2>2. CASE p < i /\ i <= p + Len(s)
    BY <1>1, <1>2, <2>2 DEF Inserted
  <2>3. CASE p + Len(s) < i
    BY <1>1, <1>2, <2>3 DEF Inserted
  <2> QED BY <1>1, <2>1, <2>2, <2>3
<1>3. u \in [1..n -> Char]
  BY <1>2 DEF Inserted
<1>4. u \in Seq(Char) /\ Len(u) = n
  BY <1>1, <1>3
<1>5. ASSUME NEW i \in 1..p  PROVE u[i] = t[i]
  BY <1>1 DEF Inserted
<1>6. ASSUME NEW i \in (p + Len(s) + 1)..n  PROVE u[i] = t[i - Len(s)]
  BY <1>1 DEF Inserted
<1> QED BY <1>4, <1>5, <1>6

(* A deletion keeps what is in front of it and moves what is behind.       *)
LEMMA RemovedText ==
  ASSUME NEW t \in Seq(Char), NEW start \in 0..Len(t), NEW end \in 0..Len(t), start < end
  PROVE  /\ Removed(t, start, end) \in Seq(Char)
         /\ Len(Removed(t, start, end)) = Len(t) - (end - start)
         /\ \A i \in 1..start : Removed(t, start, end)[i] = t[i]
         /\ \A i \in (start + 1)..(Len(t) - (end - start)) :
              Removed(t, start, end)[i] = t[i + (end - start)]
<1> DEFINE n == Len(t) - (end - start)
           u == Removed(t, start, end)
<1>1. Len(t) \in Nat /\ n \in Nat /\ start <= n
  OBVIOUS
<1>2. ASSUME NEW i \in 1..n  PROVE u[i] \in Char
  BY <1>1, <1>2 DEF Removed
<1>3. u \in [1..n -> Char]
  BY <1>2 DEF Removed
<1>4. u \in Seq(Char) /\ Len(u) = n
  BY <1>1, <1>3
<1>5. ASSUME NEW i \in 1..start  PROVE u[i] = t[i]
  BY <1>1 DEF Removed
<1>6. ASSUME NEW i \in (start + 1)..n  PROVE u[i] = t[i + (end - start)]
  BY <1>1 DEF Removed
<1> QED BY <1>4, <1>5, <1>6

(* A record of nothing describes a text that has not changed.              *)
LEMMA NothingDescribed ==
  ASSUME NEW t \in Seq(Char)
  PROVE  Describes(t, t, Len(t), Len(t), 0, FALSE)
BY DEF Describes

(* The heart of the matter: a record that describes the edits so far       *)
(* describes them and one more, of ins characters put in and del taken     *)
(* away at p, when both counts are cut down to what this edit left alone.  *)
LEMMA EditDescribed ==
  ASSUME NEW t \in Seq(Char), NEW b \in Seq(Char), NEW u \in Seq(Char),
         NEW h \in Nat, NEW k \in Nat, NEW d \in Int, NEW edited \in BOOLEAN,
         NEW p \in Nat, NEW ins \in Nat, NEW del \in Nat,
         Describes(t, b, h, k, d, edited),
         p + del <= Len(t),
         Len(u) = (Len(t) + ins) - del,
         \A i \in 1..p : u[i] = t[i],
         \A i \in (p + ins + 1)..Len(u) : u[i] = t[(i - ins) + del]
  PROVE  Describes(u, b, Least(h, p), Least(k, (Len(t) - del) - p), (d + ins) - del, TRUE)
<1> DEFINE h1 == Least(h, p)
           k1 == Least(k, (Len(t) - del) - p)
<1>1. Len(t) \in Nat /\ Len(b) \in Nat /\ Len(u) \in Nat /\ (Len(t) - del) - p \in Nat
  OBVIOUS
<1>2. /\ Len(t) = Len(b) + d
      /\ h <= Len(t) /\ h <= Len(b) /\ k <= Len(t) /\ k <= Len(b)
      /\ edited => h + k <= Len(b)
      /\ edited \/ t = b
  BY DEF Describes
<1>3. /\ h1 \in Nat /\ h1 <= h /\ h1 <= p
      /\ k1 \in Nat /\ k1 <= k /\ k1 <= (Len(t) - del) - p
  BY <1>1, LeastIs
<1> HIDE DEF h1, k1
<1>4. Len(u) = Len(b) + ((d + ins) - del)
  BY <1>1, <1>2
<1>5. h1 + k1 <= Len(u)
  BY <1>1, <1>3
<1>6. h1 + k1 <= Len(b)
  <2>1. CASE edited
    BY <1>1, <1>2, <1>3, <2>1
  <2>2. CASE ~edited
    BY <1>1, <1>2, <1>3, <2>2
  <2> QED BY <2>1, <2>2
<1>7. ASSUME NEW i \in 1..h1  PROVE u[i] = b[i]
  <2>1. i \in 1..p /\ i \in 1..h
    BY <1>3
  <2>2. t[i] = b[i]
    BY <2>1 DEF Describes
  <2> QED BY <2>1, <2>2
<1>8. ASSUME NEW i \in 1..k1  PROVE u[(Len(u) - k1) + i] = b[(Len(b) - k1) + i]
  <2> DEFINE j == (Len(u) - k1) + i
             o == (k - k1) + i
  <2>1. j \in (p + ins + 1)..Len(u) /\ o \in 1..k
    BY <1>1, <1>3
  <2>2. (j - ins) + del = (Len(t) - k) + o /\ (Len(b) - k) + o = (Len(b) - k1) + i
    BY <1>1, <1>3
  <2> HIDE DEF j, o
  <2>3. u[j] = t[(j - ins) + del]
    BY <2>1
  <2>4. t[(Len(t) - k) + o] = b[(Len(b) - k) + o]
    BY <2>1 DEF Describes
  <2>5. u[j] = b[(Len(b) - k1) + i]
    BY <2>2, <2>3, <2>4
  <2> QED BY <2>5 DEF j
<1>9. h1 <= Len(u) /\ h1 <= Len(b) /\ k1 <= Len(u) /\ k1 <= Len(b)
  BY <1>1, <1>3, <1>5, <1>6
<1> QED BY <1>4, <1>5, <1>6, <1>7, <1>8, <1>9 DEF Describes, h1, k1

-----------------------------------------------------------------------------
(* The inductive invariant of the record.                                  *)
TrackerInv == TrackerTypeOK /\ SummaryDescribesEdits

(* A document is observed with an empty record.                            *)
LEMMA InitTracker == TrackerInit => TrackerInv
<1> SUFFICES ASSUME TrackerInit  PROVE TrackerInv
  OBVIOUS
<1>1. text \in Seq(Char)
  <2>1. PICK n \in 0..MaxLength : text \in [1..n -> Char]
    BY DEF TrackerInit
  <2> QED BY <2>1, MaxLengthAssumption
<1>2. TrackerTypeOK
  <2>1. base \in Seq(Char) /\ head \in Nat /\ tail \in Nat /\ delta \in Int
    BY <1>1 DEF TrackerInit
  <2>2. connected \in BOOLEAN /\ mutated \in BOOLEAN /\ scheduled \in BOOLEAN
    BY Zenon DEF TrackerInit
  <2> QED BY <1>1, <2>1, <2>2 DEF TrackerTypeOK
<1>3. SummaryDescribesEdits
  <2>1. Describes(text, text, Len(text), Len(text), 0, FALSE)
    BY <1>1, NothingDescribed
  <2>2. /\ base = text /\ head = Len(text) /\ tail = Len(text) /\ delta = 0
        /\ mutated = FALSE
    BY Zenon DEF TrackerInit
  <2>3. Describes(text, base, head, tail, delta, mutated) /\ ~mutated
    BY <2>1, <2>2, Zenon
  <2> QED BY <2>3, Zenon DEF SummaryDescribesEdits
<1> QED BY <1>2, <1>3 DEF TrackerInv

(* A record that was taken leaves an empty one of the text as it is.       *)
LEMMA ResetKeepsTypes ==
  ASSUME TrackerTypeOK, ResetSummary(text), text' = text, scheduled' = FALSE,
         connected' \in {TRUE, connected}
  PROVE  TrackerTypeOK'
<1>1. text' \in Seq(Char) /\ base' \in Seq(Char)
  BY DEF TrackerTypeOK, ResetSummary
<1>2. head' \in Nat /\ tail' \in Nat /\ delta' \in Int
  BY DEF TrackerTypeOK, ResetSummary
<1>3. connected' \in BOOLEAN /\ mutated' \in BOOLEAN /\ scheduled' \in BOOLEAN
  BY Zenon DEF TrackerTypeOK, ResetSummary
<1> QED BY <1>1, <1>2, <1>3, Zenon DEF TrackerTypeOK

(* An edit, given what it does to the text.                                *)
LEMMA RecordKeepsInv ==
  ASSUME TrackerInv, text' \in Seq(Char), connected' = connected,
         NEW p \in Nat, NEW ins \in Nat, NEW del \in Nat,
         Record(p, ins, del),
         p + del <= Len(text),
         Len(text') = (Len(text) + ins) - del,
         \A i \in 1..p : text'[i] = text[i],
         \A i \in (p + ins + 1)..Len(text') : text'[i] = text[(i - ins) + del]
  PROVE  TrackerInv'
<1>1. TrackerTypeOK
  BY DEF TrackerInv
<1>2. CASE ~connected
  <2>1. TrackerTypeOK'
    BY <1>1, <1>2 DEF Record, summary, TrackerTypeOK
  <2>2. SummaryDescribesEdits'
    BY <1>2 DEF SummaryDescribesEdits
  <2> QED BY <2>1, <2>2 DEF TrackerInv
<1>3. CASE connected
  <2>1. /\ scheduled' = TRUE /\ mutated' = TRUE /\ base' = base
        /\ delta' = (delta + ins) - del
        /\ head' = Least(head, p)
        /\ tail' = Least(tail, (Len(text) - del) - p)
    <3>1. scheduled' = TRUE /\ mutated' = TRUE /\ base' = base
      BY <1>3, Zenon DEF Record
    <3>2. delta' = delta + (ins - del) /\ delta \in Int
      BY <1>1, <1>3, Zenon DEF Record, TrackerTypeOK
    <3>3. head' = Least(head, p) /\ tail' = Least(tail, (Len(text) - del) - p)
      BY <1>3, SMT DEF Record
    <3>4. delta' = (delta + ins) - del
      BY <3>2
    <3> QED BY <3>1, <3>3, <3>4
  <2>2. Len(text) \in Nat /\ (Len(text) - del) - p \in Nat /\ head \in Nat /\ tail \in Nat
    BY <1>1 DEF TrackerTypeOK
  <2>3. head' \in Nat /\ tail' \in Nat /\ delta' \in Int
    BY <1>1, <2>1, <2>2, LeastIs DEF TrackerTypeOK
  <2>4. TrackerTypeOK'
    BY <1>1, <2>1, <2>3 DEF TrackerTypeOK
  <2>5. Describes(text, base, head, tail, delta, mutated)
    BY <1>3 DEF TrackerInv, SummaryDescribesEdits
  <2>6. text \in Seq(Char) /\ base \in Seq(Char) /\ delta \in Int /\ mutated \in BOOLEAN
    BY <1>1 DEF TrackerTypeOK
  <2>7. Describes(text', base, Least(head, p), Least(tail, (Len(text) - del) - p),
                  (delta + ins) - del, TRUE)
    <3> DEFINE u == text'
    <3>1. /\ u \in Seq(Char) /\ p + del <= Len(text)
          /\ Len(u) = (Len(text) + ins) - del
          /\ \A i \in 1..p : u[i] = text[i]
          /\ \A i \in (p + ins + 1)..Len(u) : u[i] = text[(i - ins) + del]
      OBVIOUS
    <3> HIDE DEF u
    <3>2. Describes(u, base, Least(head, p), Least(tail, (Len(text) - del) - p),
                    (delta + ins) - del, TRUE)
      BY <2>2, <2>5, <2>6, <3>1, EditDescribed
    <3> QED BY <3>2 DEF u
  <2>8. SummaryDescribesEdits'
    BY <2>1, <2>7 DEF SummaryDescribesEdits
  <2> QED BY <2>4, <2>8 DEF TrackerInv
<1> QED BY <1>2, <1>3

(* Every edit, callback, load and stuttering step keeps the record right.  *)
LEMMA StepTracker == TrackerInv /\ [TrackerNext]_trackerVars => TrackerInv'
<1> SUFFICES ASSUME TrackerInv, [TrackerNext]_trackerVars  PROVE TrackerInv'
  OBVIOUS
<1>1. text \in Seq(Char) /\ Len(text) \in Nat
  BY DEF TrackerInv, TrackerTypeOK
<1>2. ASSUME NEW p \in 0..Len(text), NEW c \in Char, InsertBefore(p, <<c>>)  PROVE TrackerInv'
  <2> DEFINE s == <<c>>
  <2>1. s \in Seq(Char) /\ Len(s) = 1
    OBVIOUS
  <2>2. text' = Inserted(text, p, s) /\ Record(p, 1, 0) /\ connected' = connected
    BY <1>2, <2>1 DEF InsertBefore
  <2> HIDE DEF s
  <2>3. /\ text' \in Seq(Char) /\ Len(text') = Len(text) + 1
        /\ \A i \in 1..p : text'[i] = text[i]
        /\ \A i \in (p + 1 + 1)..(Len(text) + 1) : text'[i] = text[i - 1]
    <3> DEFINE u == Inserted(text, p, s)
    <3>1. /\ u \in Seq(Char) /\ Len(u) = Len(text) + Len(s)
          /\ \A i \in 1..p : u[i] = text[i]
          /\ \A i \in (p + Len(s) + 1)..(Len(text) + Len(s)) : u[i] = text[i - Len(s)]
      BY <1>1, <2>1, InsertedText
    <3> HIDE DEF u
    <3>2. text' = u
      BY <2>2 DEF u
    <3> QED BY <2>1, <3>1, <3>2
  <2>4. \A i \in (p + 1 + 1)..Len(text') : text'[i] = text[(i - 1) + 0]
    BY <2>3
  <2>5. Len(text') = (Len(text) + 1) - 0 /\ p + 0 <= Len(text) /\ p \in Nat
    BY <1>1, <2>3
  <2> QED BY <2>2, <2>3, <2>4, <2>5, RecordKeepsInv
<1>3. ASSUME NEW start \in 0..Len(text), NEW end \in 0..Len(text), Delete(start, end)
      PROVE  TrackerInv'
  <2> DEFINE n == end - start
  <2>1. /\ start < end /\ text' = Removed(text, start, end)
        /\ Record(start, 0, n) /\ connected' = connected
    BY <1>3 DEF Delete
  <2>2. /\ text' \in Seq(Char) /\ Len(text') = Len(text) - n
        /\ \A i \in 1..start : text'[i] = text[i]
        /\ \A i \in (start + 1)..(Len(text) - n) : text'[i] = text[i + n]
    BY <1>1, <2>1, RemovedText
  <2>3. n \in Nat /\ start \in Nat /\ start + n <= Len(text)
    BY <1>1, <2>1
  <2> HIDE DEF n
  <2>4. Len(text') = (Len(text) + 0) - n
    BY <1>1, <2>2, <2>3
  <2>5. \A i \in (start + 0 + 1)..Len(text') : text'[i] = text[(i - 0) + n]
    BY <1>1, <2>2, <2>3
  <2> QED BY <2>1, <2>2, <2>3, <2>4, <2>5, RecordKeepsInv
<1>4. CASE RunCallback
  <2>1. text' = text /\ connected' = connected /\ scheduled' = FALSE
    BY <1>4 DEF RunCallback
  <2>2. CASE mutated
    <3>1. ResetSummary(text)
      BY <1>4, <2>2 DEF RunCallback
    <3>2. TrackerTypeOK'
      BY <2>1, <3>1, ResetKeepsTypes DEF TrackerInv
    <3>3. SummaryDescribesEdits'
      BY <1>1, <2>1, <3>1, NothingDescribed DEF SummaryDescribesEdits, ResetSummary
    <3> QED BY <3>2, <3>3 DEF TrackerInv
  <2>3. CASE ~mutated
    <3>1. UNCHANGED summary
      BY <1>4, <2>3 DEF RunCallback
    <3> QED BY <2>1, <2>3, <3>1 DEF TrackerInv, TrackerTypeOK, SummaryDescribesEdits, summary
  <2> QED BY <2>2, <2>3
<1>5. CASE Disconnect
  BY <1>5 DEF Disconnect, TrackerInv, TrackerTypeOK, SummaryDescribesEdits, summary
<1>6. CASE Observe
  <2>1. text' = text /\ connected' = TRUE /\ scheduled' = FALSE /\ ResetSummary(text)
    BY <1>6 DEF Observe
  <2>2. TrackerTypeOK'
    BY <2>1, ResetKeepsTypes DEF TrackerInv
  <2>3. SummaryDescribesEdits'
    BY <1>1, <2>1, NothingDescribed DEF SummaryDescribesEdits, ResetSummary
  <2> QED BY <2>2, <2>3 DEF TrackerInv
<1>7. CASE UNCHANGED trackerVars
  BY <1>7 DEF trackerVars, TrackerInv, TrackerTypeOK, SummaryDescribesEdits, summary
<1> QED BY <1>2, <1>3, <1>4, <1>5, <1>6, <1>7 DEF TrackerNext

(* A record describes all the edits it merges and has its micro task, for  *)
(* texts of any length (SummaryDescribesEdits).                            *)
THEOREM RecordsAreRight == TrackerSpec => []SummaryDescribesEdits
<1>1. TrackerInv => SummaryDescribesEdits
  BY DEF TrackerInv
<1> QED BY InitTracker, StepTracker, <1>1, PTL DEF TrackerSpec

-----------------------------------------------------------------------------
(* A set of natural numbers with a member has a least one.                 *)
LEMMA LeastOf ==
  ASSUME NEW T \in SUBSET Nat, T # {}
  PROVE  \E x \in T : \A y \in T : x <= y
<1> DEFINE R == {ss \in Nat \X Nat : ss[1] < ss[2]}
<1>1. IsWellFoundedOn(R, Nat)
  BY NatLessThanWellFounded, Zenon DEF OpToRel
<1>2. T \subseteq Nat
  OBVIOUS
<1> HIDE DEF R
<1>3. PICK x \in T : \A y \in T : <<y, x>> \notin R
  BY <1>1, <1>2, WFMin, Zenon
<1>4. ASSUME NEW y \in T PROVE x <= y
  <2>1. ~(y < x)
    BY <1>3 DEF R
  <2>2. QED
    BY <2>1
<1>5. QED
  BY <1>4

(* Induction over an interval.                                             *)
LEMMA EveryRound ==
  ASSUME NEW n \in Nat, NEW T, 0 \in T, \A i \in 0..(n - 1) : i \in T => i + 1 \in T
  PROVE  \A i \in 0..n : i \in T
<1> SUFFICES ASSUME NEW j \in 0..n, j \notin T PROVE FALSE
  OBVIOUS
<1> DEFINE D == {i \in 0..n : i \notin T}
<1>1. j \in D /\ D \in SUBSET Nat
  BY SMT
<1>2. PICK x \in D : \A y \in D : x <= y
  <2> HIDE DEF D
  <2>1. QED
    BY <1>1, LeastOf
<1>3. x # 0 /\ x \in 0..n /\ x \notin T
  OBVIOUS
<1>4. x - 1 \in 0..(n - 1) /\ x - 1 \notin D
  <2> HIDE DEF D
  <2>1. QED
    BY <1>2, <1>3
<1>5. x - 1 \in T
  BY <1>4
<1>6. x - 1 + 1 = x
  BY <1>3
<1>7. QED
  BY <1>3, <1>4, <1>5, <1>6

(* The member of a set of one.                                             *)
LEMMA TheOnly == ASSUME NEW x PROVE The({x}) = x
BY DEF The

-----------------------------------------------------------------------------
(* The shape of ranges, tokens and maps; ranges are not empty, and in      *)
(* order when they are apart.                                              *)
IsRange(r) ==
  /\ r = [start |-> r.start, end |-> r.end, state |-> r.state, token |-> r.token]
  /\ r.start \in Nat /\ r.end \in Nat /\ r.start < r.end

IsToken(k) ==
  /\ k = [start |-> k.start, end |-> k.end, syntax |-> k.syntax]
  /\ k.start \in Int /\ k.end \in Int

Shaped(m) ==
  /\ m = [ranges |-> m.ranges, tokens |-> m.tokens]
  /\ IsFiniteSet(m.ranges) /\ IsFiniteSet(DOMAIN m.tokens)
  /\ \A r \in m.ranges : IsRange(r) /\ r.token \in DOMAIN m.tokens
  /\ \A k \in DOMAIN m.tokens : IsToken(m.tokens[k])

Apart(S) == \A r, q \in S : r # q => r.end <= q.start \/ q.end <= r.start

Ordered(S) == Apart(S) /\ \A r \in S : IsRange(r)

(* Ranges in order are told apart by their starts, and by their ends.      *)
LEMMA OneStart ==
  ASSUME NEW S, Ordered(S), NEW r \in S, NEW q \in S, r.start = q.start
  PROVE  r = q
BY DEF Ordered, Apart, IsRange

LEMMA OneEnd ==
  ASSUME NEW S, Ordered(S), NEW r \in S, NEW q \in S, r.end = q.end
  PROVE  r = q
BY DEF Ordered, Apart, IsRange

(* RangeStartsAt and RangeEndsAt, which search the lower bound, find what  *)
(* starts or ends there.                                                   *)
LEMMA StartsAt ==
  ASSUME NEW m, Ordered(m.ranges), NEW o \in Nat
  PROVE  RangeStartsAt(m, o) = {r \in m.ranges : r.start = o}
<1>1. ASSUME NEW r \in m.ranges, r.start = o, NEW q \in m.ranges, q.end >= o + 1
      PROVE  r.end <= q.end
  BY <1>1 DEF Ordered, Apart, IsRange
<1>2. ASSUME NEW r \in m.ranges, r.start = o
      PROVE  r.end >= o + 1
  BY <1>2 DEF Ordered, IsRange
<1>3. QED
  BY <1>1, <1>2 DEF RangeStartsAt, LowerBound

LEMMA EndsAt ==
  ASSUME NEW m, Ordered(m.ranges), NEW o \in Nat
  PROVE  RangeEndsAt(m, o) = {r \in m.ranges : r.end = o}
<1>1. ASSUME NEW r \in m.ranges PROVE r.end # 0 /\ r.end \in Nat
  BY DEF Ordered, IsRange
<1>2. QED
  BY <1>1 DEF RangeEndsAt, LowerBound

(* The first range that ends at an offset or behind.                       *)
LEMMA FirstOf ==
  ASSUME NEW m, Ordered(m.ranges), NEW o \in Nat, NEW z \in m.ranges, z.end >= o
  PROVE  \E r \in m.ranges :
           /\ LowerBound(m, o) = {r} /\ r.end >= o
           /\ \A q \in m.ranges : q.end >= o => q = r \/ r.end <= q.start
           /\ \A q \in m.ranges : q.end < o => q.end <= r.start
<1> DEFINE T == {e \in Nat : e >= o /\ \E q \in m.ranges : q.end = e}
<1>1. T \in SUBSET Nat
  OBVIOUS
<1>2. T # {}
  <2>1. z.end \in T
    BY DEF Ordered, IsRange
  <2>2. QED
    BY <2>1
<1>3. PICK e \in T : \A y \in T : e <= y
  <2> HIDE DEF T
  <2>1. QED
    BY <1>1, <1>2, LeastOf
<1>4. PICK r \in m.ranges : r.end = e
  BY <1>3
<1>5. r.end >= o
  BY <1>3, <1>4
<1>6. ASSUME NEW q \in m.ranges, q.end >= o PROVE r.end <= q.end
  <2>1. q.end \in T
    BY <1>6 DEF Ordered, IsRange
  <2>2. QED
    BY <1>3, <1>4, <2>1
<1>7. r \in LowerBound(m, o)
  BY <1>5, <1>6 DEF LowerBound
<1>8. ASSUME NEW q \in LowerBound(m, o) PROVE q = r
  <2>1. q \in m.ranges /\ q.end >= o /\ q.end <= r.end
    BY <1>5 DEF LowerBound
  <2>2. r.end <= q.end
    BY <1>6, <2>1
  <2>3. q.end = r.end
    BY <2>1, <2>2 DEF Ordered, IsRange
  <2>4. QED
    BY <2>1, <2>3, OneEnd
<1>9. ASSUME NEW q \in m.ranges, q.end >= o PROVE q = r \/ r.end <= q.start
  BY <1>6, <1>9 DEF Ordered, Apart, IsRange
<1>10. ASSUME NEW q \in m.ranges, q.end < o PROVE q.end <= r.start
  BY <1>5, <1>10 DEF Ordered, Apart, IsRange
<1>11. LowerBound(m, o) = {r}
  BY <1>7, <1>8
<1>12. QED
  BY <1>5, <1>9, <1>10, <1>11

-----------------------------------------------------------------------------
(* The ranges in front of the offset of the scan leave nothing out, and    *)
(* the states of all ranges that follow each other, but for the one that   *)
(* starts at the offset, are a run of the machine.                         *)
Tiled(m, o) == \A i \in 1..o : \E r \in m.ranges : r.start < i /\ i <= r.end

RunsMachine(m, t, o) ==
  \A r \in m.ranges :
    /\ \A i \in (r.start + 2)..r.end : NextState(r.state, t[i]) = r.state
    /\ r.start = 0 => r.state = FirstState(t[1])
    /\ r.start # o => \A q \in m.ranges :
                        q.end = r.start => r.state = NextState(q.state, t[r.start + 1])

(* A range lies in front of the offset or behind it, and inside the text.  *)
Placed(S, t, o) ==
  \A r \in S : r.end <= Len(t) /\ (r.end <= o \/ (o <= r.start /\ 0 < r.start))

(* Behind the offset the ranges follow each other to the end of the text:  *)
(* what the scan may skip has no gaps.                                     *)
Chained(S, t, o) ==
  \A r \in S : o <= r.start => r.end = Len(t) \/ \E q \in S : q.start = r.end

(* A range is inside its token, and some range of the token ends with it.  *)
Covered(m) ==
  \A r \in m.ranges :
    /\ TokenOf(m, r).start <= r.start /\ r.end <= TokenOf(m, r).end
    /\ \E q \in m.ranges : q.token = r.token /\ q.end = TokenOf(m, r).end

(* A range between two of one token is of that token.                      *)
Grouped(S) ==
  \A q, r, z \in S :
    q.token = z.token /\ q.end <= r.start /\ r.end <= z.start => r.token = q.token

(* No token has ranges on both sides of the offset.                        *)
Parted(S, o) == \A q, r \in S : q.end <= o /\ o <= r.start => q.token # r.token

(* The map is right for the text t as far as the offset o, and what it     *)
(* still has behind o can be gone on with. This is the invariant of the    *)
(* scan and of the adjusting.                                              *)
Tracks(m, t, o) ==
  /\ Shaped(m) /\ Apart(m.ranges)
  /\ Covered(m) /\ Grouped(m.ranges)
  /\ Placed(m.ranges, t, o) /\ Chained(m.ranges, t, o) /\ Parted(m.ranges, o)
  /\ Tiled(m, o) /\ RunsMachine(m, t, o)

(* What a map with n in it has to do with the map m it was made from.      *)
Grows(m, n, g, t, o) ==
  /\ IsRange(n) /\ n.start <= o /\ o <= n.end /\ n.end <= Len(t)
  /\ \A z \in m.ranges : z.end <= n.start \/ n.start <= z.start
  /\ \A z \in m.ranges : o <= z.start => z.token # n.token
  /\ \A z \in m.ranges : n.start <= z.start /\ z.end <= o => z.token = n.token
  /\ \A z, r \in m.ranges :
       z.token = n.token /\ z.end <= r.start /\ r.end <= n.start => r.token = n.token
  /\ g.ranges = {z \in m.ranges : z.end <= n.start \/ n.end <= z.start} \cup {n}
  /\ g.tokens[n.token].end = n.end
  /\ g.tokens[n.token].start <= n.start
  /\ \A z \in m.ranges :
       /\ z.token # n.token => g.tokens[z.token] = m.tokens[z.token]
       /\ z.token = n.token => g.tokens[z.token].start = m.tokens[z.token].start
  /\ \A i \in (n.start + 2)..n.end : NextState(n.state, t[i]) = n.state
  /\ n.start = 0 => n.state = FirstState(t[1])
  /\ \A q \in m.ranges : q.end = n.start => n.state = NextState(q.state, t[n.start + 1])

(* The scan makes the map right as far as the end of n by putting n in and *)
(* taking out what it reaches into.                                        *)
LEMMA Growth ==
  ASSUME NEW m, NEW t, Len(t) \in Nat, NEW o \in Nat, Tracks(m, t, o),
         NEW n, NEW g, Shaped(g), Grows(m, n, g, t, o)
  PROVE  Tracks(g, t, n.end)
<1> DEFINE k == n.end
           R == m.ranges
           G == g.ranges
<1>1. /\ n.start \in Nat /\ k \in Nat /\ n.start < k /\ n.start <= o /\ o <= k /\ k <= Len(t)
      /\ G = {z \in R : z.end <= n.start \/ k <= z.start} \cup {n}
  BY DEF Grows, IsRange
<1>2. \A r \in R : r.start \in Nat /\ r.end \in Nat /\ r.start < r.end
  BY DEF Tracks, Shaped, IsRange
<1>3. ASSUME NEW z \in G PROVE z = n \/ (z \in R /\ (z.end <= n.start \/ k <= z.start))
  BY <1>1
<1>4. n \in G /\ \A z \in R : z.end <= n.start \/ k <= z.start => z \in G
  BY <1>1
<1> HIDE DEF k, R, G
<1>5. Apart(G)
  <2> SUFFICES ASSUME NEW r \in G, NEW q \in G, r # q
               PROVE  r.end <= q.start \/ q.end <= r.start
    BY DEF Apart
  <2>1. CASE r \in R /\ q \in R
    BY <2>1 DEF Tracks, Apart, R
  <2>2. CASE r = n \/ q = n
    BY <1>1, <1>2, <1>3, <2>2 DEF k
  <2> QED BY <1>3, <2>1, <2>2
<1>6. Covered(g)
  <2> SUFFICES ASSUME NEW r \in G
               PROVE  /\ TokenOf(g, r).start <= r.start /\ r.end <= TokenOf(g, r).end
                      /\ \E q \in G : q.token = r.token /\ q.end = TokenOf(g, r).end
    BY DEF Covered, G
  <2>1. CASE r = n
    BY <1>1, <1>4, <2>1 DEF Grows, TokenOf, k
  <2>2. CASE r \in R /\ r.token = n.token
    <3>1. r.end <= n.start \/ r = n
      BY <1>1, <1>2, <1>3, <2>2 DEF Grows, R, k
    <3>2. TokenOf(m, r).start <= r.start
      BY <2>2 DEF Tracks, Covered, R
    <3>3. g.tokens[r.token].start = m.tokens[r.token].start
      BY <2>2 DEF Grows, R
    <3>4. g.tokens[r.token].end = k
      BY <2>2 DEF Grows, k
    <3>5. r.end <= k
      BY <1>1, <1>2, <2>2, <3>1 DEF k
    <3>6. n.token = r.token /\ n.end = k
      BY <2>2 DEF k
    <3> QED BY <1>4, <3>2, <3>3, <3>4, <3>5, <3>6 DEF TokenOf
  <2>3. CASE r \in R /\ r.token # n.token
    <3>1. g.tokens[r.token] = m.tokens[r.token]
      BY <2>3 DEF Grows, R
    <3>2. /\ m.tokens[r.token].start <= r.start /\ r.end <= m.tokens[r.token].end
      BY <2>3 DEF Tracks, Covered, R, TokenOf
    <3>3. PICK q \in R : q.token = r.token /\ q.end = m.tokens[r.token].end
      BY <2>3 DEF Tracks, Covered, R, TokenOf
    <3>4. q \in G
      <4>1. r # n
        BY <2>3
      <4>2. CASE r.end <= n.start
        <5>1. ~(o <= q.start)
          <6>1. r.end <= o
            BY <1>1, <1>2, <2>3, <4>2
          <6> QED BY <2>3, <3>3, <6>1 DEF Tracks, Parted, R
        <5>2. q.end <= o
          BY <1>2, <5>1 DEF Tracks, Placed, R
        <5>3. ~(n.start <= q.start)
          BY <2>3, <3>3, <5>2 DEF Grows, R
        <5>4. q.end <= n.start
          BY <5>3 DEF Grows, R
        <5> QED BY <1>4, <5>4
      <4>3. CASE k <= r.start
        <5>1. r.end <= q.end
          BY <3>2, <3>3
        <5>2. q = r \/ r.end <= q.start
          BY <1>2, <2>3, <5>1 DEF Tracks, Apart, R
        <5>3. k <= q.start
          BY <1>1, <1>2, <2>3, <4>3, <5>2
        <5> QED BY <1>4, <5>3
      <4> QED BY <1>3, <4>1, <4>2, <4>3
    <3> QED BY <3>1, <3>2, <3>3, <3>4 DEF TokenOf
  <2> QED BY <1>3, <2>1, <2>2, <2>3
<1>7. Grouped(G)
  <2> SUFFICES ASSUME NEW q \in G, NEW r \in G, NEW z \in G,
                      q.token = z.token, q.end <= r.start, r.end <= z.start
               PROVE  r.token = q.token
    BY DEF Grouped
  <2>1. CASE q \in R /\ r \in R /\ z \in R
    BY <2>1 DEF Tracks, Grouped, R
  <2>2. CASE q = n
    <3>1. z \in R /\ k <= z.start
      BY <1>1, <1>2, <1>3, <2>2 DEF k
    <3>2. o <= z.start
      BY <1>1, <1>2, <3>1
    <3> QED BY <2>2, <3>1, <3>2 DEF Grows, R
  <2>3. CASE q # n /\ r = n
    <3>1. q \in R /\ z \in R /\ k <= z.start
      BY <1>1, <1>2, <1>3, <2>3 DEF k
    <3>2. q.end <= o /\ o <= z.start
      BY <1>1, <1>2, <2>3, <3>1
    <3> QED BY <3>1, <3>2 DEF Tracks, Parted, R
  <2>4. CASE q # n /\ r # n /\ z = n
    <3>1. q \in R /\ r \in R
      BY <1>3, <2>4
    <3> QED BY <2>4, <3>1 DEF Grows, R
  <2> QED BY <1>3, <2>1, <2>2, <2>3, <2>4
<1>8. Placed(G, t, k)
  <2> SUFFICES ASSUME NEW r \in G
               PROVE  r.end <= Len(t) /\ (r.end <= k \/ (k <= r.start /\ 0 < r.start))
    BY DEF Placed
  <2>1. CASE r = n
    BY <1>1, <2>1 DEF k
  <2>2. CASE r \in R
    <3>1. r.end <= Len(t)
      BY <2>2 DEF Tracks, Placed, R
    <3> QED BY <1>1, <1>2, <1>3, <2>2, <3>1 DEF k
  <2> QED BY <1>3, <2>1, <2>2
<1>9. Chained(G, t, k)
  <2> SUFFICES ASSUME NEW r \in G, k <= r.start, r.end # Len(t)
               PROVE  \E q \in G : q.start = r.end
    BY DEF Chained
  <2>1. r \in R
    BY <1>1, <1>3 DEF k
  <2>2. o <= r.start
    BY <1>1, <1>2, <2>1
  <2>3. PICK q \in R : q.start = r.end
    BY <2>1, <2>2 DEF Tracks, Chained, R
  <2>4. k <= q.start
    BY <1>1, <1>2, <2>1, <2>3
  <2> QED BY <1>4, <2>3, <2>4
<1>10. Parted(G, k)
  <2> SUFFICES ASSUME NEW q \in G, NEW r \in G, q.end <= k, k <= r.start
               PROVE  q.token # r.token
    BY DEF Parted
  <2>1. r \in R /\ o <= r.start
    BY <1>1, <1>2, <1>3 DEF k
  <2>2. CASE q = n
    BY <2>1, <2>2 DEF Grows, R
  <2>3. CASE q # n
    <3>1. q \in R /\ q.end <= o
      BY <1>1, <1>2, <1>3, <2>3
    <3> QED BY <2>1, <3>1 DEF Tracks, Parted, R
  <2> QED BY <2>2, <2>3
<1>11. Tiled(g, k)
  <2> SUFFICES ASSUME NEW i \in 1..k
               PROVE  \E r \in G : r.start < i /\ i <= r.end
    BY DEF Tiled, G
  <2>1. CASE i <= n.start
    <3>1. PICK r \in R : r.start < i /\ i <= r.end
      BY <1>1, <2>1 DEF Tracks, Tiled, R
    <3>2. ~(n.start <= r.start)
      BY <1>1, <1>2, <2>1, <3>1
    <3>3. r.end <= n.start
      BY <3>2 DEF Grows, R
    <3> QED BY <1>4, <3>1, <3>3
  <2>2. CASE n.start < i
    BY <1>1, <1>4, <2>2 DEF k
  <2> QED BY <1>1, <2>1, <2>2
<1>12. RunsMachine(g, t, k)
  <2> SUFFICES ASSUME NEW r \in G
               PROVE  /\ \A i \in (r.start + 2)..r.end : NextState(r.state, t[i]) = r.state
                      /\ r.start = 0 => r.state = FirstState(t[1])
                      /\ r.start # k => \A q \in G :
                           q.end = r.start => r.state = NextState(q.state, t[r.start + 1])
    BY DEF RunsMachine, G
  <2>1. CASE r = n
    <3>1. /\ \A i \in (n.start + 2)..n.end : NextState(n.state, t[i]) = n.state
          /\ n.start = 0 => n.state = FirstState(t[1])
          /\ \A q \in R : q.end = n.start => n.state = NextState(q.state, t[n.start + 1])
      BY DEF Grows, R
    <3>2. ASSUME NEW q \in G, q.end = n.start PROVE q \in R
      BY <1>1, <1>3, <3>2 DEF k
    <3> QED BY <2>1, <3>1, <3>2
  <2>2. CASE r # n
    <3>1. r \in R
      BY <1>3, <2>2
    <3>2. /\ \A i \in (r.start + 2)..r.end : NextState(r.state, t[i]) = r.state
          /\ r.start = 0 => r.state = FirstState(t[1])
          /\ r.start # o => \A q \in R :
               q.end = r.start => r.state = NextState(q.state, t[r.start + 1])
      BY <3>1 DEF Tracks, RunsMachine, R
    <3>3. ASSUME r.start # k, NEW q \in G, q.end = r.start
          PROVE  r.start # o /\ q \in R
      BY <1>1, <1>2, <1>3, <2>2, <3>1, <3>3 DEF k
    <3> QED BY <3>2, <3>3
  <2> QED BY <2>1, <2>2
<1> QED BY <1>5, <1>6, <1>7, <1>8, <1>9, <1>10, <1>11, <1>12 DEF Tracks, k, G

-----------------------------------------------------------------------------
(* The fields of a scan.                                                   *)
IsScan(p) ==
  DOMAIN p = {"map", "color", "offset", "last", "token", "state", "skipped"}

(* The fields of a scan that an operation on its map leaves as they are.   *)
SameRun(p, q) == q.offset = p.offset /\ q.state = p.state /\ q.skipped = p.skipped

(* A map with another set of ranges and another end of the token k.        *)
Ends(m, k, e, S) == [ranges |-> S, tokens |-> [m.tokens EXCEPT ![k].end = e]]

(* Such a map keeps its shape, and changes the end of that token only.     *)
LEMMA EndsShaped ==
  ASSUME NEW m, Shaped(m), NEW k \in DOMAIN m.tokens, NEW e \in Int, NEW S,
         IsFiniteSet(S), \A r \in S : IsRange(r) /\ r.token \in DOMAIN m.tokens
  PROVE  LET g == Ends(m, k, e, S)
         IN  /\ Shaped(g)
             /\ g.ranges = S /\ DOMAIN g.tokens = DOMAIN m.tokens
             /\ g.tokens[k].end = e /\ g.tokens[k].start = m.tokens[k].start
             /\ g.tokens[k].syntax = m.tokens[k].syntax
             /\ \A u \in DOMAIN m.tokens : u # k => g.tokens[u] = m.tokens[u]
<1> DEFINE g == Ends(m, k, e, S)
<1>1. g = [ranges |-> g.ranges, tokens |-> g.tokens] /\ g.ranges = S /\ DOMAIN g.tokens = DOMAIN m.tokens
  BY DEF Ends
<1>2. \A u \in DOMAIN m.tokens : u # k => g.tokens[u] = m.tokens[u]
  BY DEF Ends
<1>3. /\ g.tokens[k] = [m.tokens[k] EXCEPT !.end = e]
  BY DEF Ends
<1>4. m.tokens[k] = [start |-> m.tokens[k].start, end |-> m.tokens[k].end, syntax |-> m.tokens[k].syntax]
      /\ m.tokens[k].start \in Int
  BY DEF Shaped, IsToken
<1>5. /\ g.tokens[k] = [start |-> m.tokens[k].start, end |-> e, syntax |-> m.tokens[k].syntax]
  BY <1>3, <1>4
<1> HIDE DEF g
<1>6. IsToken(g.tokens[k])
  BY <1>4, <1>5 DEF IsToken
<1>7. \A u \in DOMAIN m.tokens : IsToken(m.tokens[u])
  BY DEF Shaped
<1>8. \A u \in DOMAIN g.tokens : IsToken(g.tokens[u])
  BY <1>1, <1>2, <1>6, <1>7
<1>9. Shaped(g)
  BY <1>1, <1>8 DEF Shaped
<1> QED BY <1>1, <1>2, <1>5, <1>9 DEF g

(* endRange.                                                               *)
EndedRange(r, k) == [start |-> r.start, end |-> k, state |-> r.state, token |-> r.token]

(* The map after endRange has moved the end of r to k.                     *)
EndedMap(m, r, k) ==
  Ends(m, r.token, k,
       {z \in m.ranges : ~(z.end > r.end /\ z.start < k) /\ z # r} \cup {EndedRange(r, k)})

(* EndRange changes the map so, and the last range with it.                *)
LEMMA EndRangeIs ==
  ASSUME NEW p, IsScan(p), Shaped(p.map), NEW r \in p.map.ranges, p.last = {r},
         NEW k, NEW e, e = EndRange(p, k)
  PROVE  /\ IsScan(e) /\ SameRun(p, e) /\ e.token = p.token
         /\ e.map = EndedMap(p.map, r, k) /\ e.last = {EndedRange(r, k)}
<1> DEFINE m == p.map
           n == EndedRange(r, k)
           kept == RemoveBetween(m, r.end, k).ranges \ p.last
           S == kept \cup {n}
           q == SetEnd(p, r.token, k)
<1>1. m = [ranges |-> m.ranges, tokens |-> m.tokens]
  BY DEF Shaped
<1>2. r = [start |-> r.start, end |-> r.end, state |-> r.state, token |-> r.token]
  BY DEF Shaped, IsRange
<1>3. [r EXCEPT !.end = k] = n
  BY <1>2 DEF EndedRange
<1>4. The(p.last) = r /\ p.last # {}
  BY TheOnly
<1>5. S = {z \in m.ranges : ~(z.end > r.end /\ z.start < k) /\ z # r} \cup {n}
  BY <1>1 DEF RemoveBetween, Without
<1>6. e = [q EXCEPT !.map.ranges = S, !.last = {n}]
  BY <1>3, <1>4 DEF EndRange
<1>7. /\ IsScan(q) /\ SameRun(p, q) /\ q.token = p.token
      /\ q.map = [ranges |-> m.ranges, tokens |-> [m.tokens EXCEPT ![r.token].end = k]]
  BY <1>1 DEF SetEnd, IsScan, SameRun
<1> HIDE DEF S, n, m, q
<1>8. e.map = [ranges |-> S, tokens |-> [m.tokens EXCEPT ![r.token].end = k]]
  BY <1>6, <1>7 DEF IsScan
<1>9. e.last = {n} /\ IsScan(e) /\ SameRun(q, e) /\ e.token = q.token
  BY <1>6, <1>7 DEF IsScan, SameRun
<1> QED BY <1>5, <1>7, <1>8, <1>9 DEF EndedMap, Ends, SameRun, n, m

(* The range r stays the last one up to the offset k.                      *)
Stays(r, t, k) == \A i \in (r.end + 1)..k : NextState(r.state, t[i]) = r.state

(* When the machine stays in the state of r up to k, endRange at k makes   *)
(* the map right as far as k.                                              *)
LEMMA EndedTracks ==
  ASSUME NEW m, NEW t, Len(t) \in Nat, NEW r \in m.ranges, Tracks(m, t, r.end),
         NEW k \in r.end..Len(t), Stays(r, t, k)
  PROVE  Tracks(EndedMap(m, r, k), t, k)
<1> DEFINE n == EndedRange(r, k)
           S == {z \in m.ranges : ~(z.end > r.end /\ z.start < k) /\ z # r} \cup {n}
           g == EndedMap(m, r, k)
           o == r.end
<1>1. Shaped(m) /\ Apart(m.ranges)
  BY DEF Tracks
<1>2. r.start \in Nat /\ o \in Nat /\ r.start < o /\ k \in Nat /\ o <= k
  BY <1>1 DEF Shaped, IsRange
<1>3. IsRange(n) /\ n.start = r.start /\ n.end = k /\ n.token = r.token /\ n.state = r.state
  BY <1>2 DEF EndedRange, IsRange
<1>4. \A z \in m.ranges : z.start \in Nat /\ z.end \in Nat /\ z.start < z.end
  BY <1>1 DEF Shaped, IsRange
<1>5. S = {z \in m.ranges : z.end <= r.start \/ k <= z.start} \cup {n}
  <2>1. ASSUME NEW z \in m.ranges
        PROVE  (~(z.end > r.end /\ z.start < k) /\ z # r) <=> (z.end <= r.start \/ k <= z.start)
    BY <1>1, <1>2, <1>4 DEF Apart
  <2> QED BY <2>1
<1> HIDE DEF n
<1>6. IsFiniteSet(S) /\ \A z \in S : IsRange(z) /\ z.token \in DOMAIN m.tokens
  <2>1. IsFiniteSet({z \in m.ranges : ~(z.end > r.end /\ z.start < k) /\ z # r})
    BY <1>1, FS_Subset DEF Shaped
  <2>2. IsFiniteSet(S)
    BY <2>1, FS_AddElement
  <2> QED BY <1>1, <1>3, <2>2 DEF Shaped
<1>7. r.token \in DOMAIN m.tokens
  BY <1>1 DEF Shaped
<1>8. /\ Shaped(g)
      /\ g.ranges = S
      /\ g.tokens[r.token].end = k /\ g.tokens[r.token].start = m.tokens[r.token].start
      /\ \A u \in DOMAIN m.tokens : u # r.token => g.tokens[u] = m.tokens[u]
  <2> HIDE DEF S
  <2>1. g = Ends(m, r.token, k, S)
    BY DEF EndedMap, S, n
  <2> HIDE DEF g
  <2>2. k \in Int
    BY <1>2
  <2> QED BY <1>1, <1>6, <1>7, <2>1, <2>2, EndsShaped
<1> HIDE DEF S, g
<1>9. k <= Len(t)
  OBVIOUS
<1>10. \A z \in m.ranges : z.end <= n.start \/ n.start <= z.start
  BY <1>1, <1>3, <1>4 DEF Apart
<1>11. \A z \in m.ranges : o <= z.start => z.token # n.token
  BY <1>2, <1>3 DEF Tracks, Parted
<1>12. \A z \in m.ranges : n.start <= z.start /\ z.end <= o => z.token = n.token
  BY <1>1, <1>2, <1>3, <1>4 DEF Apart
<1>13. \A z, q \in m.ranges :
       z.token = n.token /\ z.end <= q.start /\ q.end <= n.start => q.token = n.token
  BY <1>3 DEF Tracks, Grouped
<1>14. g.ranges = {z \in m.ranges : z.end <= n.start \/ n.end <= z.start} \cup {n}
  BY <1>3, <1>5, <1>8
<1>15. /\ g.tokens[n.token].end = n.end /\ g.tokens[n.token].start <= n.start
       /\ \A z \in m.ranges :
         /\ z.token # n.token => g.tokens[z.token] = m.tokens[z.token]
         /\ z.token = n.token => g.tokens[z.token].start = m.tokens[z.token].start
  BY <1>1, <1>3, <1>8 DEF Shaped, Tracks, Covered, TokenOf
<1>16. \A i \in (n.start + 2)..n.end : NextState(n.state, t[i]) = n.state
  <2> SUFFICES ASSUME NEW i \in (r.start + 2)..k PROVE NextState(r.state, t[i]) = r.state
    BY <1>3
  <2>1. CASE i \in (r.start + 2)..r.end
    BY <2>1 DEF Tracks, RunsMachine
  <2>2. CASE i \in (r.end + 1)..k
    BY <2>2 DEF Stays
  <2> QED BY <1>2, <2>1, <2>2
<1>17. /\ n.start = 0 => n.state = FirstState(t[1])
       /\ \A q \in m.ranges : q.end = n.start => n.state = NextState(q.state, t[n.start + 1])
  <2>1. r.start # o
    BY <1>2
  <2> QED BY <1>3, <2>1 DEF Tracks, RunsMachine
<1>18. Grows(m, n, g, t, o)
  <2>1. n.start <= o /\ o <= n.end /\ n.end <= Len(t)
    BY <1>2, <1>3, <1>9
  <2> QED BY <1>3, <2>1, <1>10, <1>11, <1>12, <1>13, <1>14, <1>15, <1>16, <1>17 DEF Grows
<1> QED BY <1>2, <1>3, <1>8, <1>18, Growth DEF g

-----------------------------------------------------------------------------
(* A new token is not one the map has.                                     *)
LEMMA FreshIsNew ==
  ASSUME NEW m, IsFiniteSet(DOMAIN m.tokens)
  PROVE  FreshToken(m) \notin DOMAIN m.tokens
<1> DEFINE D == DOMAIN m.tokens
           c == Cardinality(D)
           T == {u \in Nat : u >= 1 /\ u \notin D}
<1>1. c \in Nat
  BY FS_CardinalityType
<1>2. ~(1..(c + 1) \subseteq D)
  <2> SUFFICES ASSUME 1..(c + 1) \subseteq D PROVE FALSE
    OBVIOUS
  <2>1. Cardinality(1..(c + 1)) <= c
    BY FS_Subset
  <2> HIDE DEF c
  <2> DEFINE e == c + 1
  <2>2. e \in Nat /\ 1 <= e
    BY <1>1
  <2> HIDE DEF e
  <2>3. Cardinality(1..e) = e - 1 + 1
    BY <2>2, FS_Interval
  <2>4. Cardinality(1..(c + 1)) = c + 1
    BY <1>1, <2>3 DEF e
  <2> QED BY <1>1, <2>1, <2>4
<1> HIDE DEF c
<1>3. PICK v \in 1..(c + 1) : v \notin D
  BY <1>2
<1>4. T \in SUBSET Nat /\ v \in T
  BY <1>1, <1>3
<1>5. PICK u \in T : \A y \in T : u <= y
  <2> HIDE DEF T
  <2> QED BY <1>4, LeastOf
<1>6. u \in 1..(c + 1) /\ u \notin D
  BY <1>1, <1>4, <1>5
<1>7. ASSUME NEW y \in 1..(u - 1) PROVE y \in D
  <2>1. y \in Nat /\ y >= 1 /\ ~(u <= y)
    BY <1>6
  <2> QED BY <1>5, <2>1
<1>8. \E t \in 1..(c + 1) : t \notin D /\ \A y \in 1..(t - 1) : y \in D
  BY <1>6, <1>7
<1> QED BY <1>8 DEF FreshToken, c

(* What beginning a range does to the tokens of the map m.                 *)
Tokens(m, g, k, o, own) ==
  /\ Shaped(g) /\ g.ranges = m.ranges
  /\ k \in DOMAIN g.tokens /\ DOMAIN m.tokens \subseteq DOMAIN g.tokens
  /\ g.tokens[k].end = o + 1
  /\ k \in DOMAIN m.tokens => own = {k} /\ g.tokens[k].start = m.tokens[k].start
  /\ k \notin DOMAIN m.tokens => g.tokens[k].start = o
  /\ \A u \in DOMAIN m.tokens : u # k => g.tokens[u] = m.tokens[u]

(* NewToken leaves the tokens there are alone.                             *)
LEMMA TokenAdded ==
  ASSUME NEW p, IsScan(p), Shaped(p.map), NEW o \in Nat, NEW syntax,
         NEW q, q = NewToken(p, o, syntax)
  PROVE  /\ IsScan(q) /\ SameRun(p, q) /\ q.last = p.last
         /\ \E k : q.token = {k} /\ Tokens(p.map, q.map, k, o, {})
<1> DEFINE m == p.map
           k == FreshToken(m)
           new == [start |-> o, end |-> o + 1, syntax |-> syntax]
           f == [u \in DOMAIN m.tokens \cup {k} |-> IF u = k THEN new ELSE m.tokens[u]]
<1>1. q = [p EXCEPT !.map.tokens = f, !.token = {k}]
  BY DEF NewToken
<1>2. k \notin DOMAIN m.tokens
  BY FreshIsNew DEF Shaped
<1>3. m = [ranges |-> m.ranges, tokens |-> m.tokens]
  BY DEF Shaped
<1> HIDE DEF k
<1>4. DOMAIN f = DOMAIN m.tokens \cup {k} /\ f[k] = new /\ \A u \in DOMAIN m.tokens : f[u] = m.tokens[u]
  BY <1>2
<1>5. IsToken(new)
  BY DEF IsToken
<1> HIDE DEF f, m
<1>6. /\ IsScan(q) /\ SameRun(p, q) /\ q.last = p.last /\ q.token = {k}
      /\ q.map = [ranges |-> m.ranges, tokens |-> f]
  BY <1>1, <1>3 DEF IsScan, SameRun, m
<1>7. Shaped(q.map)
  <2>1. IsFiniteSet(DOMAIN f)
    BY <1>4, FS_AddElement DEF Shaped, m
  <2>2. \A u \in DOMAIN f : IsToken(f[u])
    BY <1>4, <1>5 DEF Shaped, m
  <2> HIDE DEF new
  <2>3. \A r \in m.ranges : IsRange(r) /\ r.token \in DOMAIN f
    BY <1>4 DEF Shaped, m
  <2>4. IsFiniteSet(m.ranges)
    BY DEF Shaped, m
  <2> QED BY <1>6, <2>1, <2>2, <2>3, <2>4 DEF Shaped
<1>8. Tokens(m, q.map, k, o, {})
  BY <1>2, <1>4, <1>6, <1>7 DEF Tokens
<1> QED BY <1>6, <1>8 DEF m

(* startOrExtendToken changes the token that ends at o, or makes another.  *)
LEMMA TokenBegun ==
  ASSUME NEW p, IsScan(p), Shaped(p.map), NEW o \in Nat, NEW state,
         p.token = {} \/ \E k \in DOMAIN p.map.tokens : p.token = {k} /\ p.map.tokens[k].end = o,
         NEW q, q = StartOrExtendToken(p, o, state)
  PROVE  /\ IsScan(q) /\ SameRun(p, q) /\ q.last = p.last
         /\ \E k : q.token = {k} /\ Tokens(p.map, q.map, k, o, p.token)
<1> DEFINE m == p.map
           syntax == IF state = 0 THEN "zero" ELSE SyntaxOf[state]
<1>1. m = [ranges |-> m.ranges, tokens |-> m.tokens]
  BY DEF Shaped
<1>2. CASE p.token = {}
  <2>1. q = NewToken(p, o, syntax)
    BY <1>2 DEF StartOrExtendToken
  <2> HIDE DEF syntax
  <2> QED BY <1>2, <2>1, TokenAdded
<1>3. ASSUME NEW k \in DOMAIN m.tokens, p.token = {k}, m.tokens[k].end = o
      PROVE  /\ IsScan(q) /\ SameRun(p, q) /\ q.last = p.last
             /\ \E j : q.token = {j} /\ Tokens(m, q.map, j, o, p.token)
  <2> DEFINE known == m.tokens[k].syntax
             x == SetEnd(p, k, o + 1)
             y == SetEnd(p, k, o)
             z == EndToken(y)
  <2>1. The(p.token) = k /\ p.token # {}
    BY <1>3, TheOnly
  <2>2. m.tokens[k] = [start |-> m.tokens[k].start, end |-> m.tokens[k].end, syntax |-> m.tokens[k].syntax]
        /\ m.tokens[k].start \in Int
    BY DEF Shaped, IsToken
  <2>3. CASE known \in {NoSyntax, syntax}
    <3>1. q = [x EXCEPT !.map.tokens[k].syntax = syntax]
      BY <2>1, <2>3 DEF StartOrExtendToken
    <3>2. /\ IsScan(x) /\ SameRun(p, x) /\ x.last = p.last /\ x.token = p.token
          /\ x.map = [ranges |-> m.ranges, tokens |-> [m.tokens EXCEPT ![k].end = o + 1]]
      BY <1>1 DEF SetEnd, IsScan, SameRun
    <3> DEFINE e == [m.tokens EXCEPT ![k].end = o + 1]
               f == [e EXCEPT ![k].syntax = syntax]
    <3>3. /\ DOMAIN e = DOMAIN m.tokens
          /\ e[k] = [start |-> m.tokens[k].start, end |-> o + 1, syntax |-> m.tokens[k].syntax]
          /\ \A u \in DOMAIN m.tokens : u # k => e[u] = m.tokens[u]
      BY <2>2
    <3> HIDE DEF e, x, syntax
    <3>4. /\ DOMAIN f = DOMAIN m.tokens
          /\ f[k] = [start |-> m.tokens[k].start, end |-> o + 1, syntax |-> syntax]
          /\ \A u \in DOMAIN m.tokens : u # k => f[u] = m.tokens[u]
      BY <3>3
    <3>5. /\ IsScan(q) /\ SameRun(p, q) /\ q.last = p.last /\ q.token = p.token
          /\ q.map = [ranges |-> m.ranges, tokens |-> f]
      BY <3>1, <3>2 DEF IsScan, SameRun, e
    <3> HIDE DEF f
    <3>6. IsToken(f[k])
      BY <2>2, <3>4 DEF IsToken
    <3>7. Shaped(q.map)
      <4>1. \A u \in DOMAIN f : IsToken(f[u])
        BY <3>4, <3>6 DEF Shaped
      <4> QED BY <3>4, <3>5, <4>1 DEF Shaped
    <3>8. Tokens(m, q.map, k, o, p.token)
      BY <1>3, <3>4, <3>5, <3>7 DEF Tokens
    <3> QED BY <1>3, <3>5, <3>8
  <2>4. CASE known \notin {NoSyntax, syntax}
    <3>1. q = NewToken(z, o, syntax)
      BY <2>1, <2>4 DEF StartOrExtendToken
    <3> HIDE DEF syntax
    <3>2. /\ IsScan(y) /\ SameRun(p, y) /\ y.last = p.last /\ y.token = p.token
          /\ y.map = [ranges |-> m.ranges, tokens |-> [m.tokens EXCEPT ![k].end = o]]
      BY <1>1 DEF SetEnd, IsScan, SameRun
    <3> HIDE DEF y
    <3>3. /\ IsScan(z) /\ SameRun(p, z) /\ z.last = p.last /\ z.map = y.map
      BY <2>1, <3>2 DEF EndToken, PaintToken, IsScan, SameRun
    <3> HIDE DEF z
    <3> DEFINE e == [m.tokens EXCEPT ![k].end = o]
    <3>4. /\ DOMAIN e = DOMAIN m.tokens
          /\ e[k] = [start |-> m.tokens[k].start, end |-> o, syntax |-> m.tokens[k].syntax]
          /\ \A u \in DOMAIN m.tokens : u # k => e[u] = m.tokens[u]
      BY <2>2
    <3>5. e[k] = m.tokens[k]
      BY <1>3, <2>2, <3>4
    <3>6. z.map.ranges = m.ranges /\ z.map.tokens = e
          /\ z.map = [ranges |-> z.map.ranges, tokens |-> z.map.tokens]
      BY <3>2, <3>3
    <3> HIDE DEF e
    <3>7. \A u \in DOMAIN m.tokens : e[u] = m.tokens[u]
      BY <3>4, <3>5
    <3>8. Shaped(z.map)
      BY <3>4, <3>6, <3>7 DEF Shaped
    <3>9. /\ IsScan(q) /\ SameRun(z, q) /\ q.last = z.last
      BY <3>1, <3>3, <3>8, TokenAdded
    <3>10. PICK j : q.token = {j} /\ Tokens(z.map, q.map, j, o, {})
      BY <3>1, <3>3, <3>8, TokenAdded
    <3>11. Tokens(m, q.map, j, o, p.token)
      BY <3>4, <3>6, <3>7, <3>10 DEF Tokens
    <3> QED BY <3>2, <3>3, <3>9, <3>10, <3>11 DEF SameRun
  <2> QED BY <2>3, <2>4
<1> QED BY <1>2, <1>3

-----------------------------------------------------------------------------
(* What begins at o goes on from what ends there.                          *)
GoesOn(m, t, o, state) ==
  /\ o = 0 => state = FirstState(t[1])
  /\ \A q \in m.ranges : q.end = o => state = NextState(q.state, t[o + 1])

(* Taking ranges out keeps the shape of a map and its tokens.              *)
LEMMA WithoutIs ==
  ASSUME NEW m, Shaped(m), NEW S
  PROVE  /\ Without(m, S).tokens = m.tokens /\ Without(m, S).ranges = m.ranges \ S
         /\ Without(m, S) = [ranges |-> m.ranges \ S, tokens |-> m.tokens]
         /\ Shaped(Without(m, S))
<1>1. m = [ranges |-> m.ranges, tokens |-> m.tokens]
  BY DEF Shaped
<1>2. Without(m, S) = [ranges |-> m.ranges \ S, tokens |-> m.tokens]
  BY <1>1 DEF Without
<1>3. IsFiniteSet(m.ranges \ S)
  BY FS_Difference DEF Shaped
<1>4. Shaped(Without(m, S))
  BY <1>2, <1>3 DEF Shaped
<1> QED BY <1>2, <1>4

(* BeginRange puts in a range of one character, in place of a range that   *)
(* started there.                                                          *)
LEMMA BeginRangeIs ==
  ASSUME NEW p, IsScan(p), Shaped(p.map), Apart(p.map.ranges), NEW o \in Nat, NEW state,
         p.token = {} \/ \E k \in DOMAIN p.map.tokens : p.token = {k} /\ p.map.tokens[k].end = o,
         NEW b, b = BeginRange(p, o, state)
  PROVE  \E k, g :
           /\ IsScan(b) /\ b.offset = p.offset /\ b.skipped = p.skipped
           /\ b.state = Restarted(state)
           /\ b.last = {[start |-> o, end |-> o + 1, state |-> state, token |-> k]}
           /\ b.token \in {{}, {k}}
           /\ Shaped(b.map)
           /\ Tokens(Without(p.map, RangeStartsAt(p.map, o)), g, k, o, p.token)
           /\ b.map.tokens = g.tokens
           /\ b.map.ranges = {z \in p.map.ranges : z.start # o} \cup
                             {[start |-> o, end |-> o + 1, state |-> state, token |-> k]}
<1> DEFINE m == Without(p.map, RangeStartsAt(p.map, o))
           cut == [p EXCEPT !.map = m]
           q == StartOrExtendToken(cut, o, state)
           S == {z \in p.map.ranges : z.start # o}
<1>1. /\ m.tokens = p.map.tokens /\ Shaped(m)
      /\ m.ranges = p.map.ranges \ RangeStartsAt(p.map, o)
  BY WithoutIs
<1>2. m.ranges = S
  <2>1. RangeStartsAt(p.map, o) = {z \in p.map.ranges : z.start = o}
    BY StartsAt DEF Ordered, Shaped
  <2> HIDE DEF m
  <2> QED BY <1>1, <2>1
<1>4. /\ IsScan(cut) /\ cut.map = m /\ SameRun(p, cut) /\ cut.token = p.token
  BY DEF IsScan, SameRun
<1>5. b = IF state \in Acceptable THEN [EndToken(StartRange(q, o, state)) EXCEPT !.state = 0]
          ELSE StartRange(q, o, state)
  BY DEF BeginRange
<1> HIDE DEF m, cut, S
<1>6. /\ IsScan(q) /\ SameRun(cut, q) /\ q.last = cut.last
      /\ \E k : q.token = {k} /\ Tokens(m, q.map, k, o, p.token)
  BY <1>1, <1>4, TokenBegun
<1> HIDE DEF q
<1>7. PICK k : q.token = {k} /\ Tokens(m, q.map, k, o, p.token)
  BY <1>6
<1> DEFINE n == [start |-> o, end |-> o + 1, state |-> state, token |-> k]
           s == StartRange(q, o, state)
           g == q.map
<1>8. The(q.token) = k
  BY <1>7, TheOnly
<1>9. s = [q EXCEPT !.map.ranges = @ \cup {n}, !.last = {n}, !.state = state]
  BY <1>8 DEF StartRange
<1>10. g = [ranges |-> g.ranges, tokens |-> g.tokens] /\ g.ranges = S
  BY <1>2, <1>7 DEF Tokens, Shaped
<1> HIDE DEF n, g
<1>11. /\ IsScan(s) /\ s.offset = q.offset /\ s.skipped = q.skipped
       /\ s.state = state /\ s.last = {n} /\ s.token = {k}
       /\ s.map = [ranges |-> S \cup {n}, tokens |-> g.tokens]
  BY <1>6, <1>7, <1>9, <1>10 DEF IsScan, g
<1>12. Shaped(s.map)
  <2>1. IsRange(n) /\ n.token = k
    BY DEF IsRange, n
  <2>2. Shaped(g) /\ k \in DOMAIN g.tokens
    BY <1>7 DEF Tokens, g
  <2>3. IsFiniteSet(S \cup {n})
    BY <1>10, <2>2, FS_AddElement DEF Shaped
  <2> QED BY <1>10, <1>11, <2>1, <2>2, <2>3 DEF Shaped
<1> HIDE DEF s
<1>13. /\ IsScan(b) /\ b.offset = s.offset /\ b.skipped = s.skipped
       /\ b.map = s.map /\ b.last = s.last
       /\ b.token \in {{}, {k}}
       /\ b.state = Restarted(state)
  <2>1. CASE state \in Acceptable
    <3>1. b = [EndToken(s) EXCEPT !.state = 0]
      BY <1>5, <2>1 DEF s
    <3>2. s.token # {}
      BY <1>11
    <3>3. /\ IsScan(EndToken(s)) /\ EndToken(s).offset = s.offset /\ EndToken(s).skipped = s.skipped
          /\ EndToken(s).map = s.map /\ EndToken(s).last = s.last /\ EndToken(s).token = {}
      BY <1>11, <3>2 DEF EndToken, PaintToken, IsScan
    <3> QED BY <2>1, <3>1, <3>3 DEF IsScan, Restarted
  <2>2. CASE state \notin Acceptable
    <3>1. b = s
      BY <1>5, <2>2 DEF s
    <3> QED BY <1>11, <2>2, <3>1 DEF Restarted
  <2> QED BY <2>1, <2>2
<1>14. b.map.tokens = g.tokens /\ b.map.ranges = S \cup {n}
  BY <1>11, <1>13
<1>15. b.offset = p.offset /\ b.skipped = p.skipped
  BY <1>4, <1>6, <1>11, <1>13 DEF SameRun
<1>16. b.last = {n} /\ Shaped(b.map)
  BY <1>11, <1>12, <1>13
<1> QED BY <1>7, <1>13, <1>14, <1>15, <1>16 DEF m, n, S, g

(* When the machine gets into its state at o, the range that begins there  *)
(* makes the map right one character on.                                   *)
LEMMA BegunTracks ==
  ASSUME NEW p, IsScan(p), NEW t, Len(t) \in Nat, NEW o \in Nat, o < Len(t), NEW state,
         Tracks(p.map, t, o),
         p.token = {} \/ \E r \in p.map.ranges : r.end = o /\ p.token = {r.token},
         GoesOn(p.map, t, o, state),
         NEW b, b = BeginRange(p, o, state)
  PROVE  /\ IsScan(b) /\ b.offset = p.offset /\ b.skipped = p.skipped
         /\ b.state = Restarted(state)
         /\ \E n \in b.map.ranges : /\ b.last = {n} /\ n.end = o + 1 /\ n.state = state
                                    /\ b.token \in {{}, {n.token}}
         /\ Tracks(b.map, t, o + 1)
<1> DEFINE m == p.map
<1>1. Shaped(m) /\ Apart(m.ranges)
  BY DEF Tracks
<1>2. ASSUME NEW r \in m.ranges, r.end = o PROVE m.tokens[r.token].end = o
  <2>1. PICK q \in m.ranges : q.token = r.token /\ q.end = m.tokens[r.token].end
    BY DEF Tracks, Covered, TokenOf
  <2>2. r.end <= m.tokens[r.token].end
    BY DEF Tracks, Covered, TokenOf
  <2>3. ~(o <= q.start)
    BY <1>2, <2>1 DEF Tracks, Parted
  <2>4. q.end <= o
    BY <2>3 DEF Tracks, Placed
  <2>5. q.end \in Nat
    BY <1>1 DEF Shaped, IsRange
  <2> QED BY <1>2, <2>1, <2>2, <2>4, <2>5
<1>3. p.token = {} \/ \E k \in DOMAIN m.tokens : p.token = {k} /\ m.tokens[k].end = o
  BY <1>1, <1>2 DEF Shaped
<1>4. PICK k, g :
           /\ IsScan(b) /\ b.offset = p.offset /\ b.skipped = p.skipped
           /\ b.state = Restarted(state)
           /\ b.last = {[start |-> o, end |-> o + 1, state |-> state, token |-> k]}
           /\ b.token \in {{}, {k}}
           /\ Shaped(b.map)
           /\ Tokens(Without(p.map, RangeStartsAt(p.map, o)), g, k, o, p.token)
           /\ b.map.tokens = g.tokens
           /\ b.map.ranges = {z \in p.map.ranges : z.start # o} \cup
                             {[start |-> o, end |-> o + 1, state |-> state, token |-> k]}
  BY <1>1, <1>3, BeginRangeIs
<1> DEFINE n == [start |-> o, end |-> o + 1, state |-> state, token |-> k]
<1>5. IsRange(n) /\ n.start = o /\ n.end = o + 1 /\ n.state = state /\ n.token = k
  BY DEF IsRange
<1>6. \A z \in m.ranges : z.start \in Nat /\ z.end \in Nat /\ z.start < z.end
                          /\ z.token \in DOMAIN m.tokens
  BY <1>1 DEF Shaped, IsRange
<1>7. /\ k \in DOMAIN m.tokens => p.token = {k} /\ b.map.tokens[k].start = m.tokens[k].start
      /\ k \notin DOMAIN m.tokens => b.map.tokens[k].start = o
      /\ b.map.tokens[k].end = o + 1
      /\ \A u \in DOMAIN m.tokens : u # k => b.map.tokens[u] = m.tokens[u]
  <2>1. Without(m, RangeStartsAt(m, o)).tokens = m.tokens
    BY <1>1 DEF Without, Shaped
  <2> QED BY <1>4, <2>1 DEF Tokens
<1>8. b.map.ranges = {z \in m.ranges : z.start # o} \cup {n} /\ b.last = {n}
  BY <1>4
<1> HIDE DEF n
<1>9. ASSUME k \in DOMAIN m.tokens PROVE \E r \in m.ranges : r.end = o /\ r.token = k
  BY <1>7, <1>9
<1>10. \A z \in m.ranges : z.end <= o \/ o <= z.start
  BY DEF Tracks, Placed
<1>11. ASSUME NEW z \in m.ranges, o <= z.start PROVE z.token # k
  <2>1. CASE k \notin DOMAIN m.tokens
    BY <1>6, <2>1
  <2>2. CASE k \in DOMAIN m.tokens
    <3>1. PICK r \in m.ranges : r.end = o /\ r.token = k
      BY <1>9, <2>2
    <3> QED BY <1>6, <1>11, <3>1 DEF Tracks, Parted
  <2> QED BY <2>1, <2>2
<1>12. ASSUME NEW z \in m.ranges, NEW q \in m.ranges, z.token = k, z.end <= q.start, q.end <= o
       PROVE  q.token = k
  <2>1. k \in DOMAIN m.tokens
    BY <1>6, <1>12
  <2>2. PICK r \in m.ranges : r.end = o /\ r.token = k
    BY <1>9, <2>1
  <2>3. q = r \/ q.end <= r.start
    BY <1>1, <1>6, <1>12, <2>2 DEF Apart
  <2> QED BY <1>12, <2>2, <2>3 DEF Tracks, Grouped
<1>13. b.map.ranges = {z \in m.ranges : z.end <= o \/ o + 1 <= z.start} \cup {n}
  <2>1. ASSUME NEW z \in m.ranges PROVE z.start # o <=> z.end <= o \/ o + 1 <= z.start
    BY <1>6, <1>10
  <2> QED BY <1>8, <2>1
<1>14. /\ b.map.tokens[n.token].end = n.end /\ b.map.tokens[n.token].start <= n.start
  <2>1. CASE k \notin DOMAIN m.tokens
    BY <1>5, <1>7, <2>1
  <2>2. CASE k \in DOMAIN m.tokens
    <3>1. PICK r \in m.ranges : r.end = o /\ r.token = k
      BY <1>9, <2>2
    <3>2. m.tokens[k].start <= r.start /\ m.tokens[k].start \in Int
      BY <1>1, <2>2, <3>1 DEF Tracks, Covered, TokenOf, Shaped, IsToken
    <3> QED BY <1>5, <1>6, <1>7, <2>2, <3>1, <3>2
  <2> QED BY <2>1, <2>2
<1>15. Grows(m, n, b.map, t, o)
  <2>1. IsRange(n) /\ n.start <= o /\ o <= n.end /\ n.end <= Len(t)
    BY <1>5
  <2>2. \A z \in m.ranges : n.start <= z.start /\ z.end <= o => z.token = n.token
    BY <1>5, <1>6
  <2>3. \A z \in m.ranges :
         /\ z.token # n.token => b.map.tokens[z.token] = m.tokens[z.token]
         /\ z.token = n.token => b.map.tokens[z.token].start = m.tokens[z.token].start
    BY <1>5, <1>6, <1>7
  <2>4. \A i \in (n.start + 2)..n.end : NextState(n.state, t[i]) = n.state
    BY <1>5
  <2>5. /\ n.start = 0 => n.state = FirstState(t[1])
        /\ \A q \in m.ranges : q.end = n.start => n.state = NextState(q.state, t[n.start + 1])
    BY <1>5 DEF GoesOn
  <2>6. \A z \in m.ranges : z.end <= n.start \/ n.start <= z.start
    BY <1>5, <1>10
  <2>7. \A z \in m.ranges : o <= z.start => z.token # n.token
    BY <1>5, <1>11
  <2>8. \A z, q \in m.ranges :
       z.token = n.token /\ z.end <= q.start /\ q.end <= n.start => q.token = n.token
    BY <1>5, <1>12
  <2>9. b.map.ranges = {z \in m.ranges : z.end <= n.start \/ n.end <= z.start} \cup {n}
    BY <1>5, <1>13
  <2> QED BY <1>14, <2>1, <2>2, <2>3, <2>4, <2>5, <2>6, <2>7, <2>8, <2>9 DEF Grows
<1>16. Tracks(b.map, t, o + 1)
  BY <1>4, <1>5, <1>15, Growth
<1>17. n \in b.map.ranges /\ b.token \in {{}, {n.token}}
  BY <1>4, <1>5, <1>8
<1> QED BY <1>4, <1>5, <1>8, <1>16, <1>17

-----------------------------------------------------------------------------
(* The turns of the three loops.                                           *)
Dropping(head_, start_) == [kind |-> "drop", head |-> head_, start |-> start_]
Skipping(m, e) == [kind |-> "skip", map |-> m, end |-> e]
Scanning(k, e) == [kind |-> "scan", until |-> k, end |-> e]

(* One turn of each loop; a loop that is done stays where it is.           *)
Turn(loop, x) ==
  IF loop.kind = "drop"
  THEN IF \E r \in LowerBound(x, loop.head + 1) : ~IsClean(x, r, loop.start)
       THEN DropOne(x, loop.head) ELSE x
  ELSE IF loop.kind = "skip"
  THEN IF TokenOf(loop.map, x).end < loop.end /\ FollowersOf(loop.map, x) # {}
       THEN The(FollowersOf(loop.map, x)) ELSE x
  ELSE IF x.offset < loop.until
       THEN Advance([x EXCEPT !.skipped = FALSE], x.offset, loop.end) ELSE x

(* While, for these loops: its function of rounds, and what it returns.    *)
IsLoop(round, loop, x, n) ==
  round = [i \in 0..n |-> IF i = 0 THEN x ELSE Turn(loop, round[i - 1])]

LoopEnd(loop, x, n) == (CHOOSE round : IsLoop(round, loop, x, n))[n]

(* What the rounds are, one after the other.                               *)
Rounds(round, loop, x, n) ==
  /\ round[0] = x
  /\ \A i \in 0..(n - 1) : round[i + 1] = Turn(loop, round[i])

(* The recursive function of a loop exists, so the loop is its rounds.     *)
LEMMA LoopRounds ==
  ASSUME NEW loop, NEW x, NEW n \in Nat
  PROVE  \E round : Rounds(round, loop, x, n) /\ LoopEnd(loop, x, n) = round[n]
<1> DEFINE T == {k \in 0..n : \E round : IsLoop(round, loop, x, k)}
<1>1. 0 \in T
  <2> DEFINE round == [i \in 0..0 |-> x]
  <2>1. round = [i \in 0..0 |-> IF i = 0 THEN x ELSE Turn(loop, round[i - 1])]
    OBVIOUS
  <2> HIDE DEF round
  <2>2. IsLoop(round, loop, x, 0)
    BY <2>1 DEF IsLoop
  <2> QED BY <2>2
<1>2. ASSUME NEW k \in 0..(n - 1), k \in T PROVE k + 1 \in T
  <2>1. PICK old : IsLoop(old, loop, x, k)
    BY <1>2
  <2> DEFINE new == [i \in 0..(k + 1) |-> IF i = k + 1 THEN Turn(loop, old[k]) ELSE old[i]]
  <2>2. \A i \in 0..k : new[i] = old[i] /\ old[i] = IF i = 0 THEN x ELSE Turn(loop, old[i - 1])
    BY <2>1 DEF IsLoop
  <2>3. new[k + 1] = Turn(loop, old[k]) /\ new = [i \in 0..(k + 1) |-> new[i]]
    OBVIOUS
  <2> HIDE DEF new
  <2>4. ASSUME NEW i \in 0..(k + 1)
        PROVE  new[i] = IF i = 0 THEN x ELSE Turn(loop, new[i - 1])
    <3>1. CASE i = k + 1
      <4>1. i # 0 /\ i - 1 = k /\ k \in 0..k
        BY <3>1
      <4> QED BY <2>2, <2>3, <3>1, <4>1
    <3>2. CASE i \in 1..k
      <4>1. i \in 0..k /\ i - 1 \in 0..k /\ i # 0
        BY <3>2
      <4> QED BY <2>2, <4>1
    <3>3. CASE i = 0
      <4>1. 0 \in 0..k
        OBVIOUS
      <4> QED BY <2>2, <3>3, <4>1
    <3> QED BY <3>1, <3>2, <3>3
  <2>5. IsLoop(new, loop, x, k + 1)
    BY <2>3, <2>4 DEF IsLoop
  <2> QED BY <2>5
<1>3. n \in T
  <2> HIDE DEF T
  <2> QED BY <1>1, <1>2, EveryRound
<1> DEFINE round == CHOOSE r : IsLoop(r, loop, x, n)
<1>4. IsLoop(round, loop, x, n)
  BY <1>3
<1>5. LoopEnd(loop, x, n) = round[n]
  BY DEF LoopEnd
<1> HIDE DEF round
<1>6. Rounds(round, loop, x, n)
  <2>1. ASSUME NEW i \in 0..(n - 1) PROVE round[i + 1] = Turn(loop, round[i])
    <3>1. i + 1 \in 0..n /\ i + 1 # 0 /\ i + 1 - 1 = i
      OBVIOUS
    <3> QED BY <1>4, <3>1 DEF IsLoop
  <2>2. round[0] = x
    BY <1>4 DEF IsLoop
  <2> QED BY <2>1, <2>2 DEF Rounds
<1> QED BY <1>5, <1>6

-----------------------------------------------------------------------------
(* Skipping                                                                *)
LEMMA SkipIs ==
  ASSUME NEW m, NEW r, NEW e
  PROVE  SkipExistingRanges(m, r, e) =
         The(RangeEndsAt(m, TokenOf(m, LoopEnd(Skipping(m, e), r, e)).end))
BY DEF SkipExistingRanges, While, LoopEnd, IsLoop, Turn, Skipping

(* Behind the offset of the scan the tokens follow each other to the end.  *)
LEMMA TokenFollows ==
  ASSUME NEW m, NEW t, Len(t) \in Nat, NEW o \in Nat, Tracks(m, t, o),
         NEW q \in m.ranges, o <= q.start, NEW e, e = TokenOf(m, q).end
  PROVE  /\ e \in Nat /\ q.end <= e /\ e <= Len(t)
         /\ \E y \in m.ranges : y.end = e
         /\ e < Len(t) => \E w \in m.ranges : w.start = e /\ FollowersOf(m, q) = {w}
<1>1. Ordered(m.ranges)
  BY DEF Tracks, Shaped, Ordered
<1>2. \A z \in m.ranges : z.start \in Nat /\ z.end \in Nat /\ z.start < z.end
  BY <1>1 DEF Ordered, IsRange
<1>3. PICK y \in m.ranges : y.token = q.token /\ y.end = e
  BY DEF Tracks, Covered
<1>4. q.end <= e
  BY DEF Tracks, Covered
<1>5. e \in Nat /\ e <= Len(t)
  BY <1>2, <1>3 DEF Tracks, Placed
<1>6. o <= y.start
  <2>1. ~(y.end <= o)
    BY <1>3 DEF Tracks, Parted
  <2> QED BY <2>1 DEF Tracks, Placed
<1>7. ASSUME e < Len(t) PROVE \E w \in m.ranges : w.start = e /\ FollowersOf(m, q) = {w}
  <2>1. PICK w \in m.ranges : w.start = e
    BY <1>3, <1>5, <1>6, <1>7 DEF Tracks, Chained
  <2>2. FollowersOf(m, q) = {z \in m.ranges : z.start = e}
    BY <1>1, <1>5, StartsAt DEF FollowersOf
  <2>3. \A z \in m.ranges : z.start = e => z = w
    BY <1>1, <2>1, OneStart
  <2> QED BY <2>1, <2>2, <2>3
<1> QED BY <1>3, <1>4, <1>5, <1>7

(* skipExistingRanges always gets to the end of the text.                  *)
LEMMA SkipReaches ==
  ASSUME NEW m, NEW t, Len(t) \in Nat, NEW o \in Nat, Tracks(m, t, o),
         NEW z \in m.ranges, o <= z.start
  PROVE  /\ SkipExistingRanges(m, z, Len(t)) \in m.ranges
         /\ SkipExistingRanges(m, z, Len(t)).end = Len(t)
<1> DEFINE n == Len(t)
           loop == Skipping(m, n)
<1>1. PICK round : Rounds(round, loop, z, n) /\ LoopEnd(loop, z, n) = round[n]
  BY LoopRounds
<1>2. \A r \in m.ranges : r.start \in Nat /\ r.end \in Nat /\ r.start < r.end
  BY DEF Tracks, Shaped, IsRange
<1>3. ASSUME NEW q \in m.ranges, o <= q.start, TokenOf(m, q).end < n
      PROVE  \E w \in m.ranges : w.start = TokenOf(m, q).end /\ Turn(loop, q) = w
  <2>1. PICK w \in m.ranges : w.start = TokenOf(m, q).end /\ FollowersOf(m, q) = {w}
    BY <1>3, TokenFollows
  <2>2. Turn(loop, q) = IF TokenOf(m, q).end < n /\ FollowersOf(m, q) # {}
                        THEN The(FollowersOf(m, q)) ELSE q
    BY DEF Turn, Skipping
  <2>3. Turn(loop, q) = w
    BY <1>3, <2>1, <2>2, TheOnly
  <2> QED BY <2>1, <2>3
<1>4. ASSUME NEW q, ~(TokenOf(m, q).end < n) PROVE Turn(loop, q) = q
  BY <1>4 DEF Turn, Skipping
<1> HIDE DEF loop, n
<1> DEFINE E(q) == TokenOf(m, q).end
           T == {i \in 0..n : /\ round[i] \in m.ranges /\ o <= round[i].start
                              /\ i <= E(round[i]) \/ E(round[i]) = n}
<1>5. \A q \in m.ranges : o <= q.start => E(q) \in Nat /\ q.end <= E(q) /\ E(q) <= n
  BY TokenFollows DEF n
<1> HIDE DEF E
<1>6. 0 \in T
  <2>1. round[0] = z
    BY <1>1 DEF Rounds
  <2>2. 0 \in 0..n /\ 0 <= E(z)
    BY <1>5 DEF n
  <2> QED BY <2>1, <2>2
<1>7. ASSUME NEW i \in 0..(n - 1), i \in T PROVE i + 1 \in T
  <2> DEFINE q == round[i]
             y == round[i + 1]
  <2>1. y = Turn(loop, q) /\ i \in Nat /\ i + 1 \in 0..n /\ n \in Nat
    BY <1>1 DEF Rounds, n
  <2>2. q \in m.ranges /\ o <= q.start /\ (i <= E(q) \/ E(q) = n)
    BY <1>7
  <2>3. E(q) \in Nat /\ q.end <= E(q) /\ E(q) <= n
    BY <1>5, <2>2
  <2> HIDE DEF q, y
  <2>4. y \in m.ranges /\ o <= y.start /\ (i + 1 <= E(y) \/ E(y) = n)
    <3>1. CASE E(q) < n
      <4>1. y \in m.ranges /\ y.start = E(q)
        BY <1>3, <2>1, <2>2, <3>1 DEF E
      <4>2. o <= y.start
        BY <1>2, <2>2, <2>3, <4>1
      <4>3. E(y) \in Nat /\ y.end <= E(y)
        BY <1>5, <4>1, <4>2
      <4>4. y.start < y.end /\ y.end \in Nat
        BY <1>2, <4>1
      <4>5. i <= E(q)
        BY <2>1, <2>2, <2>3, <3>1
      <4>6. i + 1 <= E(y)
        BY <2>1, <2>3, <4>1, <4>3, <4>4, <4>5
      <4> QED BY <4>1, <4>2, <4>6
    <3>2. CASE ~(E(q) < n)
      <4>1. y = q /\ E(q) = n
        BY <1>4, <2>1, <2>3, <3>2 DEF E
      <4> QED BY <2>2, <4>1
    <3> QED BY <3>1, <3>2
  <2> QED BY <2>1, <2>4 DEF y
<1>8. n \in T
  <2>1. n \in Nat
    BY DEF n
  <2>2. \A i \in 0..(n - 1) : i \in T => i + 1 \in T
    BY <1>7
  <2> HIDE DEF T
  <2>3. \A i \in 0..n : i \in T
    BY <1>6, <2>1, <2>2, EveryRound
  <2>4. n \in 0..n
    BY <2>1
  <2> QED BY <2>3, <2>4
<1>9. round[n] \in m.ranges /\ o <= round[n].start /\ (n <= E(round[n]) \/ E(round[n]) = n)
  BY <1>8
<1>10. E(round[n]) = n /\ n \in Nat
  <2>1. E(round[n]) \in Nat /\ E(round[n]) <= n /\ n \in Nat
    BY <1>5, <1>9 DEF n
  <2> QED BY <1>9, <2>1
<1>11. PICK y \in m.ranges : y.end = n
  BY <1>9, <1>10, TokenFollows DEF E, n
<1>12. RangeEndsAt(m, n) = {y}
  <2>1. Ordered(m.ranges)
    BY DEF Tracks, Shaped, Ordered
  <2>2. RangeEndsAt(m, n) = {r \in m.ranges : r.end = n}
    BY <1>10, <2>1, EndsAt
  <2>3. \A r \in m.ranges : r.end = n => r = y
    BY <1>11, <2>1, OneEnd
  <2> QED BY <1>11, <2>2, <2>3
<1>13. SkipExistingRanges(m, z, n) = y
  <2>1. SkipExistingRanges(m, z, n) = The(RangeEndsAt(m, E(round[n])))
    BY <1>1, SkipIs DEF E, loop
  <2> QED BY <1>10, <1>12, <2>1, TheOnly
<1> QED BY <1>11, <1>13 DEF n

(* A range at the offset that the machine goes on with makes all of the    *)
(* map behind it right.                                                    *)
LEMMA SkippedTracks ==
  ASSUME NEW m, NEW t, Len(t) \in Nat, NEW o \in Nat, Tracks(m, t, o),
         NEW z \in m.ranges, z.start = o, GoesOn(m, t, o, z.state)
  PROVE  Tracks(m, t, Len(t))
<1> DEFINE n == Len(t)
           C(i) == \E r \in m.ranges : o <= r.start /\ r.start < i /\ i <= r.end
<1>1. \A r \in m.ranges : r.start \in Nat /\ r.end \in Nat /\ r.start < r.end /\ r.end <= n
  BY DEF Tracks, Shaped, IsRange, Placed
<1>2. Placed(m.ranges, t, n)
  BY <1>1 DEF Placed
<1>3. Chained(m.ranges, t, n)
  BY <1>1 DEF Chained
<1>4. Parted(m.ranges, n)
  BY <1>1 DEF Parted
<1>5. Tiled(m, n)
  <2> DEFINE T == {i \in 0..n : i > o => C(i)}
  <2>1. 0 \in T
    OBVIOUS
  <2>2. ASSUME NEW i \in 0..(n - 1), i \in T PROVE i + 1 \in T
    <3> SUFFICES ASSUME i + 1 > o PROVE C(i + 1)
      OBVIOUS
    <3>1. CASE i = o
      BY <1>1, <3>1
    <3>2. CASE i > o
      <4>1. PICK r \in m.ranges : o <= r.start /\ r.start < i /\ i <= r.end
        BY <2>2, <3>2
      <4>2. CASE i < r.end
        BY <1>1, <4>1, <4>2
      <4>3. CASE i = r.end
        <5>1. PICK q \in m.ranges : q.start = r.end
          BY <1>1, <4>1, <4>3 DEF Tracks, Chained
        <5> QED BY <1>1, <4>1, <4>3, <5>1
      <4> QED BY <1>1, <4>1, <4>2, <4>3
    <3> QED BY <3>1, <3>2
  <2>3. \A i \in 0..n : i \in T
    <3> HIDE DEF T
    <3> QED BY <2>1, <2>2, EveryRound
  <2> SUFFICES ASSUME NEW i \in 1..n PROVE \E r \in m.ranges : r.start < i /\ i <= r.end
    BY DEF Tiled
  <2>4. CASE i > o
    <3>1. i \in T
      BY <2>3
    <3> QED BY <2>4, <3>1
  <2>5. CASE i <= o
    BY <2>5 DEF Tracks, Tiled
  <2> QED BY <2>4, <2>5
<1>6. RunsMachine(m, t, n)
  <2> SUFFICES ASSUME NEW r \in m.ranges
               PROVE  /\ \A i \in (r.start + 2)..r.end : NextState(r.state, t[i]) = r.state
                      /\ r.start = 0 => r.state = FirstState(t[1])
                      /\ \A q \in m.ranges :
                           q.end = r.start => r.state = NextState(q.state, t[r.start + 1])
    BY DEF RunsMachine
  <2>1. /\ \A i \in (r.start + 2)..r.end : NextState(r.state, t[i]) = r.state
        /\ r.start = 0 => r.state = FirstState(t[1])
        /\ r.start # o => \A q \in m.ranges :
             q.end = r.start => r.state = NextState(q.state, t[r.start + 1])
    BY DEF Tracks, RunsMachine
  <2>2. CASE r.start = o
    <3>1. r = z
      BY <2>2, OneStart DEF Tracks, Shaped, Ordered
    <3> QED BY <2>1, <2>2, <3>1 DEF GoesOn
  <2> QED BY <2>1, <2>2
<1> QED BY <1>2, <1>3, <1>4, <1>5, <1>6 DEF Tracks

-----------------------------------------------------------------------------
(* A scan at its offset: the last range is right as far as its end, and    *)
(* goes on to the offset.                                                  *)
LastIs(p, t, r) ==
  /\ r \in p.map.ranges /\ p.last = {r} /\ p.token \in {{}, {r.token}}
  /\ p.state = Restarted(r.state)
  /\ r.end <= p.offset /\ Stays(r, t, p.offset)
  /\ Tracks(p.map, t, r.end)

(* A scan at the start of the text, which follows a newline.               *)
AtStart(p, t) ==
  /\ p.last = {} /\ p.token = {} /\ p.offset = 0 /\ p.state = Move[0][LF]
  /\ Tracks(p.map, t, 0)

(* A scan between two turns.                                               *)
Paused(p, t) ==
  /\ IsScan(p) /\ p.offset \in 0..Len(t) /\ p.skipped = FALSE
  /\ AtStart(p, t) \/ \E r : LastIs(p, t, r)

(* A scan that has skipped the rest of the text.                           *)
Skipped(p, t) ==
  /\ IsScan(p) /\ p.skipped = TRUE
  /\ p.offset = Len(t) /\ Tracks(p.map, t, Len(t))

(* The invariant of the loop of processRange.                              *)
ScanInv(p, t) == Paused(p, t) \/ Skipped(p, t)

(* The machine in front of a turn and behind it.                           *)
Moved(p, c) == Move[p.state][c]
StateBehind(p, c) == IF Moved(p, c) = 0 THEN Move[0][c] ELSE Moved(p, c)
EndedAt(p, o) == IF Moved(p, text[o + 1]) = 0 THEN EndToken(EndRange(p, o)) ELSE EndRange(p, o)
UsableAt(e, o, state) == {r \in RangeStartsAt(e.map, o) : CanUseRange(e.map, r, state)}

(* The three ways of a turn: the range goes on, another begins, or the     *)
(* ranges that follow are skipped.                                         *)
LEMMA AdvanceIs ==
  ASSUME NEW p, NEW o, NEW n
  PROVE  LET e == EndedAt(p, o)
             state == StateBehind(p, text[o + 1])
             usable == UsableAt(e, o, state)
             last == SkipExistingRanges(e.map, The(usable), n)
         IN  Advance(p, o, n) =
               IF Moved(p, text[o + 1]) = p.state /\ p.last # {} THEN [p EXCEPT !.offset = o + 1]
               ELSE IF usable = {} THEN [BeginRange(e, o, state) EXCEPT !.offset = o + 1]
               ELSE [e EXCEPT !.last = {last}, !.token = {last.token},
                         !.state = last.state, !.offset = last.end, !.skipped = TRUE]
BY Zenon DEF Advance, EndedAt, StateBehind, UsableAt, Moved

(* What the state of the last range says of the next one.                  *)
LEMMA StateStays ==
  ASSUME NEW p, NEW s, NEW c, p.state = Restarted(s), Moved(p, c) = p.state
  PROVE  NextState(s, c) = s
BY DEF Moved, NextState, Restarted

(* A character that does not stay in the state gets the machine into the   *)
(* next one.                                                               *)
LEMMA StateChanges ==
  ASSUME NEW p, NEW s, NEW c, p.state = Restarted(s), Moved(p, c) # p.state
  PROVE  StateBehind(p, c) = NextState(s, c)
BY DEF StateBehind, Moved, NextState, Restarted

(* The first character of the text.                                        *)
LEMMA StateStarts ==
  ASSUME NEW p, NEW c, p.state = Move[0][LF]
  PROVE  StateBehind(p, c) = FirstState(c)
BY DEF StateBehind, Moved, FirstState

(* The end of a range, which may be that of its token too.                 *)
LEMMA EndedAtIs ==
  ASSUME Len(text) \in Nat, NEW p, Paused(p, text), p.offset < Len(text),
         NEW o, o = p.offset, NEW state, state = StateBehind(p, text[o + 1]),
         ~(Moved(p, text[o + 1]) = p.state /\ p.last # {}),
         NEW e, e = EndedAt(p, o)
  PROVE  /\ IsScan(e) /\ e.offset = o /\ e.skipped = FALSE
         /\ Tracks(e.map, text, o)
         /\ e.token = {} \/ \E r \in e.map.ranges : r.end = o /\ e.token = {r.token}
         /\ GoesOn(e.map, text, o, state)
<1> DEFINE f == EndRange(p, o)
<1>1. IsScan(p) /\ p.skipped = FALSE /\ o \in Nat
  BY DEF Paused
<1>2. e = f \/ e = EndToken(f)
  BY DEF EndedAt
<1>3. ASSUME IsScan(f)
      PROVE  /\ IsScan(e) /\ e.offset = f.offset /\ e.skipped = f.skipped /\ e.map = f.map
             /\ e.token = f.token \/ e.token = {}
  <2>1. CASE e = f
    BY <1>3, <2>1
  <2>2. CASE e = EndToken(f)
    BY <1>3, <2>2 DEF EndToken, PaintToken, IsScan
  <2> QED BY <1>2, <2>1, <2>2
<1>4. CASE AtStart(p, text)
  <2>1. f = p
    BY <1>4 DEF EndRange, AtStart
  <2>2. /\ Tracks(e.map, text, o) /\ e.token = {} /\ o = 0
    BY <1>1, <1>3, <1>4, <2>1 DEF AtStart
  <2>3. \A q \in e.map.ranges : q.end # 0
    BY <2>2 DEF Tracks, Shaped, IsRange
  <2>4. state = FirstState(text[1])
    BY <1>4, <2>2, StateStarts DEF AtStart
  <2>5. GoesOn(e.map, text, o, state)
    BY <2>2, <2>3, <2>4 DEF GoesOn
  <2> QED BY <1>1, <1>3, <2>1, <2>2, <2>5
<1>5. ASSUME NEW r, LastIs(p, text, r)
      PROVE  /\ IsScan(e) /\ e.offset = o /\ e.skipped = FALSE
             /\ Tracks(e.map, text, o)
             /\ e.token = {} \/ \E q \in e.map.ranges : q.end = o /\ e.token = {q.token}
             /\ GoesOn(e.map, text, o, state)
  <2> DEFINE m == p.map
             n == EndedRange(r, o)
  <2>1. /\ r \in m.ranges /\ p.last = {r} /\ p.token \in {{}, {r.token}}
        /\ p.state = Restarted(r.state) /\ o \in r.end..Len(text) /\ Stays(r, text, o)
        /\ Tracks(m, text, r.end)
    <3>1. r \in m.ranges /\ Tracks(m, text, r.end) /\ r.end <= o
      BY <1>5 DEF LastIs
    <3>2. r.end \in Nat
      BY <3>1 DEF Tracks, Shaped, IsRange
    <3> QED BY <1>1, <1>5, <3>1, <3>2 DEF LastIs
  <2>2. Shaped(m)
    BY <2>1 DEF Tracks
  <2>3. /\ IsScan(f) /\ SameRun(p, f) /\ f.token = p.token
        /\ f.map = EndedMap(m, r, o) /\ f.last = {n}
    BY <1>1, <2>1, <2>2, EndRangeIs
  <2>4. Tracks(f.map, text, o)
    BY <2>1, <2>3, EndedTracks
  <2>5. n \in f.map.ranges
    BY <2>3 DEF EndedMap, Ends
  <2>6. n.end = o /\ n.token = r.token /\ n.state = r.state
    BY DEF EndedRange
  <2> HIDE DEF m, n, f
  <2>7. /\ IsScan(e) /\ e.offset = o /\ e.skipped = FALSE /\ e.map = f.map
        /\ e.token \in {{}, {n.token}}
    BY <1>1, <1>3, <2>1, <2>3, <2>6 DEF SameRun
  <2>8. \A q \in f.map.ranges : q.end = o => q = n
    BY <2>4, <2>5, <2>6, OneEnd DEF Tracks, Shaped, Ordered
  <2>9. o # 0
    <3>1. r.end \in Nat /\ r.start \in Nat /\ r.start < r.end
      BY <2>1, <2>2 DEF Shaped, IsRange
    <3> QED BY <2>1, <3>1
  <2>10. state = NextState(r.state, text[o + 1])
    <3>1. Moved(p, text[o + 1]) # p.state
      BY <2>1
    <3> QED BY <2>1, <3>1, StateChanges
  <2>11. GoesOn(e.map, text, o, state)
    BY <2>6, <2>7, <2>8, <2>9, <2>10 DEF GoesOn
  <2> QED BY <2>4, <2>5, <2>6, <2>7, <2>11
<1> QED BY <1>4, <1>5 DEF Paused

(* One turn.                                                               *)
LEMMA AdvanceKeeps ==
  ASSUME Len(text) \in Nat, NEW p, Paused(p, text), p.offset < Len(text),
         NEW y, y = Advance(p, p.offset, Len(text))
  PROVE  /\ ScanInv(y, text)
         /\ y.offset >= p.offset + 1
         /\ y.skipped = FALSE => y.offset = p.offset + 1 /\ y.last # {}
<1> DEFINE o == p.offset
           c == text[o + 1]
           e == EndedAt(p, o)
           state == StateBehind(p, c)
           usable == UsableAt(e, o, state)
           last == SkipExistingRanges(e.map, The(usable), Len(text))
<1>1. IsScan(p) /\ p.skipped = FALSE /\ o \in Nat
  BY DEF Paused
<1>2. y = IF Moved(p, c) = p.state /\ p.last # {} THEN [p EXCEPT !.offset = o + 1]
          ELSE IF usable = {} THEN [BeginRange(e, o, state) EXCEPT !.offset = o + 1]
          ELSE [e EXCEPT !.last = {last}, !.token = {last.token},
                    !.state = last.state, !.offset = last.end, !.skipped = TRUE]
  BY AdvanceIs
<1>3. CASE Moved(p, c) = p.state /\ p.last # {}
  <2>1. y = [p EXCEPT !.offset = o + 1]
    BY <1>2, <1>3
  <2>2. /\ IsScan(y) /\ y.offset = o + 1 /\ y.map = p.map /\ y.last = p.last
        /\ y.token = p.token /\ y.state = p.state /\ y.skipped = FALSE
    BY <1>1, <2>1 DEF IsScan
  <2>3. PICK r : LastIs(p, text, r)
    BY <1>3 DEF Paused, AtStart
  <2>4. NextState(r.state, c) = r.state
    BY <1>3, <2>3, StateStays DEF LastIs
  <2>5. r.end \in Nat /\ r.end <= o
    BY <2>3 DEF LastIs, Tracks, Shaped, IsRange
  <2>6. Stays(r, text, o + 1)
    <3> SUFFICES ASSUME NEW i \in (r.end + 1)..(o + 1) PROVE NextState(r.state, text[i]) = r.state
      BY DEF Stays
    <3>1. CASE i = o + 1
      BY <2>4, <3>1
    <3>2. CASE i \in (r.end + 1)..o
      BY <2>3, <3>2 DEF LastIs, Stays
    <3> QED BY <1>1, <2>5, <3>1, <3>2
  <2>7. LastIs(y, text, r)
    BY <1>1, <2>2, <2>3, <2>5, <2>6 DEF LastIs
  <2> QED BY <1>1, <1>3, <2>2, <2>7 DEF ScanInv, Paused
<1>4. CASE ~(Moved(p, c) = p.state /\ p.last # {})
  <2> HIDE DEF e, state, usable, last
  <2>1. /\ IsScan(e) /\ e.offset = o /\ e.skipped = FALSE
        /\ Tracks(e.map, text, o)
        /\ e.token = {} \/ \E r \in e.map.ranges : r.end = o /\ e.token = {r.token}
        /\ GoesOn(e.map, text, o, state)
    BY <1>4, EndedAtIs DEF e, state
  <2>2. CASE usable = {}
    <3> DEFINE b == BeginRange(e, o, state)
    <3>1. y = [b EXCEPT !.offset = o + 1]
      BY <1>2, <1>4, <2>2
    <3>2. /\ IsScan(b) /\ b.offset = e.offset /\ b.skipped = e.skipped
          /\ b.state = Restarted(state)
          /\ \E n \in b.map.ranges : /\ b.last = {n} /\ n.end = o + 1 /\ n.state = state
                                     /\ b.token \in {{}, {n.token}}
          /\ Tracks(b.map, text, o + 1)
      BY <1>1, <2>1, BegunTracks
    <3> HIDE DEF b
    <3>3. PICK n \in b.map.ranges : /\ b.last = {n} /\ n.end = o + 1 /\ n.state = state
                                    /\ b.token \in {{}, {n.token}}
      BY <3>2
    <3>4. /\ IsScan(y) /\ y.offset = o + 1 /\ y.map = b.map /\ y.last = b.last
          /\ y.token = b.token /\ y.state = b.state /\ y.skipped = FALSE
      BY <2>1, <3>1, <3>2 DEF IsScan
    <3>5. Stays(n, text, o + 1)
      BY <1>1, <3>3 DEF Stays
    <3>6. LastIs(y, text, n)
      BY <1>1, <3>2, <3>3, <3>4, <3>5 DEF LastIs
    <3> QED BY <1>1, <3>3, <3>4, <3>6 DEF ScanInv, Paused
  <2>3. CASE usable # {}
    <3>1. PICK z \in e.map.ranges : z.start = o /\ z.state = state /\ usable = {z}
      <4>1. Ordered(e.map.ranges)
        BY <2>1 DEF Tracks, Shaped, Ordered
      <4>2. RangeStartsAt(e.map, o) = {r \in e.map.ranges : r.start = o}
        BY <1>1, <4>1, StartsAt
      <4>3. PICK z : z \in usable
        BY <2>3
      <4>4. z \in e.map.ranges /\ z.start = o /\ z.state = state
        BY <4>2, <4>3 DEF usable, UsableAt, CanUseRange
      <4>5. \A w \in usable : w = z
        BY <4>1, <4>2, <4>4, OneStart DEF usable, UsableAt
      <4> QED BY <4>3, <4>4, <4>5
    <3>2. The(usable) = z
      BY <3>1, TheOnly
    <3>3. last \in e.map.ranges /\ last.end = Len(text)
      <4>1. o <= z.start
        BY <1>1, <3>1
      <4> QED BY <1>1, <2>1, <3>1, <3>2, <4>1, SkipReaches DEF last
    <3>4. Tracks(e.map, text, Len(text))
      BY <1>1, <2>1, <3>1, SkippedTracks
    <3>5. y = [e EXCEPT !.last = {last}, !.token = {last.token},
                    !.state = last.state, !.offset = last.end, !.skipped = TRUE]
      BY <1>2, <1>4, <2>3
    <3>6. IsScan(y) /\ y.map = e.map /\ y.offset = last.end /\ y.skipped = TRUE
      BY <2>1, <3>5 DEF IsScan
    <3> QED BY <1>1, <3>3, <3>4, <3>6 DEF ScanInv, Skipped
  <2> QED BY <2>2, <2>3
<1> QED BY <1>3, <1>4

-----------------------------------------------------------------------------
(* Only the ends of tokens matter.                                         *)
LEMMA SameTracks ==
  ASSUME NEW m, NEW g, NEW t, NEW o, Tracks(m, t, o), Shaped(g), g.ranges = m.ranges,
         \A r \in m.ranges : /\ g.tokens[r.token].start = m.tokens[r.token].start
                             /\ g.tokens[r.token].end = m.tokens[r.token].end
  PROVE  Tracks(g, t, o)
<1>1. Covered(g)
  BY DEF Tracks, Covered, TokenOf
<1>2. Tiled(g, o) /\ RunsMachine(g, t, o)
  BY DEF Tracks, Tiled, RunsMachine
<1> QED BY <1>1, <1>2 DEF Tracks

(* Collecting tokens takes away none that a range has.                     *)
LEMMA CollectedTracks ==
  ASSUME NEW m, NEW t, NEW o, Tracks(m, t, o)
  PROVE  Collected(m).ranges = m.ranges /\ Tracks(Collected(m), t, o)
<1> DEFINE D == {r.token : r \in m.ranges}
           f == [u \in D |-> m.tokens[u]]
<1>1. Shaped(m)
  BY DEF Tracks
<1>2. D \subseteq DOMAIN m.tokens
  BY <1>1 DEF Shaped
<1>3. Collected(m) = [ranges |-> m.ranges, tokens |-> f]
  BY <1>1 DEF Collected, Restrict, Shaped
<1>4. IsFiniteSet(D)
  BY <1>1, <1>2, FS_Subset DEF Shaped
<1>5. DOMAIN f = D /\ \A u \in D : f[u] = m.tokens[u]
  OBVIOUS
<1>6. \A r \in m.ranges : r.token \in D
  OBVIOUS
<1> HIDE DEF D, f
<1>7. Collected(m).ranges = m.ranges /\ Collected(m).tokens = f
      /\ Collected(m) = [ranges |-> Collected(m).ranges, tokens |-> Collected(m).tokens]
  BY <1>3
<1>8. \A u \in DOMAIN f : IsToken(f[u])
  BY <1>1, <1>2, <1>5 DEF Shaped
<1>9. Shaped(Collected(m))
  BY <1>1, <1>4, <1>5, <1>6, <1>7, <1>8 DEF Shaped
<1> QED BY <1>5, <1>6, <1>7, <1>9, SameTracks

-----------------------------------------------------------------------------
(* Where a scan starts.                                                    *)
LEMMA EndsAtOffset ==
  ASSUME NEW m, NEW t, NEW o \in Nat, Tracks(m, t, o)
  PROVE  /\ o = 0 => RangeEndsAt(m, o) = {}
         /\ o # 0 => \E r \in m.ranges : r.end = o /\ RangeEndsAt(m, o) = {r}
<1>1. Ordered(m.ranges)
  BY DEF Tracks, Shaped, Ordered
<1>2. \A r \in m.ranges : r.start \in Nat /\ r.end \in Nat /\ r.start < r.end
  BY <1>1 DEF Ordered, IsRange
<1>3. RangeEndsAt(m, o) = {r \in m.ranges : r.end = o}
  BY <1>1, EndsAt
<1>4. CASE o = 0
  BY <1>2, <1>3, <1>4
<1>5. CASE o # 0
  <2>1. PICK r \in m.ranges : r.start < o /\ o <= r.end
    BY <1>5 DEF Tracks, Tiled
  <2>2. r.end <= o
    BY <1>2, <2>1 DEF Tracks, Placed
  <2>3. r.end = o
    BY <1>2, <2>1, <2>2
  <2>4. \A q \in m.ranges : q.end = o => q = r
    BY <1>1, <2>3, OneEnd
  <2>5. RangeEndsAt(m, o) = {r}
    BY <1>3, <2>3, <2>4
  <2> QED BY <1>5, <2>3, <2>5
<1> QED BY <1>4, <1>5

(* A scan resumed at the offset the map is right to goes on with the state *)
(* and the token of the range that ends there.                             *)
LEMMA ResumedPaused ==
  ASSUME Len(text) \in Nat, NEW m, NEW start \in Nat, start < Len(text),
         Tracks(m, text, start), NEW colors, NEW p, p = Resumed(m, colors, start)
  PROVE  Paused(p, text) /\ p.offset = start
<1> DEFINE before == RangeEndsAt(m, start)
           r == The(before)
           blank == before # {} /\ TokenOf(m, r).syntax = NoSyntax
           goesOn == before # {} /\ r.state \notin Acceptable
           g == IF blank THEN [m EXCEPT !.tokens[r.token].syntax = SyntaxOf[r.state]] ELSE m
           token == IF goesOn THEN {r.token} ELSE {}
           state == IF start = 0 THEN Move[0][LF] ELSE IF goesOn THEN r.state ELSE 0
<1>1. p = [map |-> g, color |-> colors, offset |-> start, last |-> before, token |-> token,
           state |-> state, skipped |-> FALSE]
  BY Zenon DEF Resumed
<1>2. /\ start = 0 => before = {}
      /\ start # 0 => \E q \in m.ranges : q.end = start /\ before = {q}
  BY EndsAtOffset
<1> HIDE DEF before
<1>3. CASE start = 0
  <2>1. g = m /\ token = {} /\ state = Move[0][LF] /\ before = {}
    BY <1>2, <1>3
  <2> HIDE DEF g, token, state
  <2>2. /\ IsScan(p) /\ p.map = m /\ p.offset = 0 /\ p.last = {} /\ p.token = {}
        /\ p.state = Move[0][LF] /\ p.skipped = FALSE
    BY <1>1, <1>3, <2>1 DEF IsScan
  <2>3. AtStart(p, text)
    BY <1>3, <2>2 DEF AtStart
  <2> QED BY <1>3, <2>2, <2>3 DEF Paused
<1>4. CASE start # 0
  <2>1. PICK q \in m.ranges : q.end = start /\ before = {q}
    BY <1>2, <1>4
  <2>2. r = q /\ before # {}
    BY <2>1, TheOnly
  <2>3. token \in {{}, {q.token}}
    BY <2>2
  <2>4. state = Restarted(q.state)
    BY <1>4, <2>2 DEF Restarted
  <2>5. Shaped(m) /\ q.token \in DOMAIN m.tokens
    BY <2>1 DEF Tracks, Shaped
  <2>6. Tracks(g, text, start) /\ g.ranges = m.ranges
    <3>1. CASE ~blank
      BY <3>1
    <3>2. CASE blank
      <4> DEFINE syntax == SyntaxOf[q.state]
                 f == [m.tokens EXCEPT ![q.token].syntax = syntax]
      <4>1. g = [m EXCEPT !.tokens[q.token].syntax = syntax]
        BY <2>2, <3>2
      <4>2. m = [ranges |-> m.ranges, tokens |-> m.tokens]
        BY <2>5 DEF Shaped
      <4> HIDE DEF g, r, syntax
      <4>3. g = [ranges |-> m.ranges, tokens |-> f]
        BY <4>1, <4>2
      <4>4. /\ m.tokens[q.token] = [start |-> m.tokens[q.token].start,
                 end |-> m.tokens[q.token].end, syntax |-> m.tokens[q.token].syntax]
            /\ m.tokens[q.token].start \in Int /\ m.tokens[q.token].end \in Int
        BY <2>5 DEF Shaped, IsToken
      <4>5. /\ DOMAIN f = DOMAIN m.tokens
            /\ f[q.token] = [start |-> m.tokens[q.token].start,
                 end |-> m.tokens[q.token].end, syntax |-> syntax]
            /\ \A u \in DOMAIN m.tokens : u # q.token => f[u] = m.tokens[u]
        BY <2>5, <4>4
      <4> HIDE DEF f
      <4>6. IsToken(f[q.token])
        BY <4>4, <4>5 DEF IsToken
      <4>7. \A u \in DOMAIN f : IsToken(f[u])
        BY <2>5, <4>5, <4>6 DEF Shaped
      <4>8. g.ranges = m.ranges /\ g.tokens = f /\ g = [ranges |-> g.ranges, tokens |-> g.tokens]
        BY <4>3
      <4>9. Shaped(g)
        BY <2>5, <4>5, <4>7, <4>8 DEF Shaped
      <4>10. \A z \in m.ranges : /\ g.tokens[z.token].start = m.tokens[z.token].start
                                 /\ g.tokens[z.token].end = m.tokens[z.token].end
        BY <2>5, <4>5, <4>8 DEF Shaped
      <4> QED BY <4>8, <4>9, <4>10, SameTracks
    <3> QED BY <3>1, <3>2
  <2> HIDE DEF g, token, state
  <2>7. /\ IsScan(p) /\ p.map = g /\ p.offset = start /\ p.last = {q} /\ p.token = token
        /\ p.state = state /\ p.skipped = FALSE
    BY <1>1, <2>1 DEF IsScan
  <2>8. Stays(q, text, start)
    BY <2>1 DEF Stays
  <2>9. LastIs(p, text, q)
    BY <2>1, <2>3, <2>4, <2>6, <2>7, <2>8 DEF LastIs
  <2> QED BY <2>7, <2>9 DEF Paused
<1> QED BY <1>3, <1>4

-----------------------------------------------------------------------------
(* The loop of Scan.                                                       *)
LEMMA ScanIs ==
  ASSUME NEW p, NEW k, NEW n
  PROVE  Scan(p, k, n) =
         LET q == LoopEnd(Scanning(k, n), p, k) IN IF q.skipped THEN q ELSE EndScan(q, k)
BY DEF Scan, While, LoopEnd, IsLoop, Turn, Scanning

(* What a scan towards k is after i turns.                                 *)
AfterTurns(x, k, i) ==
  /\ ScanInv(x, text) /\ i <= x.offset
  /\ x.skipped = FALSE => x.offset <= k /\ (i > 0 => x.last # {})

(* A turn gets at least a character on.                                    *)
LEMMA OneTurn ==
  ASSUME Len(text) \in Nat, NEW k \in 0..Len(text), NEW i \in 0..(k - 1), NEW x,
         AfterTurns(x, k, i), i = 0 => x.offset < k
  PROVE  AfterTurns(Turn(Scanning(k, Len(text)), x), k, i + 1)
<1> DEFINE y == Turn(Scanning(k, Len(text)), x)
           p == [x EXCEPT !.skipped = FALSE]
<1>1. y = IF x.offset < k THEN Advance(p, x.offset, Len(text)) ELSE x
  BY DEF Turn, Scanning
<1>2. x.offset \in Nat /\ IsScan(x)
  BY DEF AfterTurns, ScanInv, Paused, Skipped
<1>3. CASE x.offset < k
  <2>1. Paused(x, text)
    <3>1. x.offset # Len(text)
      BY <1>2, <1>3
    <3> QED BY <3>1 DEF AfterTurns, ScanInv, Skipped
  <2>2. /\ IsScan(p) /\ p.map = x.map /\ p.offset = x.offset /\ p.last = x.last
        /\ p.token = x.token /\ p.state = x.state /\ p.skipped = FALSE
    BY <1>2 DEF IsScan
  <2> HIDE DEF p
  <2>3. Paused(p, text)
    BY <2>1, <2>2 DEF Paused, AtStart, LastIs
  <2>4. y = Advance(p, p.offset, Len(text))
    BY <1>1, <1>3, <2>2
  <2>5. p.offset < Len(text)
    BY <1>2, <1>3, <2>2
  <2> HIDE DEF y
  <2>6. /\ ScanInv(y, text)
        /\ y.offset >= p.offset + 1
        /\ y.skipped = FALSE => y.offset = p.offset + 1 /\ y.last # {}
    BY <2>3, <2>4, <2>5, AdvanceKeeps
  <2>7. y.offset \in Nat
    BY <2>6 DEF ScanInv, Paused, Skipped
  <2>8. i + 1 <= y.offset
    BY <1>2, <2>2, <2>6, <2>7 DEF AfterTurns
  <2>9. y.skipped = FALSE => y.offset <= k
    BY <1>2, <1>3, <2>2, <2>6
  <2> QED BY <2>6, <2>8, <2>9 DEF AfterTurns, y
<1>4. CASE ~(x.offset < k)
  <2>1. y = x
    BY <1>1, <1>4
  <2>2. i > 0
    BY <1>4
  <2>3. i + 1 <= x.offset
    BY <1>2, <1>4
  <2> HIDE DEF y
  <2> QED BY <2>1, <2>2, <2>3 DEF AfterTurns, y
<1> QED BY <1>3, <1>4

(* The end of a task ends the last range where the scan stopped.           *)
LEMMA EndScanTracks ==
  ASSUME Len(text) \in Nat, NEW q, Paused(q, text), q.last # {}, NEW e, e = EndScan(q, q.offset)
  PROVE  e.offset = q.offset /\ Tracks(e.map, text, q.offset)
<1> DEFINE k == q.offset
           f == EndRange(q, k)
           g == PaintToken(f, The(q.last).token)
<1>1. PICK r : LastIs(q, text, r)
  BY DEF Paused, AtStart
<1>2. /\ IsScan(q) /\ k \in 0..Len(text) /\ r \in q.map.ranges /\ q.last = {r}
      /\ r.end <= k /\ Stays(r, text, k) /\ Tracks(q.map, text, r.end)
  BY <1>1 DEF LastIs, Paused
<1>3. r.end \in Nat /\ Shaped(q.map)
  BY <1>2 DEF Tracks, Shaped, IsRange
<1>4. k \in r.end..Len(text)
  BY <1>2, <1>3
<1>5. IsScan(f) /\ f.map = EndedMap(q.map, r, k)
  BY <1>2, <1>3, EndRangeIs
<1>6. Tracks(f.map, text, k)
  BY <1>2, <1>4, <1>5, EndedTracks
<1>7. e = [g EXCEPT !.offset = k]
  BY DEF EndScan
<1> HIDE DEF f
<1>8. IsScan(g) /\ g.map = f.map
  BY <1>5 DEF PaintToken, IsScan
<1> HIDE DEF g, k
<1>9. e.offset = k /\ e.map = f.map
  BY <1>7, <1>8 DEF IsScan
<1> QED BY <1>6, <1>9 DEF k

(* A task that scans up to k makes the map right as far as k, or all of    *)
(* it.                                                                     *)
LEMMA ScanTracks ==
  ASSUME Len(text) \in Nat, NEW p, Paused(p, text), NEW k \in 0..Len(text), p.offset < k,
         NEW q, q = Scan(p, k, Len(text))
  PROVE  /\ q.offset \in k..Len(text) /\ Tracks(q.map, text, q.offset)
<1> DEFINE loop == Scanning(k, Len(text))
<1>1. k \in Nat /\ k > 0 /\ p.offset \in Nat
  BY DEF Paused
<1>2. PICK round : Rounds(round, loop, p, k) /\ LoopEnd(loop, p, k) = round[k]
  BY <1>1, LoopRounds
<1> DEFINE T == {i \in 0..k : AfterTurns(round[i], k, i)}
<1>3. round[0] = p
  BY <1>2 DEF Rounds
<1>4. 0 \in T
  <2>1. AfterTurns(p, k, 0)
    BY <1>1 DEF AfterTurns, ScanInv
  <2> QED BY <1>1, <1>3, <2>1
<1>5. ASSUME NEW i \in 0..(k - 1), i \in T PROVE i + 1 \in T
  <2>1. AfterTurns(round[i], k, i) /\ round[i + 1] = Turn(loop, round[i])
    BY <1>2, <1>5 DEF Rounds
  <2>2. i = 0 => round[i].offset < k
    BY <1>3
  <2>3. AfterTurns(Turn(loop, round[i]), k, i + 1)
    BY <2>1, <2>2, OneTurn
  <2>4. i + 1 \in 0..k
    BY <1>1
  <2> HIDE DEF loop
  <2> QED BY <2>1, <2>3, <2>4
<1>6. AfterTurns(round[k], k, k)
  <2> HIDE DEF T
  <2>1. \A i \in 0..k : i \in T
    BY <1>1, <1>4, <1>5, EveryRound
  <2>2. k \in 0..k
    BY <1>1
  <2>3. k \in T
    BY <2>1, <2>2
  <2> QED BY <2>3 DEF T
<1> DEFINE x == round[k]
<1>7. q = IF x.skipped THEN x ELSE EndScan(x, k)
  BY <1>2, ScanIs
<1> HIDE DEF x
<1>8. CASE Skipped(x, text)
  BY <1>1, <1>7, <1>8 DEF Skipped
<1>9. CASE Paused(x, text)
  <2>1. x.offset = k /\ x.last # {} /\ x.skipped = FALSE
    <3>1. x.skipped = FALSE /\ x.offset \in Nat
      BY <1>9 DEF Paused
    <3>2. k <= x.offset /\ x.offset <= k /\ x.last # {}
      BY <1>1, <1>6, <3>1 DEF AfterTurns, x
    <3> QED BY <1>1, <3>1, <3>2
  <2>2. q = EndScan(x, x.offset)
    BY <1>7, <2>1
  <2>3. q.offset = k /\ Tracks(q.map, text, k)
    BY <1>9, <2>1, <2>2, EndScanTracks
  <2> QED BY <1>1, <2>3
<1> QED BY <1>6, <1>8, <1>9 DEF AfterTurns, ScanInv, x

(* processRange, with nothing to scan or with something.                   *)
LEMMA ProcessTracks ==
  ASSUME Len(text) \in Nat, NEW m, NEW start \in 0..Len(text), Tracks(m, text, start),
         NEW colors, NEW k \in 0..Len(text), NEW q, q = ProcessRange(m, colors, start, k, Len(text))
  PROVE  /\ q.offset \in 0..Len(text) /\ k <= q.offset /\ Tracks(q.map, text, q.offset)
<1>1. CASE start >= k
  <2>1. q = [map |-> m, color |-> colors, offset |-> start]
    BY <1>1 DEF ProcessRange
  <2> QED BY <1>1, <2>1
<1>2. CASE start < k
  <2> DEFINE p == Resumed(m, colors, start)
  <2>1. q = Scan(p, k, Len(text))
    BY <1>2 DEF ProcessRange
  <2>2. start \in Nat /\ start < Len(text)
    BY <1>2
  <2>3. Paused(p, text) /\ p.offset = start
    BY <2>2, ResumedPaused
  <2> HIDE DEF p
  <2>4. q.offset \in k..Len(text) /\ Tracks(q.map, text, q.offset)
    BY <1>2, <2>1, <2>3, ScanTracks
  <2> QED BY <2>4
<1> QED BY <1>1, <1>2

-----------------------------------------------------------------------------
(* What the head of an edit leaves of a map that was complete.             *)
Front(g, h) == {r \in g.ranges : r.end <= h}
Behind(g, h) == {r \in g.ranges : h <= r.start}

(* The front is covered by its own tokens.                                 *)
FrontCovered(g, h) ==
  \A r \in Front(g, h) :
    /\ g.tokens[r.token].start <= r.start /\ r.end <= g.tokens[r.token].end
    /\ \E q \in Front(g, h) : q.token = r.token /\ q.end = g.tokens[r.token].end

(* A range behind the head is in no token of the front, or not clean.      *)
BehindApart(m, g, h) ==
  \A r \in Behind(g, h) :
    \/ /\ g.tokens[r.token] = m.tokens[r.token]
       /\ \A q \in Front(g, h) : q.token # r.token
    \/ /\ g.tokens[r.token].end < r.end
       /\ \E q \in Front(g, h) : q.token = r.token

(* What adjustRangeContains makes of the map m at the end h of the head:   *)
(* nothing crosses h, the front is as it was but for the cut, and a token  *)
(* cut there is known by its end.                                          *)
Adjusted(m, g, h) ==
  /\ Shaped(g) /\ Apart(g.ranges) /\ Grouped(g.ranges)
  /\ Behind(g, h) = Behind(m, h)
  /\ \A r \in g.ranges : r.end <= h \/ h <= r.start
  /\ Tiled(g, h)
  /\ \A r \in Front(g, h) : \E z \in m.ranges :
       /\ z.start = r.start /\ z.state = r.state /\ r.end <= z.end
  /\ FrontCovered(g, h)
  /\ BehindApart(m, g, h)

(* Nothing is cut when the edit is at the start of the text.               *)
LEMMA AdjustNothing ==
  ASSUME NEW m, NEW b, Len(b) \in Nat, Tracks(m, b, Len(b))
  PROVE  AdjustRange(m, 0) = m /\ Adjusted(m, m, 0)
<1>1. \A r \in m.ranges : r.start \in Nat /\ r.end \in Nat /\ r.start < r.end
  BY DEF Tracks, Shaped, IsRange
<1>2. {r \in LowerBound(m, 0) : r.start < 0 /\ TokenOf(m, r).end # 0} = {}
  BY <1>1 DEF LowerBound
<1>3. AdjustRange(m, 0) = m
  BY <1>2 DEF AdjustRange
<1>4. Front(m, 0) = {}
  BY <1>1 DEF Front
<1>5. \A r \in m.ranges : r.end <= 0 \/ 0 <= r.start
  BY <1>1
<1>6. Tiled(m, 0)
  BY DEF Tiled
<1>7. FrontCovered(m, 0) /\ BehindApart(m, m, 0)
  BY <1>4 DEF FrontCovered, BehindApart
<1> QED BY <1>3, <1>4, <1>5, <1>6, <1>7 DEF Adjusted, Tracks

(* The range with the last character of the head.                          *)
LEMMA HeadRange ==
  ASSUME NEW m, NEW b, Len(b) \in Nat, Tracks(m, b, Len(b)), NEW h \in 1..Len(b)
  PROVE  \E r \in m.ranges :
           /\ LowerBound(m, h) = {r} /\ r.start < h /\ h <= r.end
           /\ \A q \in m.ranges : q = r \/ q.end <= r.start \/ r.end <= q.start
<1>1. Ordered(m.ranges)
  BY DEF Tracks, Shaped, Ordered
<1>2. \A r \in m.ranges : r.start \in Nat /\ r.end \in Nat /\ r.start < r.end
  BY <1>1 DEF Ordered, IsRange
<1>3. PICK z \in m.ranges : z.start < h /\ h <= z.end
  BY DEF Tracks, Tiled
<1>4. h \in Nat /\ z.end >= h
  BY <1>2, <1>3
<1>5. PICK r \in m.ranges :
           /\ LowerBound(m, h) = {r} /\ r.end >= h
           /\ \A q \in m.ranges : q.end >= h => q = r \/ r.end <= q.start
           /\ \A q \in m.ranges : q.end < h => q.end <= r.start
  BY <1>1, <1>4, FirstOf
<1>6. z = r
  BY <1>2, <1>3, <1>4, <1>5
<1>7. \A q \in m.ranges : q = r \/ q.end <= r.start \/ r.end <= q.start
  BY <1>2, <1>4, <1>5
<1> QED BY <1>3, <1>5, <1>6, <1>7

(* The head ends where a token ends.                                       *)
LEMMA AdjustKeeps ==
  ASSUME NEW m, NEW b, Len(b) \in Nat, Tracks(m, b, Len(b)), NEW h \in 1..Len(b),
         NEW r \in m.ranges, LowerBound(m, h) = {r}, r.start < h, h <= r.end,
         \A q \in m.ranges : q = r \/ q.end <= r.start \/ r.end <= q.start,
         TokenOf(m, r).end = h
  PROVE  AdjustRange(m, h) = m /\ Adjusted(m, m, h)
<1> DEFINE F == Front(m, h)
<1>1. \A q \in m.ranges : q.start \in Nat /\ q.end \in Nat /\ q.start < q.end
  BY DEF Tracks, Shaped, IsRange
<1>2. {q \in LowerBound(m, h) : q.start < h /\ TokenOf(m, q).end # h} = {}
  OBVIOUS
<1>3. AdjustRange(m, h) = m
  BY <1>2 DEF AdjustRange
<1>4. r.end = h
  <2>1. r.end <= TokenOf(m, r).end
    BY DEF Tracks, Covered
  <2> QED BY <1>1, <2>1
<1>5. \A q \in m.ranges : q.end <= h \/ h <= q.start
  BY <1>1, <1>4
<1>6. Tiled(m, h)
  BY DEF Tracks, Tiled
<1>7. ASSUME NEW q \in m.ranges, NEW y \in m.ranges, q.end <= h, h <= y.start
      PROVE  q.token # y.token
  <2> SUFFICES ASSUME q.token = y.token PROVE FALSE
    OBVIOUS
  <2>1. r.token = q.token
    <3>1. CASE q = r
      BY <3>1
    <3>2. CASE q # r
      <4>1. q.end <= r.start
        BY <1>1, <1>4, <1>7, <3>2
      <4>2. r.end <= y.start
        BY <1>4, <1>7
      <4> QED BY <4>1, <4>2 DEF Tracks, Grouped
    <3> QED BY <3>1, <3>2
  <2>2. y.end <= TokenOf(m, y).end
    BY DEF Tracks, Covered
  <2>3. TokenOf(m, y).end = h
    BY <2>1 DEF TokenOf
  <2> QED BY <1>1, <1>7, <2>2, <2>3
<1>8. FrontCovered(m, h)
  <2> SUFFICES ASSUME NEW q \in F
               PROVE  /\ m.tokens[q.token].start <= q.start /\ q.end <= m.tokens[q.token].end
                      /\ \E y \in F : y.token = q.token /\ y.end = m.tokens[q.token].end
    BY DEF FrontCovered
  <2>1. q \in m.ranges /\ q.end <= h
    BY DEF Front
  <2>2. m.tokens[q.token].start <= q.start /\ q.end <= m.tokens[q.token].end
    BY <2>1 DEF Tracks, Covered, TokenOf
  <2>3. PICK y \in m.ranges : y.token = q.token /\ y.end = m.tokens[q.token].end
    BY <2>1 DEF Tracks, Covered, TokenOf
  <2>4. y.end <= h
    BY <1>5, <1>7, <2>1, <2>3
  <2>5. y \in F
    BY <2>4 DEF Front
  <2> QED BY <2>2, <2>3, <2>5
<1>9. BehindApart(m, m, h)
  BY <1>7 DEF BehindApart, Behind, Front
<1>10. \A q \in F : \E z \in m.ranges :
         /\ z.start = q.start /\ z.state = q.state /\ q.end <= z.end
  BY <1>1 DEF Front
<1> QED BY <1>3, <1>5, <1>6, <1>8, <1>9, <1>10 DEF Adjusted, Tracks

(* The head ends inside a token, which is cut there.                       *)
LEMMA AdjustCuts ==
  ASSUME NEW m, NEW b, Len(b) \in Nat, Tracks(m, b, Len(b)), NEW h \in 1..Len(b),
         NEW r \in m.ranges, LowerBound(m, h) = {r}, r.start < h, h <= r.end,
         \A q \in m.ranges : q = r \/ q.end <= r.start \/ r.end <= q.start,
         TokenOf(m, r).end # h
  PROVE  Adjusted(m, AdjustRange(m, h), h)
<1> DEFINE n == EndedRange(r, h)
           k == r.token
           f == [m.tokens EXCEPT ![k].end = h, ![k].syntax = NoSyntax]
           S == (m.ranges \ {r}) \cup {n}
           g == AdjustRange(m, h)
<1>1. Shaped(m) /\ Apart(m.ranges) /\ k \in DOMAIN m.tokens
  BY DEF Tracks, Shaped
<1>2. \A q \in m.ranges : IsRange(q) /\ q.start \in Nat /\ q.end \in Nat /\ q.start < q.end
  BY <1>1 DEF Shaped, IsRange
<1>3. {q \in LowerBound(m, h) : q.start < h /\ TokenOf(m, q).end # h} = {r}
  OBVIOUS
<1>4. g = [ranges |-> S, tokens |-> f]
  <2>1. r = [start |-> r.start, end |-> r.end, state |-> r.state, token |-> r.token]
    BY <1>2 DEF IsRange
  <2>2. [r EXCEPT !.end = h] = n
    BY <2>1 DEF EndedRange
  <2>3. g = [ranges |-> (m.ranges \ {r}) \cup {[r EXCEPT !.end = h]},
             tokens |-> [m.tokens EXCEPT ![r.token].end = h, ![r.token].syntax = NoSyntax]]
    BY <1>3, TheOnly DEF AdjustRange
  <2> QED BY <2>2, <2>3
<1>5. /\ DOMAIN f = DOMAIN m.tokens
      /\ f[k] = [start |-> m.tokens[k].start, end |-> h, syntax |-> NoSyntax]
      /\ \A u \in DOMAIN m.tokens : u # k => f[u] = m.tokens[u]
  <2>1. m.tokens[k] = [start |-> m.tokens[k].start, end |-> m.tokens[k].end, syntax |-> m.tokens[k].syntax]
    BY <1>1 DEF Shaped, IsToken
  <2> QED BY <1>1, <2>1
<1>6. IsToken(f[k])
  BY <1>1, <1>5 DEF Shaped, IsToken
<1>7. IsRange(n) /\ n.start = r.start /\ n.end = h /\ n.state = r.state /\ n.token = k
  BY <1>2 DEF IsRange, EndedRange
<1> HIDE DEF f, n, g
<1>8. Shaped(g) /\ g.ranges = S /\ g.tokens = f
  <2>1. IsFiniteSet(m.ranges \ {r})
    BY <1>1, FS_Difference DEF Shaped
  <2>2. IsFiniteSet(S)
    BY <2>1, FS_AddElement
  <2>3. \A q \in S : IsRange(q) /\ q.token \in DOMAIN f
    BY <1>1, <1>2, <1>5, <1>7 DEF Shaped
  <2>4. \A u \in DOMAIN f : IsToken(f[u])
    BY <1>1, <1>5, <1>6 DEF Shaped
  <2> HIDE DEF S
  <2>5. g.ranges = S /\ g.tokens = f /\ g = [ranges |-> g.ranges, tokens |-> g.tokens]
    BY <1>4
  <2> QED BY <1>1, <1>5, <2>2, <2>3, <2>4, <2>5 DEF Shaped
<1>9. \A q \in S : q = n \/ (q \in m.ranges /\ q # r /\ (q.end <= r.start \/ r.end <= q.start))
  OBVIOUS
<1>10. n \in S /\ \A q \in m.ranges : q # r => q \in S
  OBVIOUS
<1> HIDE DEF S
<1>11. Apart(S)
  <2> SUFFICES ASSUME NEW x \in S, NEW y \in S, x # y
               PROVE  x.end <= y.start \/ y.end <= x.start
    BY DEF Apart
  <2>1. CASE x # n /\ y # n
    BY <1>1, <1>9, <2>1 DEF Apart
  <2>2. CASE x = n \/ y = n
    BY <1>2, <1>7, <1>9, <2>2
  <2> QED BY <2>1, <2>2
<1>12. Grouped(S)
  <2> SUFFICES ASSUME NEW x \in S, NEW y \in S, NEW z \in S,
                      x.token = z.token, x.end <= y.start, y.end <= z.start
               PROVE  y.token = x.token
    BY DEF Grouped
  <2>1. CASE x = n
    <3>1. y # n /\ z # n
      BY <1>2, <1>7, <1>9, <2>1
    <3>2. r.end <= y.start
      BY <1>2, <1>7, <1>9, <2>1, <3>1
    <3> QED BY <1>7, <1>9, <2>1, <3>1, <3>2 DEF Tracks, Grouped
  <2>2. CASE y = n
    <3>1. x # n /\ z # n
      BY <1>2, <1>7, <1>9, <2>2
    <3>2. r.end <= z.start
      BY <1>2, <1>7, <1>9, <2>2, <3>1
    <3> QED BY <1>7, <1>9, <2>2, <3>1, <3>2 DEF Tracks, Grouped
  <2>3. CASE z = n
    <3>1. x # n /\ y # n
      BY <1>2, <1>7, <1>9, <2>3
    <3> QED BY <1>7, <1>9, <2>3, <3>1 DEF Tracks, Grouped
  <2>4. CASE x # n /\ y # n /\ z # n
    BY <1>9, <2>4 DEF Tracks, Grouped
  <2> QED BY <2>1, <2>2, <2>3, <2>4
<1>13. Behind(g, h) = Behind(m, h)
  <2>1. ASSUME NEW q \in S, h <= q.start PROVE q \in m.ranges
    BY <1>2, <1>7, <1>9, <2>1
  <2>2. ASSUME NEW q \in m.ranges, h <= q.start PROVE q \in S
    BY <1>2, <1>10, <2>2
  <2> QED BY <1>8, <2>1, <2>2 DEF Behind
<1>14. \A q \in S : q.end <= h \/ h <= q.start
  BY <1>2, <1>7, <1>9
<1>15. Tiled(g, h)
  <2> SUFFICES ASSUME NEW i \in 1..h PROVE \E q \in S : q.start < i /\ i <= q.end
    BY <1>8 DEF Tiled
  <2>1. PICK q \in m.ranges : q.start < i /\ i <= q.end
    BY DEF Tracks, Tiled
  <2>2. CASE q = r
    BY <1>7, <1>10, <2>1, <2>2
  <2>3. CASE q # r
    BY <1>10, <2>1, <2>3
  <2> QED BY <2>2, <2>3
<1>16. ASSUME NEW q \in S, q.end <= h
       PROVE  \E z \in m.ranges : z.start = q.start /\ z.state = q.state /\ q.end <= z.end
  <2>1. CASE q = n
    BY <1>7, <2>1
  <2>2. CASE q # n
    BY <1>2, <1>9, <2>2
  <2> QED BY <2>1, <2>2
<1>17. ASSUME NEW q \in m.ranges, NEW y \in m.ranges, q.token = y.token, q.token # k,
              q.end <= h
       PROVE  y.end <= h /\ y # r
  <2>1. q # r /\ y # r
    BY <1>17
  <2>2. q.end <= r.start
    BY <1>2, <1>17, <2>1
  <2>3. ~(r.end <= y.start)
    BY <1>17, <2>2 DEF Tracks, Grouped
  <2> QED BY <1>2, <2>1, <2>3
<1>18. FrontCovered(g, h)
  <2> SUFFICES ASSUME NEW q \in S, q.end <= h
               PROVE  /\ f[q.token].start <= q.start /\ q.end <= f[q.token].end
                      /\ \E y \in S : y.end <= h /\ y.token = q.token /\ y.end = f[q.token].end
    BY <1>8 DEF FrontCovered, Front
  <2>1. CASE q.token = k
    <3>1. f[k].end = h /\ f[k].start = m.tokens[k].start
      BY <1>5
    <3>2. m.tokens[k].start <= q.start
      <4>1. CASE q = n
        BY <1>7, <4>1 DEF Tracks, Covered, TokenOf
      <4>2. CASE q # n
        BY <1>9, <2>1, <4>2 DEF Tracks, Covered, TokenOf
      <4> QED BY <4>1, <4>2
    <3> QED BY <1>7, <1>10, <2>1, <3>1, <3>2
  <2>2. CASE q.token # k
    <3>1. q \in m.ranges
      BY <1>7, <1>9, <2>2
    <3>2. f[q.token] = m.tokens[q.token]
      BY <1>1, <1>5, <2>2, <3>1 DEF Shaped
    <3>3. m.tokens[q.token].start <= q.start /\ q.end <= m.tokens[q.token].end
      BY <3>1 DEF Tracks, Covered, TokenOf
    <3>4. PICK y \in m.ranges : y.token = q.token /\ y.end = m.tokens[q.token].end
      BY <3>1 DEF Tracks, Covered, TokenOf
    <3>5. y.end <= h /\ y # r
      BY <1>17, <2>2, <3>1, <3>4
    <3> QED BY <1>10, <3>2, <3>3, <3>4, <3>5
  <2> QED BY <2>1, <2>2
<1>19. BehindApart(m, g, h)
  <2> SUFFICES ASSUME NEW q \in S, h <= q.start
               PROVE  \/ /\ f[q.token] = m.tokens[q.token]
                         /\ \A y \in S : y.end <= h => y.token # q.token
                      \/ /\ f[q.token].end < q.end
                         /\ \E y \in S : y.end <= h /\ y.token = q.token
    BY <1>8 DEF BehindApart, Behind, Front
  <2>1. q \in m.ranges
    BY <1>2, <1>7, <1>9
  <2>2. CASE q.token = k
    <3>1. n.end <= h /\ n.token = q.token
      BY <1>7, <2>2
    <3> QED BY <1>2, <1>5, <1>10, <2>1, <2>2, <3>1
  <2>3. CASE q.token # k
    <3>1. f[q.token] = m.tokens[q.token]
      BY <1>1, <1>5, <2>1, <2>3 DEF Shaped
    <3>2. ASSUME NEW y \in S, y.end <= h PROVE y.token # q.token
      <4>1. CASE y = n
        BY <1>7, <2>3, <4>1
      <4>2. CASE y # n
        <5>1. y \in m.ranges
          BY <1>9, <4>2
        <5>2. ~(q.end <= h)
          BY <1>2, <2>1
        <5> QED BY <1>17, <2>1, <2>3, <3>2, <5>1, <5>2
      <4> QED BY <4>1, <4>2
    <3> QED BY <3>1, <3>2
  <2> QED BY <2>2, <2>3
<1>20. \A q \in Front(g, h) : \E z \in m.ranges :
         /\ z.start = q.start /\ z.state = q.state /\ q.end <= z.end
  BY <1>8, <1>16 DEF Front
<1> QED BY <1>8, <1>11, <1>12, <1>13, <1>14, <1>15, <1>18, <1>19, <1>20 DEF Adjusted, g

(* adjustRangeContains, for every head.                                    *)
LEMMA AdjustedIs ==
  ASSUME NEW m, NEW b, Len(b) \in Nat, Tracks(m, b, Len(b)), NEW h \in 0..Len(b)
  PROVE  Adjusted(m, AdjustRange(m, h), h)
<1>1. CASE h = 0
  BY <1>1, AdjustNothing
<1>2. CASE h # 0
  <2>1. h \in 1..Len(b)
    BY <1>2
  <2>2. PICK r \in m.ranges :
           /\ LowerBound(m, h) = {r} /\ r.start < h /\ h <= r.end
           /\ \A q \in m.ranges : q = r \/ q.end <= r.start \/ r.end <= q.start
    BY <2>1, HeadRange
  <2>3. CASE TokenOf(m, r).end = h
    BY <2>1, <2>2, <2>3, AdjustKeeps
  <2>4. CASE TokenOf(m, r).end # h
    BY <2>1, <2>2, <2>4, AdjustCuts
  <2> QED BY <2>3, <2>4
<1> QED BY <1>1, <1>2

-----------------------------------------------------------------------------
(* What dropping has left of the map g: a range that was dropped behind    *)
(* one that is left goes with it, for that one is not clean either.        *)
Left(g, n, h, c) ==
  /\ Shaped(n) /\ n.tokens = g.tokens /\ n.ranges \subseteq g.ranges
  /\ Front(g, h) \subseteq n.ranges
  /\ \A z \in g.ranges \ n.ranges : \A q \in n.ranges :
       h < q.end /\ q.end <= z.start => q.token = z.token /\ ~IsClean(g, q, c)

(* The loop of didChangeTextDocument stops: the first range behind the     *)
(* head is clean.                                                          *)
Stable(n, h, c) == \A r \in LowerBound(n, h + 1) : IsClean(n, r, c)

(* A turn of that loop.                                                    *)
LEMMA DropTurn ==
  ASSUME NEW n, NEW h, NEW c
  PROVE  Turn(Dropping(h, c), n) = IF ~Stable(n, h, c) THEN DropOne(n, h) ELSE n
BY DEF Turn, Dropping, Stable

(* Whichever range a round drops.                                          *)
LEMMA DropsOne ==
  ASSUME NEW g, NEW n, NEW h \in Nat, NEW c, Ordered(g.ranges), Left(g, n, h, c), ~Stable(n, h, c)
  PROVE  \E w \in n.ranges :
           /\ DropOne(n, h) = Without(n, {w}) /\ h < w.end
           /\ \A q \in n.ranges : h < q.end /\ q.end <= w.start =>
                q.token = w.token /\ ~IsClean(g, q, c)
<1>1. Ordered(n.ranges) /\ \A q \in n.ranges : q.start \in Nat /\ q.end \in Nat /\ q.start < q.end
  BY DEF Left, Ordered, Apart, IsRange
<1>2. PICK r : r \in LowerBound(n, h + 1) /\ ~IsClean(n, r, c)
  BY DEF Stable
<1>3. r \in n.ranges /\ r.end >= h + 1
  BY <1>2 DEF LowerBound
<1>4. PICK x \in n.ranges :
           /\ LowerBound(n, h + 1) = {x} /\ x.end >= h + 1
           /\ \A q \in n.ranges : q.end >= h + 1 => q = x \/ x.end <= q.start
           /\ \A q \in n.ranges : q.end < h + 1 => q.end <= x.start
  BY <1>1, <1>3, FirstOf
<1>5. x = r /\ The(LowerBound(n, h + 1)) = r
  BY <1>2, <1>4, TheOnly
<1>6. ~IsClean(g, r, c)
  BY <1>2 DEF Left, IsClean, TokenOf
<1> DEFINE next == {q \in LowerBound(n, r.end + 1) : q.token = r.token}
<1>7. DropOne(n, h) = Without(n, IF next # {} THEN next ELSE {r})
  BY <1>5 DEF DropOne
<1>8. CASE next = {}
  <2>1. DropOne(n, h) = Without(n, {r})
    BY <1>7, <1>8
  <2>2. ASSUME NEW q \in n.ranges, h < q.end, q.end <= r.start PROVE FALSE
    BY <1>1, <1>3, <1>4, <1>5, <2>2
  <2>3. h < r.end
    BY <1>1, <1>3
  <2> QED BY <1>3, <2>1, <2>2, <2>3
<1>9. CASE next # {}
  <2>1. PICK w : w \in LowerBound(n, r.end + 1) /\ w.token = r.token
    BY <1>9
  <2>2. w \in n.ranges /\ w.end >= r.end + 1
    BY <2>1 DEF LowerBound
  <2>3. PICK y \in n.ranges :
           /\ LowerBound(n, r.end + 1) = {y} /\ y.end >= r.end + 1
           /\ \A q \in n.ranges : q.end >= r.end + 1 => q = y \/ y.end <= q.start
           /\ \A q \in n.ranges : q.end < r.end + 1 => q.end <= y.start
    BY <1>1, <1>3, <2>2, FirstOf
  <2>4. y = w /\ next = {w}
    BY <2>1, <2>3
  <2>5. DropOne(n, h) = Without(n, {w})
    BY <1>7, <1>9, <2>4
  <2>6. ASSUME NEW q \in n.ranges, h < q.end, q.end <= w.start PROVE q = r
    <3>1. q = r \/ r.end <= q.start
      BY <1>1, <1>4, <1>5, <2>6
    <3>2. ~(q.end >= r.end + 1)
      BY <1>1, <2>2, <2>3, <2>4, <2>6
    <3> QED BY <1>1, <1>3, <3>1, <3>2
  <2>7. h < w.end
    BY <1>1, <1>3, <2>2
  <2> QED BY <1>6, <2>1, <2>2, <2>5, <2>6, <2>7
<1> QED BY <1>8, <1>9

(* A round keeps what is left right, and removes one range.                *)
LEMMA DropStep ==
  ASSUME NEW g, NEW n, NEW h \in Nat, NEW c, Ordered(g.ranges), Left(g, n, h, c), ~Stable(n, h, c),
         NEW x, x = DropOne(n, h)
  PROVE  Left(g, x, h, c) /\ Cardinality(x.ranges) = Cardinality(n.ranges) - 1
<1>1. PICK w \in n.ranges :
           /\ DropOne(n, h) = Without(n, {w}) /\ h < w.end
           /\ \A q \in n.ranges : h < q.end /\ q.end <= w.start =>
                q.token = w.token /\ ~IsClean(g, q, c)
  BY DropsOne
<1>2. Shaped(n)
  BY DEF Left
<1>3. Shaped(x) /\ x.tokens = n.tokens /\ x.ranges = n.ranges \ {w}
  BY <1>1, <1>2, WithoutIs
<1>4. Cardinality(x.ranges) = Cardinality(n.ranges) - 1
  BY <1>2, <1>3, FS_RemoveElement DEF Shaped
<1>5. Front(g, h) \subseteq x.ranges
  <2>1. w \notin Front(g, h)
    BY <1>1, <1>2 DEF Front, Shaped, IsRange
  <2> QED BY <1>3, <2>1 DEF Left
<1>6. ASSUME NEW z \in g.ranges \ x.ranges, NEW q \in x.ranges, h < q.end, q.end <= z.start
      PROVE  q.token = z.token /\ ~IsClean(g, q, c)
  <2>1. q \in n.ranges
    BY <1>3
  <2>2. CASE z = w
    BY <1>1, <1>6, <2>1, <2>2
  <2>3. CASE z # w
    <3>1. z \in g.ranges \ n.ranges
      BY <1>3, <2>3
    <3> QED BY <1>6, <2>1, <3>1 DEF Left
  <2> QED BY <2>2, <2>3
<1> QED BY <1>3, <1>4, <1>5, <1>6 DEF Left

(* The loop ends with a clean range, or none, behind the head.             *)
LEMMA DropEnds ==
  ASSUME NEW g, NEW h \in Nat, NEW c, Shaped(g), Ordered(g.ranges),
         NEW left, left = LoopEnd(Dropping(h, c), g, Cardinality(g.ranges))
  PROVE  Left(g, left, h, c) /\ Stable(left, h, c)
<1> DEFINE N == Cardinality(g.ranges)
           loop == Dropping(h, c)
           Good(n, i) == /\ Left(g, n, h, c)
                         /\ Stable(n, h, c) \/ Cardinality(n.ranges) <= N - i
<1>1. N \in Nat
  BY FS_CardinalityType DEF Shaped
<1>2. PICK round : Rounds(round, loop, g, N) /\ left = round[N]
  BY <1>1, LoopRounds
<1> DEFINE T == {i \in 0..N : Good(round[i], i)}
<1>3. 0 \in T
  <2>1. round[0] = g
    BY <1>2 DEF Rounds
  <2>2. Left(g, g, h, c)
    BY DEF Left, Front
  <2>3. Good(g, 0)
    BY <1>1, <2>2
  <2> HIDE DEF Good, N
  <2> QED BY <1>1, <2>1, <2>3
<1> HIDE DEF N
<1>4. ASSUME NEW i \in 0..(N - 1), i \in T PROVE i + 1 \in T
  <2> DEFINE n == round[i]
             x == round[i + 1]
  <2>1. x = IF ~Stable(n, h, c) THEN DropOne(n, h) ELSE n
    BY <1>2, DropTurn DEF Rounds
  <2>2. Good(n, i)
    BY <1>4
  <2>3. Left(g, n, h, c) /\ (Stable(n, h, c) \/ Cardinality(n.ranges) <= N - i)
    BY <2>2
  <2>4. i + 1 \in 0..N
    BY <1>1
  <2> HIDE DEF n, x
  <2>5. CASE Stable(n, h, c)
    <3>1. x = n
      BY <2>1, <2>5
    <3>2. Good(x, i + 1)
      BY <2>3, <2>5, <3>1
    <3> HIDE DEF Good
    <3> QED BY <2>4, <3>2 DEF x
  <2>6. CASE ~Stable(n, h, c)
    <3>1. Left(g, x, h, c) /\ Cardinality(x.ranges) = Cardinality(n.ranges) - 1
      BY <2>1, <2>3, <2>6, DropStep
    <3>2. Cardinality(n.ranges) \in Nat
      BY <2>3, FS_CardinalityType DEF Left, Shaped
    <3> DEFINE v == Cardinality(n.ranges)
               u == Cardinality(x.ranges)
    <3>3. u = v - 1 /\ v \in Nat /\ v <= N - i
      BY <2>3, <2>6, <3>1, <3>2
    <3> HIDE DEF u, v
    <3>4. u <= N - (i + 1)
      BY <1>1, <3>3
    <3>5. Good(x, i + 1)
      BY <3>1, <3>4 DEF u
    <3> HIDE DEF Good
    <3> QED BY <2>4, <3>5 DEF x
  <2> QED BY <2>5, <2>6
<1>5. Good(left, N)
  <2> HIDE DEF T
  <2>1. \A i \in 0..N : i \in T
    BY <1>1, <1>3, <1>4, EveryRound
  <2>2. N \in 0..N
    BY <1>1
  <2>3. N \in T
    BY <2>1, <2>2
  <2> QED BY <1>2, <2>3 DEF T
<1>6. Left(g, left, h, c) /\ (Stable(left, h, c) \/ Cardinality(left.ranges) <= N - N)
  BY <1>5
<1>7. CASE Cardinality(left.ranges) <= N - N
  <2>1. Cardinality(left.ranges) \in Nat /\ IsFiniteSet(left.ranges)
    BY <1>6, FS_CardinalityType DEF Left, Shaped
  <2> DEFINE v == Cardinality(left.ranges)
  <2>2. v \in Nat /\ v <= N - N
    BY <1>7, <2>1
  <2> HIDE DEF v
  <2>3. v = 0
    BY <1>1, <2>2
  <2>4. left.ranges = {}
    BY <2>1, <2>3, FS_EmptySet DEF v
  <2>5. Stable(left, h, c)
    BY <2>4 DEF Stable, LowerBound
  <2> QED BY <1>6, <2>5
<1> QED BY <1>6, <1>7

-----------------------------------------------------------------------------
(* The ranges behind the head that are left.                               *)
Kept(n, h) == {r \in n.ranges : h < r.end}

(* What is left behind the head is clean, whole tokens, and all of the     *)
(* text from there on.                                                     *)
CleanBehind(m, g, K, h, c) ==
  /\ K \subseteq Behind(m, h)
  /\ \A r \in K : c < r.start
  /\ \A r \in K, z \in Behind(m, h) : r.end <= z.start => z \in K
  /\ \A r \in K : /\ g.tokens[r.token] = m.tokens[r.token]
                  /\ \A q \in Front(g, h) : q.token # r.token

(* Whatever is left behind the head when the loop stops is clean and       *)
(* whole: no token of it was cut or reaches into what was edited.          *)
LEMMA KeptIsClean ==
  ASSUME NEW m, Shaped(m), NEW h \in Nat, NEW c \in Int, NEW g, Adjusted(m, g, h),
         NEW n, Left(g, n, h, c), Stable(n, h, c),
         NEW r \in Kept(n, h)
  PROVE  /\ r \in Behind(m, h) /\ c < r.start
         /\ \A z \in Behind(m, h) : r.end <= z.start => z \in Kept(n, h)
         /\ g.tokens[r.token] = m.tokens[r.token]
         /\ \A q \in Front(g, h) : q.token # r.token
         /\ \E f \in Kept(n, h) : /\ LowerBound(n, h + 1) = {f}
                                  /\ Kept(n, h) = {x \in n.ranges : x.end >= f.end}
<1>1. Shaped(g) /\ Apart(g.ranges) /\ n.ranges \subseteq g.ranges /\ n.tokens = g.tokens
  BY DEF Adjusted, Left
<1>2. \A q \in g.ranges : q.start \in Nat /\ q.end \in Nat /\ q.start < q.end /\ IsRange(q)
  BY <1>1 DEF Shaped, IsRange
<1>3. Ordered(n.ranges)
  BY <1>1, <1>2 DEF Ordered, Apart
<1>4. r \in n.ranges /\ r \in g.ranges /\ r.end >= h + 1
  BY <1>1, <1>2 DEF Kept
<1>5. ASSUME NEW x \in Kept(n, h) PROVE x \in Behind(m, h) /\ h <= x.start
  <2>1. x \in g.ranges /\ h < x.end
    BY <1>1, <1>5 DEF Kept
  <2>2. h <= x.start
    BY <1>2, <2>1 DEF Adjusted
  <2>3. x \in Behind(g, h)
    BY <2>1, <2>2 DEF Behind
  <2> QED BY <2>2, <2>3 DEF Adjusted
<1>6. PICK f \in n.ranges :
           /\ LowerBound(n, h + 1) = {f} /\ f.end >= h + 1
           /\ \A q \in n.ranges : q.end >= h + 1 => q = f \/ f.end <= q.start
           /\ \A q \in n.ranges : q.end < h + 1 => q.end <= f.start
  BY <1>3, <1>4, FirstOf
<1>7. f \in g.ranges /\ f \in Kept(n, h)
  BY <1>1, <1>2, <1>6 DEF Kept
<1>8. IsClean(g, f, c)
  <2>1. IsClean(n, f, c)
    BY <1>6 DEF Stable
  <2> QED BY <1>1, <2>1 DEF IsClean, TokenOf
<1>9. c < f.start /\ f.end <= g.tokens[f.token].end
  BY <1>2, <1>7, <1>8 DEF IsClean, TokenOf
<1>10. r = f \/ f.end <= r.start
  BY <1>4, <1>6
<1>11. c < r.start
  BY <1>2, <1>4, <1>7, <1>9, <1>10
<1>12. ASSUME NEW z \in Behind(m, h), r.end <= z.start PROVE z \in Kept(n, h)
  <2>1. z \in g.ranges
    BY DEF Adjusted, Behind
  <2>2. z \in n.ranges
    <3> SUFFICES ASSUME z \notin n.ranges PROVE FALSE
      OBVIOUS
    <3>1. f.end <= z.start /\ h < f.end
      BY <1>2, <1>4, <1>6, <1>7, <1>10, <1>12, <2>1
    <3>2. ~IsClean(g, f, c)
      BY <2>1, <3>1 DEF Left
    <3> QED BY <1>8, <3>2
  <2>3. h < z.end
    BY <1>2, <1>4, <1>12, <2>1
  <2> QED BY <2>2, <2>3 DEF Kept
<1>13. \A q \in Front(g, h) : q.token # f.token
  <2>1. f \in Behind(g, h)
    BY <1>5, <1>7 DEF Behind
  <2>2. ~(g.tokens[f.token].end < f.end)
    <3>1. g.tokens[f.token].end \in Int
      BY <1>1, <1>7 DEF Shaped, IsToken
    <3> QED BY <1>2, <1>7, <1>9, <3>1
  <2> QED BY <2>1, <2>2 DEF Adjusted, BehindApart
<1>14. ASSUME NEW q \in Front(g, h) PROVE q.token # r.token
  <2>1. q \in g.ranges /\ q.end <= h
    BY DEF Front
  <2>2. CASE r = f
    BY <1>13, <2>2
  <2>3. CASE r # f
    <3>1. f.end <= r.start /\ q.end <= f.start
      BY <1>2, <1>5, <1>7, <1>10, <2>1, <2>3
    <3>2. q.token = r.token => f.token = q.token
      BY <1>4, <1>7, <2>1, <3>1 DEF Adjusted, Grouped
    <3> QED BY <1>13, <3>2
  <2> QED BY <2>2, <2>3
<1>15. g.tokens[r.token] = m.tokens[r.token]
  <2>1. r \in Behind(g, h)
    BY <1>4, <1>5 DEF Behind
  <2> QED BY <1>14, <2>1 DEF Adjusted, BehindApart
<1>16. Kept(n, h) = {x \in n.ranges : x.end >= f.end}
  <2>1. ASSUME NEW x \in n.ranges PROVE h < x.end <=> x.end >= f.end
    BY <1>1, <1>2, <1>6, <1>7
  <2> QED BY <2>1 DEF Kept
<1> QED BY <1>5, <1>6, <1>7, <1>11, <1>12, <1>14, <1>15, <1>16

-----------------------------------------------------------------------------
(* A range and a token that relocateRanges has moved.                      *)
MovedRange(r, d) ==
  [start |-> r.start + d, end |-> r.end + d, state |-> r.state, token |-> r.token]

MovedToken(k, d) == [start |-> k.start + d, end |-> k.end + d, syntax |-> k.syntax]

(* The map g with the ranges of K moved and no others behind the head.     *)
Moves(m, g, K, x, h, d) ==
  /\ Shaped(x)
  /\ x.ranges = Front(g, h) \cup {MovedRange(r, d) : r \in K}
  /\ \A r \in Front(g, h) : x.tokens[r.token] = g.tokens[r.token]
  /\ \A r \in K : x.tokens[r.token] = MovedToken(m.tokens[r.token], d)

(* The map n with the ranges of K and their tokens moved.                  *)
Relocated(n, K, x, d) ==
  /\ Shaped(x)
  /\ x.ranges = (n.ranges \ K) \cup {MovedRange(r, d) : r \in K}
  /\ \A u \in DOMAIN n.tokens :
       x.tokens[u] = IF u \in {r.token : r \in K} THEN MovedToken(n.tokens[u], d)
                     ELSE n.tokens[u]

(* relocateRanges moves each range once, and each token once.              *)
LEMMA RelocateIs ==
  ASSUME NEW n, Shaped(n), NEW f, NEW K, K = {r \in n.ranges : r.end >= f.end}, NEW d \in Int,
         \A r \in K : r.start + d \in Nat,
         NEW x, x = Relocate(n, f, d)
  PROVE  Relocated(n, K, x, d)
<1> DEFINE owners == {r.token : r \in K}
           Shift(y) == [y EXCEPT !.start = @ + d, !.end = @ + d]
           S == (n.ranges \ K) \cup {MovedRange(r, d) : r \in K}
           F == [u \in DOMAIN n.tokens |-> IF u \in owners THEN Shift(n.tokens[u]) ELSE n.tokens[u]]
<1>1. \A r \in n.ranges : IsRange(r) /\ r.token \in DOMAIN n.tokens
  BY DEF Shaped
<1>2. ASSUME NEW r \in n.ranges PROVE Shift(r) = MovedRange(r, d)
  <2> DEFINE z == Shift(r)
  <2>1. DOMAIN z = {"start", "end", "state", "token"} /\ z = [i \in DOMAIN z |-> z[i]]
    BY <1>1 DEF IsRange
  <2>2. z.start = r.start + d /\ z.end = r.end + d /\ z.state = r.state /\ z.token = r.token
    BY <1>1 DEF IsRange
  <2> HIDE DEF z
  <2>3. z = MovedRange(r, d)
    BY <2>1, <2>2 DEF MovedRange
  <2> QED BY <2>3 DEF z
<1>3. ASSUME NEW u \in DOMAIN n.tokens
      PROVE  /\ Shift(n.tokens[u]) = MovedToken(n.tokens[u], d) /\ IsToken(MovedToken(n.tokens[u], d))
             /\ IsToken(n.tokens[u])
  <2> DEFINE k == n.tokens[u]
  <2>1. IsToken(k)
    BY DEF Shaped
  <2> HIDE DEF k
  <2>2. Shift(k) = MovedToken(k, d)
    <3> DEFINE z == Shift(k)
    <3>1. DOMAIN z = {"start", "end", "syntax"} /\ z = [i \in DOMAIN z |-> z[i]]
      BY <2>1 DEF IsToken
    <3>2. z.start = k.start + d /\ z.end = k.end + d /\ z.syntax = k.syntax
      BY <2>1 DEF IsToken
    <3> HIDE DEF z
    <3>3. z = MovedToken(k, d)
      BY <3>1, <3>2 DEF MovedToken
    <3> QED BY <3>3 DEF z
  <2>3. IsToken(MovedToken(k, d))
    BY <2>1 DEF MovedToken, IsToken
  <2> QED BY <2>1, <2>2, <2>3 DEF k
<1>4. x = [ranges |-> (n.ranges \ K) \cup {Shift(r) : r \in K}, tokens |-> F]
  BY Zenon DEF Relocate
<1> HIDE DEF Shift
<1>5. {Shift(r) : r \in K} = {MovedRange(r, d) : r \in K}
  BY <1>2
<1>6. x = [ranges |-> S, tokens |-> F]
  BY <1>4, <1>5
<1>7. \A u \in DOMAIN n.tokens : F[u] = IF u \in owners THEN MovedToken(n.tokens[u], d) ELSE n.tokens[u]
  BY <1>3
<1>8. DOMAIN F = DOMAIN n.tokens
  OBVIOUS
<1> HIDE DEF F
<1>9. \A u \in DOMAIN F : IsToken(F[u])
  BY <1>3, <1>7, <1>8
<1>10. ASSUME NEW r \in K PROVE IsRange(MovedRange(r, d)) /\ MovedRange(r, d).token \in DOMAIN F
  <2>1. r \in n.ranges /\ r.start \in Nat /\ r.end \in Nat /\ r.start < r.end /\ r.start + d \in Nat
    BY <1>1 DEF IsRange
  <2>2. MovedRange(r, d).token \in DOMAIN F
    BY <1>1, <1>8, <2>1 DEF MovedRange
  <2> QED BY <2>1, <2>2 DEF MovedRange, IsRange
<1>11. IsFiniteSet(S)
  <2> DEFINE I == {MovedRange(r, d) : r \in K}
  <2>1. IsFiniteSet(K)
    BY FS_Subset DEF Shaped
  <2>2. IsFiniteSet(I)
    <3> DEFINE img == [r \in K |-> MovedRange(r, d)]
    <3>1. img \in Surjection(K, I)
      BY DEF Surjection
    <3> HIDE DEF img, I
    <3> QED BY <2>1, <3>1, FS_Surjection
  <2>3. IsFiniteSet(n.ranges \ K)
    BY FS_Difference DEF Shaped
  <2> HIDE DEF I
  <2>4. IsFiniteSet((n.ranges \ K) \cup I)
    BY <2>2, <2>3, FS_Union
  <2> QED BY <2>4 DEF I
<1>12. \A r \in S : IsRange(r) /\ r.token \in DOMAIN F
  BY <1>1, <1>8, <1>10
<1> HIDE DEF S
<1>13. x.ranges = S /\ x.tokens = F /\ x = [ranges |-> x.ranges, tokens |-> x.tokens]
  BY <1>6
<1>14. Shaped(x)
  BY <1>8, <1>9, <1>11, <1>12, <1>13 DEF Shaped
<1> QED BY <1>7, <1>13, <1>14 DEF S, Relocated

-----------------------------------------------------------------------------
(* The loop of DropDirty.                                                  *)
LEMMA DropIs ==
  ASSUME NEW g, NEW h, NEW c, NEW d
  PROVE  DropDirty(g, h, c, d) =
         LET left == LoopEnd(Dropping(h, c), g, Cardinality(g.ranges))
             first == LowerBound(left, h + 1)
         IN  IF first = {} THEN left ELSE Relocate(left, The(first), d)
BY DEF DropDirty, While, LoopEnd, IsLoop, Turn, Dropping

(* The loop and the relocation together.                                   *)
LEMMA DropDirtyMoves ==
  ASSUME NEW m, Shaped(m), NEW h \in Nat, NEW c \in Int, NEW d \in Int, h <= c + d,
         NEW g, Adjusted(m, g, h), NEW x, x = DropDirty(g, h, c, d)
  PROVE  \E K : CleanBehind(m, g, K, h, c) /\ Moves(m, g, K, x, h, d)
<1> DEFINE n == LoopEnd(Dropping(h, c), g, Cardinality(g.ranges))
           first == LowerBound(n, h + 1)
           K == Kept(n, h)
<1>1. Shaped(g) /\ Ordered(g.ranges)
  BY DEF Adjusted, Shaped, Ordered
<1>2. Left(g, n, h, c) /\ Stable(n, h, c)
  BY <1>1, DropEnds
<1>3. x = IF first = {} THEN n ELSE Relocate(n, The(first), d)
  BY DropIs
<1> HIDE DEF n
<1>4. Shaped(n) /\ n.tokens = g.tokens /\ n.ranges \subseteq g.ranges
  BY <1>2 DEF Left
<1>5. CleanBehind(m, g, K, h, c)
  <2>1. \A r \in K :
          /\ r \in Behind(m, h) /\ c < r.start
          /\ \A z \in Behind(m, h) : r.end <= z.start => z \in K
          /\ g.tokens[r.token] = m.tokens[r.token]
          /\ \A q \in Front(g, h) : q.token # r.token
    BY <1>2, KeptIsClean
  <2> HIDE DEF K
  <2> QED BY <2>1 DEF CleanBehind
<1>6. n.ranges \ K = Front(g, h)
  <2>1. \A r \in g.ranges : r.end \in Nat
    BY <1>1 DEF Ordered, IsRange
  <2>2. Front(g, h) \subseteq n.ranges
    BY <1>2 DEF Left
  <2> QED BY <1>4, <2>1, <2>2 DEF Front, Kept
<1>7. CASE K = {}
  <2>1. first = {}
    <3> SUFFICES ASSUME NEW r \in first PROVE FALSE
      OBVIOUS
    <3>1. r \in n.ranges /\ r.end >= h + 1
      BY DEF LowerBound
    <3>2. r.end \in Nat
      BY <1>4, <3>1 DEF Shaped, IsRange
    <3>3. r \in K
      BY <3>1, <3>2 DEF Kept
    <3> QED BY <1>7, <3>3
  <2>2. x = n
    BY <1>3, <2>1
  <2>3. Moves(m, g, K, x, h, d)
    BY <1>4, <1>6, <1>7, <2>2 DEF Moves
  <2> QED BY <1>5, <2>3
<1>8. CASE K # {}
  <2>1. PICK r : r \in K
    BY <1>8
  <2>2. PICK f \in K : first = {f} /\ K = {y \in n.ranges : y.end >= f.end}
    BY <1>2, <2>1, KeptIsClean
  <2>3. x = Relocate(n, f, d)
    BY <1>3, <2>2, TheOnly
  <2>4. ASSUME NEW y \in K PROVE y.start + d \in Nat
    <3>1. y \in n.ranges /\ c < y.start
      BY <1>5 DEF CleanBehind, Kept
    <3>2. y.start \in Nat
      BY <1>4, <3>1 DEF Shaped, IsRange
    <3> QED BY <3>1, <3>2
  <2> HIDE DEF K, first
  <2>9. /\ Shaped(n) /\ K = {y \in n.ranges : y.end >= f.end}
        /\ \A y \in K : y.start + d \in Nat
        /\ x = Relocate(n, f, d)
    BY <1>4, <2>2, <2>3, <2>4
  <2>5. /\ Shaped(x)
        /\ x.ranges = (n.ranges \ K) \cup {MovedRange(y, d) : y \in K}
        /\ \A u \in DOMAIN n.tokens :
             x.tokens[u] = IF u \in {y.token : y \in K} THEN MovedToken(n.tokens[u], d)
                           ELSE n.tokens[u]
    <3>1. Relocated(n, K, x, d)
      BY <2>9, RelocateIs
    <3> QED BY <3>1 DEF Relocated
  <2>6. ASSUME NEW y \in Front(g, h) PROVE x.tokens[y.token] = g.tokens[y.token]
    <3>1. y.token \in DOMAIN n.tokens
      BY <1>1, <1>4 DEF Front, Shaped
    <3>2. y.token \notin {z.token : z \in K}
      BY <1>5 DEF CleanBehind
    <3> QED BY <1>4, <2>5, <3>1, <3>2
  <2>7. ASSUME NEW y \in K PROVE x.tokens[y.token] = MovedToken(m.tokens[y.token], d)
    <3>1. y.token \in DOMAIN n.tokens
      BY <1>4 DEF K, Kept, Shaped
    <3>2. y.token \in {z.token : z \in K}
      OBVIOUS
    <3>3. n.tokens[y.token] = m.tokens[y.token]
      BY <1>4, <1>5 DEF CleanBehind
    <3> QED BY <2>5, <3>1, <3>2, <3>3
  <2>8. Moves(m, g, K, x, h, d)
    BY <1>6, <2>5, <2>6, <2>7 DEF Moves, K
  <2> QED BY <1>5, <2>8
<1> QED BY <1>7, <1>8

(* How the text after an edit follows from the text b before it.           *)
Edited(t, b, h, c, d) ==
  /\ Len(t) = Len(b) + d
  /\ h <= c + d /\ c + d <= Len(t)
  /\ \A i \in 1..h : t[i] = b[i]
  /\ \A i \in (c + 1)..Len(b) : t[i + d] = b[i]

(* Behind the head the moved ranges fit the text after the edit, and       *)
(* follow each other to its end; up to the head the map is right.          *)
LEMMA MovedTracks ==
  ASSUME NEW m, NEW b, Len(b) \in Nat, Tracks(m, b, Len(b)),
         NEW t, Len(t) \in Nat, NEW h \in 0..Len(b), NEW c \in Int, NEW d \in Int,
         Edited(t, b, h, c, d),
         NEW g, Adjusted(m, g, h), NEW K, CleanBehind(m, g, K, h, c),
         NEW x, Moves(m, g, K, x, h, d)
  PROVE  Tracks(x, t, h)
<1> DEFINE F == Front(g, h)
           X == x.ranges
           L == Len(b)
           M(r) == MovedRange(r, d)
<1>1. /\ h \in Nat /\ L \in Nat /\ Len(t) = L + d /\ h <= c + d /\ h <= Len(t)
  BY DEF Edited
<1>2. \A r \in m.ranges : r.start \in Nat /\ r.end \in Nat /\ r.start < r.end /\ r.end <= L
  BY DEF Tracks, Shaped, IsRange, Placed
<1>3. \A r \in F : /\ r \in g.ranges /\ r.start \in Nat /\ r.end \in Nat /\ r.start < r.end
                   /\ r.end <= h
  BY DEF Front, Adjusted, Shaped, IsRange
<1>4. ASSUME NEW r \in K
      PROVE  /\ r \in m.ranges /\ h <= r.start /\ c < r.start
             /\ M(r).start = r.start + d /\ M(r).end = r.end + d
             /\ M(r).token = r.token /\ M(r).state = r.state
             /\ M(r).start \in Nat /\ M(r).end \in Nat /\ h < M(r).start /\ M(r).start < M(r).end
             /\ M(r).end <= Len(t) /\ M(r) \in X
  <2>1. r \in m.ranges /\ h <= r.start /\ c < r.start
    BY DEF CleanBehind, Behind
  <2>2. r.start \in Nat /\ r.end \in Nat /\ r.start < r.end /\ r.end <= L
    BY <1>2, <2>1
  <2>3. /\ M(r).start = r.start + d /\ M(r).end = r.end + d
        /\ M(r).token = r.token /\ M(r).state = r.state
    BY DEF MovedRange
  <2>4. h < r.start + d /\ r.start + d \in Nat /\ r.end + d \in Nat
    BY <1>1, <2>1, <2>2
  <2>5. M(r) \in X
    BY DEF Moves
  <2> HIDE DEF M
  <2>6. r.start + d < r.end + d /\ r.end + d <= L + d
    BY <1>1, <2>2
  <2> QED BY <1>1, <2>1, <2>3, <2>4, <2>5, <2>6
<1>5. \A r \in F : r \in X
  BY DEF Moves
<1>6. ASSUME NEW y \in X PROVE y \in F \/ \E r \in K : y = M(r)
  BY DEF Moves
<1>7. \A r \in K, z \in m.ranges : r.end <= z.start => z \in K
  <2>1. ASSUME NEW r \in K, NEW z \in m.ranges, r.end <= z.start PROVE z \in Behind(m, h)
    BY <1>1, <1>2, <1>4, <2>1 DEF Behind
  <2> QED BY <2>1 DEF CleanBehind
<1>8. \A r \in K, q \in F : q.token # r.token
  BY DEF CleanBehind
<1> HIDE DEF F, X, M, L
<1>9. ASSUME NEW y \in X PROVE y \in F \/ h < y.start
  BY <1>4, <1>6
<1>10. Apart(X)
  <2> SUFFICES ASSUME NEW y \in X, NEW z \in X, y # z PROVE y.end <= z.start \/ z.end <= y.start
    BY DEF Apart
  <2>1. CASE y \in F /\ z \in F
    BY <1>3, <2>1 DEF Adjusted, Apart
  <2>2. CASE y \in F /\ z \notin F
    BY <1>1, <1>3, <1>4, <1>6, <2>2
  <2>3. CASE y \notin F /\ z \in F
    BY <1>1, <1>3, <1>4, <1>6, <2>3
  <2>4. CASE y \notin F /\ z \notin F
    <3>1. PICK r \in K : y = M(r)
      BY <1>6, <2>4
    <3>2. PICK q \in K : z = M(q)
      BY <1>6, <2>4
    <3>3. r.end <= q.start \/ q.end <= r.start
      BY <1>4, <3>1, <3>2 DEF Tracks, Apart
    <3>4. /\ r.start \in Nat /\ r.end \in Nat /\ q.start \in Nat /\ q.end \in Nat
          /\ y.start = r.start + d /\ y.end = r.end + d
          /\ z.start = q.start + d /\ z.end = q.end + d
      BY <1>2, <1>4, <3>1, <3>2
    <3> QED BY <3>3, <3>4
  <2> QED BY <2>1, <2>2, <2>3, <2>4
<1>11. Covered(x)
  <2> SUFFICES ASSUME NEW y \in X
               PROVE  /\ x.tokens[y.token].start <= y.start /\ y.end <= x.tokens[y.token].end
                      /\ \E z \in X : z.token = y.token /\ z.end = x.tokens[y.token].end
    BY DEF Covered, TokenOf, X
  <2>1. CASE y \in F
    <3>1. x.tokens[y.token] = g.tokens[y.token]
      BY <2>1 DEF Moves, F
    <3>2. /\ g.tokens[y.token].start <= y.start /\ y.end <= g.tokens[y.token].end
          /\ \E z \in F : z.token = y.token /\ z.end = g.tokens[y.token].end
      BY <2>1 DEF Adjusted, FrontCovered, F
    <3> QED BY <1>5, <3>1, <3>2
  <2>2. CASE y \notin F
    <3>1. PICK r \in K : y = M(r)
      BY <1>6, <2>2
    <3> DEFINE k == m.tokens[r.token]
    <3>2. k.start <= r.start /\ r.end <= k.end /\ k.start \in Int /\ k.end \in Int
      BY <1>4 DEF Tracks, Covered, TokenOf, Shaped, IsToken
    <3>3. PICK q \in m.ranges : q.token = r.token /\ q.end = k.end
      BY <1>4 DEF Tracks, Covered, TokenOf
    <3>4. q \in K
      <4>1. q = r \/ r.end <= q.start
        BY <1>2, <1>4, <3>2, <3>3 DEF Tracks, Apart
      <4> QED BY <1>7, <4>1
    <3>5. x.tokens[y.token] = MovedToken(k, d)
      BY <1>4, <3>1 DEF Moves
    <3> HIDE DEF k
    <3>6. x.tokens[y.token].start = k.start + d /\ x.tokens[y.token].end = k.end + d
      BY <3>5 DEF MovedToken
    <3>7. M(q) \in X /\ M(q).token = y.token /\ M(q).end = k.end + d
      BY <1>4, <3>1, <3>3, <3>4
    <3>8. k.start + d <= y.start /\ y.end <= k.end + d
      <4>1. r \in m.ranges /\ y.start = r.start + d /\ y.end = r.end + d
        BY <1>4, <3>1
      <4>2. r.start \in Nat /\ r.end \in Nat
        BY <1>2, <4>1
      <4> QED BY <3>2, <4>1, <4>2
    <3> QED BY <3>6, <3>7, <3>8
  <2> QED BY <2>1, <2>2
<1>12. Grouped(X)
  <2> SUFFICES ASSUME NEW q \in X, NEW r \in X, NEW z \in X,
                      q.token = z.token, q.end <= r.start, r.end <= z.start
               PROVE  r.token = q.token
    BY DEF Grouped
  <2>1. CASE q \in F /\ z \in F
    <3>1. r \in F
      BY <1>1, <1>3, <1>4, <1>6, <2>1
    <3> QED BY <1>3, <2>1, <3>1 DEF Adjusted, Grouped
  <2>2. CASE q \in F /\ z \notin F
    BY <1>4, <1>6, <1>8, <2>2
  <2>3. CASE q \notin F
    <3>1. PICK q1 \in K : q = M(q1)
      BY <1>6, <2>3
    <3>2. r \notin F
      BY <1>1, <1>3, <1>4, <3>1
    <3>3. PICK r1 \in K : r = M(r1)
      BY <1>6, <3>2
    <3>4. z \notin F
      BY <1>1, <1>3, <1>4, <3>3
    <3>5. PICK z1 \in K : z = M(z1)
      BY <1>6, <3>4
    <3>6. q1.end <= r1.start /\ r1.end <= z1.start
      <4>1. /\ q1.end \in Nat /\ r1.start \in Nat /\ r1.end \in Nat /\ z1.start \in Nat
            /\ q.end = q1.end + d /\ r.start = r1.start + d
            /\ r.end = r1.end + d /\ z.start = z1.start + d
        <5>1. q1 \in m.ranges /\ q.end = q1.end + d
          BY <1>4, <3>1
        <5>2. r1 \in m.ranges /\ r.start = r1.start + d /\ r.end = r1.end + d
          BY <1>4, <3>3
        <5>3. z1 \in m.ranges /\ z.start = z1.start + d
          BY <1>4, <3>5
        <5>4. q1.end \in Nat /\ r1.start \in Nat /\ r1.end \in Nat /\ z1.start \in Nat
          BY <1>2, <5>1, <5>2, <5>3
        <5> QED BY <5>1, <5>2, <5>3, <5>4
      <4>2. q1.end + d <= r1.start + d /\ r1.end + d <= z1.start + d
        BY <4>1
      <4> DEFINE e1 == q1.end
                 s2 == r1.start
                 e2 == r1.end
                 s3 == z1.start
      <4>3. /\ e1 \in Nat /\ s2 \in Nat /\ e1 + d <= s2 + d
            /\ e2 \in Nat /\ s3 \in Nat /\ e2 + d <= s3 + d
        BY <4>1, <4>2
      <4> HIDE DEF e1, s2, e2, s3
      <4>4. e1 <= s2 /\ e2 <= s3
        BY <4>3
      <4> QED BY <4>4 DEF e1, s2, e2, s3
    <3>7. q1.token = z1.token
      BY <1>4, <3>1, <3>5
    <3>8. r1.token = q1.token
      BY <1>4, <3>6, <3>7 DEF Tracks, Grouped
    <3> QED BY <1>4, <3>1, <3>3, <3>8
  <2> QED BY <2>1, <2>2, <2>3
<1>13. Placed(X, t, h)
  <2> SUFFICES ASSUME NEW y \in X
               PROVE  y.end <= Len(t) /\ (y.end <= h \/ (h <= y.start /\ 0 < y.start))
    BY DEF Placed
  <2>1. CASE y \in F
    BY <1>1, <1>3, <2>1
  <2>2. CASE y \notin F
    <3>1. PICK r \in K : y = M(r)
      BY <1>6, <2>2
    <3> QED BY <1>1, <1>4, <3>1
  <2> QED BY <2>1, <2>2
<1>14. Chained(X, t, h)
  <2> SUFFICES ASSUME NEW y \in X, h <= y.start, y.end # Len(t)
               PROVE  \E z \in X : z.start = y.end
    BY DEF Chained
  <2>1. y \notin F
    BY <1>1, <1>3
  <2>2. PICK r \in K : y = M(r)
    BY <1>6, <2>1
  <2>3. r \in m.ranges /\ r.end # L /\ r.end + 1 \in 1..L
    <3>1. r \in m.ranges /\ y.end = r.end + d
      BY <1>4, <2>2
    <3>2. r.end \in Nat /\ r.end <= L
      BY <1>2, <3>1
    <3> QED BY <1>1, <3>1, <3>2
  <2>4. PICK q \in m.ranges : q.start < r.end + 1 /\ r.end + 1 <= q.end
    BY <2>3 DEF Tracks, Tiled, L
  <2>5. q.start = r.end
    BY <1>2, <2>3, <2>4 DEF Tracks, Apart
  <2>6. q \in K
    BY <1>2, <1>7, <2>3, <2>5
  <2>7. M(q) \in X /\ M(q).start = y.end
    BY <1>4, <2>2, <2>5, <2>6
  <2> QED BY <2>7
<1>15. Parted(X, h)
  <2> SUFFICES ASSUME NEW q \in X, NEW r \in X, q.end <= h, h <= r.start
               PROVE  q.token # r.token
    BY DEF Parted
  <2>1. q \in F
    BY <1>1, <1>4, <1>6
  <2>2. r \notin F
    BY <1>1, <1>3
  <2>3. PICK r1 \in K : r = M(r1)
    BY <1>6, <2>2
  <2> QED BY <1>4, <1>8, <2>1, <2>3
<1>16. Tiled(x, h)
  <2> SUFFICES ASSUME NEW i \in 1..h PROVE \E r \in X : r.start < i /\ i <= r.end
    BY DEF Tiled, X
  <2>1. PICK r \in g.ranges : r.start < i /\ i <= r.end
    BY DEF Adjusted, Tiled
  <2>2. r.end <= h
    <3>1. r.start \in Nat /\ (r.end <= h \/ h <= r.start)
      BY DEF Adjusted, Shaped, IsRange
    <3> QED BY <1>1, <2>1, <3>1
  <2>3. r \in X
    BY <1>5, <2>2 DEF F, Front
  <2> QED BY <2>1, <2>3
<1>17. ASSUME NEW y \in F
       PROVE  \E z \in m.ranges : z.start = y.start /\ z.state = y.state /\ y.end <= z.end
  BY DEF Adjusted, F
<1>18. \A i \in 1..h : t[i] = b[i]
  BY DEF Edited
<1>19. \A i \in (c + 1)..L : t[i + d] = b[i]
  BY DEF Edited, L
<1>20. \A r \in m.ranges :
         /\ \A i \in (r.start + 2)..r.end : NextState(r.state, b[i]) = r.state
         /\ r.start = 0 => r.state = FirstState(b[1])
         /\ r.start # L => \A q \in m.ranges :
              q.end = r.start => r.state = NextState(q.state, b[r.start + 1])
  BY DEF Tracks, RunsMachine, L
<1>21. RunsMachine(x, t, h)
  <2> SUFFICES ASSUME NEW y \in X
               PROVE  /\ \A i \in (y.start + 2)..y.end : NextState(y.state, t[i]) = y.state
                      /\ y.start = 0 => y.state = FirstState(t[1])
                      /\ y.start # h => \A q \in X :
                           q.end = y.start => y.state = NextState(q.state, t[y.start + 1])
    BY DEF RunsMachine, X
  <2>1. CASE y \in F
    <3>1. PICK z \in m.ranges : z.start = y.start /\ z.state = y.state /\ y.end <= z.end
      BY <1>17, <2>1
    <3>2. y.start \in Nat /\ y.end \in Nat /\ y.start < y.end /\ y.end <= h
      BY <1>3, <2>1
    <3>3. z.start # L
      BY <1>2, <3>1
    <3>4. ASSUME NEW i \in (y.start + 2)..y.end PROVE NextState(y.state, t[i]) = y.state
      <4>1. i \in (z.start + 2)..z.end /\ i \in 1..h
        BY <1>1, <1>2, <3>1, <3>2
      <4> QED BY <1>18, <1>20, <3>1, <4>1
    <3>5. ASSUME y.start = 0 PROVE y.state = FirstState(t[1])
      <4>1. 1 \in 1..h
        BY <1>1, <3>2
      <4> QED BY <1>18, <1>20, <3>1, <3>5, <4>1
    <3>6. ASSUME NEW q \in X, q.end = y.start
          PROVE  y.state = NextState(q.state, t[y.start + 1])
      <4>1. q \in F
        BY <1>1, <1>4, <1>6, <3>2, <3>6
      <4>2. PICK z1 \in m.ranges : z1.start = q.start /\ z1.state = q.state /\ q.end <= z1.end
        BY <1>17, <4>1
      <4>3. q.start < q.end /\ q.start \in Nat
        BY <1>3, <4>1
      <4>4. z1.end = z.start
        <5>1. z1 # z
          BY <3>1, <3>2, <3>6, <4>2, <4>3
        <5>2. z1.end <= z.start \/ z.end <= z1.start
          BY <5>1 DEF Tracks, Apart
        <5> QED BY <1>2, <3>1, <3>2, <3>6, <4>2, <4>3, <5>2
      <4>5. z.state = NextState(z1.state, b[z.start + 1])
        BY <1>20, <3>3, <4>4
      <4>6. y.start + 1 \in 1..h
        BY <1>1, <3>2
      <4> QED BY <1>18, <3>1, <4>2, <4>5, <4>6
    <3> QED BY <3>4, <3>5, <3>6
  <2>2. CASE y \notin F
    <3>1. PICK r \in K : y = M(r)
      BY <1>6, <2>2
    <3>2. /\ r \in m.ranges /\ c < r.start /\ r.start \in Nat /\ r.end \in Nat
          /\ r.start < r.end /\ r.end <= L
          /\ y.start = r.start + d /\ y.end = r.end + d /\ y.state = r.state
          /\ h < y.start
      BY <1>2, <1>4, <3>1
    <3>3. y.start # 0 /\ r.start # L
      BY <1>1, <3>2
    <3>4. ASSUME NEW i \in (y.start + 2)..y.end PROVE NextState(y.state, t[i]) = y.state
      <4> DEFINE j == i - d
      <4>1. j \in (r.start + 2)..r.end /\ j \in (c + 1)..L /\ j + d = i
        <5> DEFINE s == r.start
                   e == r.end
        <5>1. /\ s \in Int /\ e \in Int /\ L \in Int /\ c < s /\ e <= L
              /\ y.start = s + d /\ y.end = e + d
          BY <1>1, <3>2
        <5> HIDE DEF s, e
        <5>2. i \in (s + d + 2)..(e + d)
          BY <5>1
        <5>3. i \in Int /\ (s + d) + 2 <= i /\ i <= e + d
          BY <5>1, <5>2
        <5>4. j \in Int /\ j + d = i /\ s + 2 <= j /\ j <= e
          BY <5>1, <5>3
        <5> HIDE DEF j
        <5>5. j \in (s + 2)..e /\ j \in (c + 1)..L
          BY <5>1, <5>4
        <5> QED BY <5>4, <5>5 DEF s, e
      <4> HIDE DEF j
      <4>2. t[i] = b[j]
        BY <1>19, <4>1
      <4> QED BY <1>20, <3>2, <4>1, <4>2
    <3>5. ASSUME NEW q \in X, q.end = y.start
          PROVE  y.state = NextState(q.state, t[y.start + 1])
      <4>1. q \notin F
        BY <1>1, <1>3, <3>2, <3>5
      <4>2. PICK r1 \in K : q = M(r1)
        BY <1>6, <4>1
      <4>3. r1 \in m.ranges /\ r1.end = r.start /\ q.state = r1.state
        <5>1. r1 \in m.ranges /\ q.end = r1.end + d /\ q.state = r1.state
          BY <1>4, <4>2
        <5>2. r1.end \in Nat
          BY <1>2, <5>1
        <5> QED BY <3>2, <3>5, <5>1, <5>2
      <4>4. r.state = NextState(r1.state, b[r.start + 1])
        BY <1>20, <3>2, <3>3, <4>3
      <4> DEFINE j == r.start + 1
      <4>5. j \in (c + 1)..L /\ j + d = y.start + 1
        BY <1>1, <3>2
      <4> HIDE DEF j
      <4>6. t[y.start + 1] = b[j]
        BY <1>19, <4>5
      <4> QED BY <3>2, <4>3, <4>4, <4>6 DEF j
    <3> QED BY <3>3, <3>4, <3>5
  <2> QED BY <2>1, <2>2
<1>22. Shaped(x)
  BY DEF Moves
<1> QED BY <1>10, <1>11, <1>12, <1>13, <1>14, <1>15, <1>16, <1>21, <1>22 DEF Tracks, X

-----------------------------------------------------------------------------
(* An empty map is right as far as the start.                              *)
LEMMA EmptyTracks == ASSUME NEW t PROVE Tracks(EmptyMap, t, 0)
<1> DEFINE e == EmptyMap
<1>1. /\ e = [ranges |-> e.ranges, tokens |-> e.tokens]
      /\ e.ranges = {} /\ DOMAIN e.tokens = {}
  BY DEF EmptyMap
<1> HIDE DEF e
<1>2. Shaped(e)
  BY <1>1, FS_EmptySet DEF Shaped
<1>3. Tiled(e, 0) /\ RunsMachine(e, t, 0) /\ Covered(e)
  BY <1>1 DEF Tiled, RunsMachine, Covered
<1>4. Apart(e.ranges) /\ Grouped(e.ranges) /\ Placed(e.ranges, t, 0)
  BY <1>1 DEF Apart, Grouped, Placed
<1>5. Chained(e.ranges, t, 0) /\ Parted(e.ranges, 0)
  BY <1>1 DEF Chained, Parted
<1> QED BY <1>2, <1>3, <1>4, <1>5 DEF Tracks, e

(* didChangeTextDocument: a record that describes the edits makes of a map *)
(* that is right for all of the text before them one that is right for the *)
(* text as it is, as far as the head.                                      *)
LEMMA ChangedTracks ==
  ASSUME NEW t, NEW b, Len(t) \in Nat, Len(b) \in Nat, NEW m, Tracks(m, b, Len(b)),
         NEW h \in Nat, NEW k \in Nat, NEW d \in Int, Describes(t, b, h, k, d, TRUE)
  PROVE  Tracks(ChangedMap(m, h, k, d, Len(t)), t, h)
<1> DEFINE c == (Len(t) - d) - k
           g == AdjustRange(m, h)
           x == DropDirty(g, h, c, d)
<1>1. /\ Len(t) = Len(b) + d /\ h <= Len(t) /\ h <= Len(b) /\ k <= Len(t) /\ k <= Len(b)
      /\ h + k <= Len(t)
      /\ \A i \in 1..h : t[i] = b[i]
      /\ \A i \in 1..k : t[(Len(t) - k) + i] = b[(Len(b) - k) + i]
  BY DEF Describes
<1>2. CASE h = 0 /\ k = 0
  BY <1>2, EmptyTracks DEF ChangedMap
<1>3. CASE ~(h = 0 /\ k = 0)
  <2>1. ChangedMap(m, h, k, d, Len(t)) = x
    BY <1>3 DEF ChangedMap
  <2>2. c \in Int /\ c = Len(b) - k /\ c + d = Len(t) - k /\ h \in 0..Len(b)
    BY <1>1
  <2> HIDE DEF c, g, x
  <2>3. ASSUME NEW i \in (c + 1)..Len(b) PROVE t[i + d] = b[i]
    <3> DEFINE j == i - c
    <3>1. j \in 1..k /\ (Len(t) - k) + j = i + d /\ (Len(b) - k) + j = i
      BY <1>1, <2>2
    <3> HIDE DEF j
    <3>2. t[(Len(t) - k) + j] = b[(Len(b) - k) + j]
      BY <1>1, <3>1
    <3> QED BY <3>1, <3>2
  <2>4. h <= c + d /\ c + d <= Len(t)
    BY <1>1, <2>2
  <2>5. Edited(t, b, h, c, d)
    BY <1>1, <2>3, <2>4 DEF Edited
  <2>6. Adjusted(m, g, h)
    BY <2>2, AdjustedIs DEF g
  <2>7. Shaped(m) /\ x = DropDirty(g, h, c, d)
    BY DEF Tracks, x
  <2>8. PICK K : CleanBehind(m, g, K, h, c) /\ Moves(m, g, K, x, h, d)
    BY <2>2, <2>4, <2>6, <2>7, DropDirtyMoves
  <2>9. Tracks(x, t, h)
    BY <2>2, <2>5, <2>6, <2>8, MovedTracks
  <2> QED BY <2>1, <2>9
<1> QED BY <1>2, <1>3

(* The next task scans from the end of the head.                           *)
LEMMA RestartsAtHead ==
  ASSUME NEW m, NEW t, NEW h \in Nat, Tracks(m, t, h)
  PROVE  /\ h = 0 => RangeBefore(m, h) = {}
         /\ h # 0 => RangeBefore(m, h) # {} /\ The(RangeBefore(m, h)).end = h
<1>1. CASE h = 0
  BY <1>1 DEF RangeBefore
<1>2. CASE h # 0
  <2>1. Ordered(m.ranges)
    BY DEF Tracks, Shaped, Ordered
  <2>2. \A q \in m.ranges : q.start \in Nat /\ q.end \in Nat /\ q.start < q.end
    BY <2>1 DEF Ordered, IsRange
  <2>3. PICK z \in m.ranges : z.start < h /\ h <= z.end
    BY <1>2 DEF Tracks, Tiled
  <2>4. z.end = h
    BY <2>2, <2>3 DEF Tracks, Placed
  <2>5. z.end >= h
    BY <2>2, <2>4
  <2>6. PICK r \in m.ranges :
           /\ LowerBound(m, h) = {r} /\ r.end >= h
           /\ \A q \in m.ranges : q.end >= h => q = r \/ r.end <= q.start
           /\ \A q \in m.ranges : q.end < h => q.end <= r.start
    BY <2>1, <2>5, FirstOf
  <2>7. z = r
    BY <2>2, <2>3, <2>5, <2>6
  <2>8. RangeBefore(m, h) = {z}
    BY <1>2, <2>3, <2>6, <2>7 DEF RangeBefore
  <2> QED BY <1>2, <2>4, <2>8, TheOnly
<1> QED BY <1>1, <1>2

-----------------------------------------------------------------------------
(* What the tokenizer knows: between an edit and its record all of the     *)
(* text before the edit, otherwise the text up to the offset of the scan.  *)
KnowsText ==
  IF mutated
  THEN ~queued /\ scanOffset = Len(base) /\ Tracks(map, base, Len(base))
  ELSE /\ documentLength = Len(text)
       /\ scanOffset \in 0..Len(text)
       /\ Tracks(map, text, scanOffset)
       /\ queued <=> scanOffset # Len(text)

(* The inductive invariant of the highlighting.                            *)
HighlighterInv ==
  /\ TrackerInv
  /\ queued \in BOOLEAN
  /\ connected /\ ~disturbed => KnowsText

(* Coloring a new text scans all of it.                                    *)
LEMMA WholeScan ==
  ASSUME Len(text) \in Nat, NEW colors, NEW q,
         q = ProcessRange(EmptyMap, colors, 0, Len(text), Len(text))
  PROVE  q.offset = Len(text) /\ Tracks(Collected(q.map), text, Len(text))
<1>1. Tracks(EmptyMap, text, 0) /\ 0 \in 0..Len(text) /\ Len(text) \in 0..Len(text)
  BY EmptyTracks
<1> DEFINE e == EmptyMap
           n == Len(text)
<1> HIDE DEF e
<1>2. q.offset \in 0..Len(text) /\ n <= q.offset /\ Tracks(q.map, text, q.offset)
  BY <1>1, ProcessTracks DEF e
<1>3. q.offset = Len(text)
  BY <1>2
<1> QED BY <1>2, <1>3, CollectedTracks

(* Attaching the mode colors all of the text.                              *)
LEMMA InitHighlighter == Init => HighlighterInv
<1> SUFFICES ASSUME Init PROVE HighlighterInv
  OBVIOUS
<1>1. TrackerInv /\ mutated = FALSE
  BY InitTracker DEF Init, TrackerInit
<1>2. Len(text) \in Nat
  BY <1>1 DEF TrackerInv, TrackerTypeOK
<1> DEFINE colors == [i \in 1..Len(text) |-> NoSyntax]
           p == ProcessRange(EmptyMap, colors, 0, Len(text), Len(text))
<1>3. /\ map = Collected(p.map) /\ scanOffset = p.offset
      /\ documentLength = Len(text) /\ queued = FALSE
  BY Zenon DEF Init
<1> HIDE DEF colors
<1>4. p.offset = Len(text) /\ Tracks(Collected(p.map), text, Len(text))
  BY <1>2, WholeScan
<1> HIDE DEF p
<1>5. KnowsText
  BY <1>1, <1>2, <1>3, <1>4 DEF KnowsText
<1> QED BY <1>1, <1>3, <1>5 DEF HighlighterInv

(* What a step of the highlighting does to the record is a step of the     *)
(* tracker or none.                                                        *)
LEMMA StepIsTracked == [Next]_vars => [TrackerNext]_trackerVars
<1> SUFFICES ASSUME [Next]_vars PROVE [TrackerNext]_trackerVars
  OBVIOUS
<1>1. CASE Edit
  <2>1. CASE \E p \in 0..Len(text), c \in Char : InsertBefore(p, <<c>>)
    BY <2>1, Zenon DEF TrackerNext
  <2>2. CASE \E start, end \in 0..Len(text) : Delete(start, end)
    BY <2>2, Zenon DEF TrackerNext
  <2> QED BY <1>1, <2>1, <2>2, Zenon DEF Edit
<1>2. CASE DidChangeTextDocument
  BY <1>2, Zenon DEF DidChangeTextDocument, TrackerNext
<1>3. CASE Run
  BY <1>3, Zenon DEF Run
<1>4. CASE WillLoadTextDocument
  BY <1>4, Zenon DEF WillLoadTextDocument, TrackerNext
<1>5. CASE DidLoadTextDocument
  BY <1>5, Zenon DEF DidLoadTextDocument, TrackerNext
<1>6. CASE UNCHANGED vars
  BY <1>6 DEF vars
<1> QED BY <1>1, <1>2, <1>3, <1>4, <1>5, <1>6 DEF Next

(* An edit of an observed document leaves a record to take, and the map as *)
(* it is.                                                                  *)
LEMMA RecordMade ==
  ASSUME Edit
  PROVE  /\ connected' = connected
         /\ connected => mutated' = TRUE /\ base' = base
         /\ map' = map /\ scanOffset' = scanOffset /\ queued' = queued
         /\ disturbed' = (disturbed \/ (queued /\ ~mutated))
<1>1. ASSUME NEW p, NEW c, InsertBefore(p, <<c>>)
      PROVE  connected' = connected /\ (connected => mutated' = TRUE /\ base' = base)
  BY <1>1, Zenon DEF InsertBefore, Record
<1>2. ASSUME NEW start, NEW end, Delete(start, end)
      PROVE  connected' = connected /\ (connected => mutated' = TRUE /\ base' = base)
  BY <1>2, Zenon DEF Delete, Record
<1>3. connected' = connected /\ (connected => mutated' = TRUE /\ base' = base)
  BY <1>1, <1>2, Zenon DEF Edit
<1> QED BY <1>3, Zenon DEF Edit, tokenizerVars

(* doColor of a text it knows up to the offset.                            *)
LEMMA ColorKeeps ==
  ASSUME Len(text) \in Nat, NEW m, NEW start \in 0..Len(text), Tracks(m, text, start),
         NEW hint \in Nat, DoColor(m, start, Len(text), hint)
  PROVE  /\ documentLength' = Len(text) /\ scanOffset' \in 0..Len(text)
         /\ Tracks(map', text, scanOffset')
         /\ queued' = (scanOffset' # Len(text))
         /\ hint = Len(text) => scanOffset' = Len(text)
<1> DEFINE n == Len(text)
           k == Least(start + hint, n)
           p == ProcessRange(m, color, start, k, n)
<1>1. MaxOffset(n) = n
  BY DEF MaxOffset, Least
<1>2. /\ map' = Collected(p.map) /\ scanOffset' = p.offset /\ documentLength' = n
      /\ queued' = (FALSE \/ p.offset # n)
  BY <1>1 DEF DoColor, ScheduleUpdte
<1>3. k \in 0..n /\ (hint = n => k = n)
  BY DEF Least
<1> HIDE DEF k
<1>4. p.offset \in 0..n /\ k <= p.offset /\ Tracks(p.map, text, p.offset)
  BY <1>3, ProcessTracks
<1> HIDE DEF p
<1>5. Tracks(map', text, scanOffset')
  BY <1>2, <1>4, CollectedTracks
<1>6. hint = n => scanOffset' = n
  BY <1>2, <1>3, <1>4
<1> QED BY <1>2, <1>4, <1>5, <1>6

(* Every step keeps what the tokenizer knows right: an edit finds a map of *)
(* all of the text or disturbs a scan, a record turns that map into one of *)
(* the text as it is, a task goes on from there.                           *)
LEMMA StepHighlighter == HighlighterInv /\ [Next]_vars => HighlighterInv'
<1> SUFFICES ASSUME HighlighterInv, [Next]_vars PROVE HighlighterInv'
  OBVIOUS
<1>1. TrackerInv /\ TrackerInv' /\ TrackerTypeOK
  BY StepIsTracked, StepTracker DEF HighlighterInv, TrackerInv
<1>2. /\ text \in Seq(Char) /\ Len(text) \in Nat /\ base \in Seq(Char) /\ Len(base) \in Nat
      /\ mutated \in BOOLEAN /\ queued \in BOOLEAN
      /\ head \in Nat /\ tail \in Nat /\ delta \in Int
  BY <1>1 DEF TrackerTypeOK, HighlighterInv
<1>3. connected => Describes(text, base, head, tail, delta, mutated)
  BY <1>1 DEF TrackerInv, SummaryDescribesEdits
<1>4. connected /\ ~disturbed => KnowsText
  BY DEF HighlighterInv
<1>5. CASE Edit
  <2>1. /\ connected' = connected
        /\ connected => mutated' = TRUE /\ base' = base
        /\ map' = map /\ scanOffset' = scanOffset /\ queued' = queued
        /\ disturbed' = (disturbed \/ (queued /\ ~mutated))
    BY <1>5, RecordMade
  <2>2. ASSUME connected', ~disturbed' PROVE KnowsText'
    <3>1. connected /\ ~disturbed /\ (mutated \/ ~queued)
      BY <2>1, <2>2, Zenon
    <3>2. ~queued /\ scanOffset = Len(base) /\ Tracks(map, base, Len(base))
      <4>1. CASE mutated
        BY <1>4, <3>1, <4>1 DEF KnowsText
      <4>2. CASE ~mutated
        <5>1. text = base
          BY <1>3, <3>1, <4>2 DEF Describes
        <5> QED BY <1>4, <3>1, <4>2, <5>1 DEF KnowsText
      <4> QED BY <4>1, <4>2
    <3>3. /\ mutated' /\ ~queued'
          /\ scanOffset' = scanOffset /\ base' = base /\ map' = map
      BY <2>1, <3>1, <3>2, Zenon
    <3>4. ~queued' /\ scanOffset' = Len(base') /\ Tracks(map', base', Len(base'))
      BY <3>2, <3>3
    <3> QED BY <3>3, <3>4 DEF KnowsText
  <2> QED BY <1>1, <1>2, <2>1, <2>2 DEF HighlighterInv
<1>6. CASE DidChangeTextDocument
  <2>1. connected' = connected /\ text' = text /\ disturbed' = disturbed
    BY <1>6, Zenon DEF DidChangeTextDocument, RunCallback
  <2>2. CASE ~mutated
    <3>1. UNCHANGED <<summary, tokenizerVars, queued>>
      BY <1>6, <2>2, Zenon DEF DidChangeTextDocument, RunCallback
    <3>2. UNCHANGED <<mutated, queued, scanOffset, base, map, documentLength>>
      BY <3>1 DEF summary, tokenizerVars
    <3>3. KnowsText => KnowsText'
      BY <2>1, <3>2 DEF KnowsText
    <3>4. connected' /\ ~disturbed' => KnowsText'
      BY <1>4, <2>1, <3>3, Zenon
    <3> QED BY <1>1, <1>2, <3>2, <3>4 DEF HighlighterInv
  <2>3. CASE mutated
    <3> DEFINE m == ChangedMap(map, head, tail, delta, Len(text))
    <3>1. /\ ResetSummary(text) /\ map' = Collected(m) /\ documentLength' = Len(text)
          /\ Restart(m)
          /\ ScheduleUpdte(scanOffset', Len(text), queued)
      BY <1>6, <2>3, Zenon DEF DidChangeTextDocument, RunCallback
    <3>2. mutated' = FALSE
      BY <3>1 DEF ResetSummary
    <3>3. queued' = (queued \/ scanOffset' # Len(text))
      BY <3>1, Zenon DEF ScheduleUpdte
    <3>4. queued' \in BOOLEAN
      BY <3>3, Zenon
    <3>5. ASSUME connected', ~disturbed' PROVE KnowsText'
      <4>1. connected /\ ~disturbed
        BY <2>1, <3>5, Zenon
      <4>2. ~queued /\ scanOffset = Len(base) /\ Tracks(map, base, Len(base))
        BY <1>4, <2>3, <4>1 DEF KnowsText
      <4>3. Describes(text, base, head, tail, delta, TRUE)
        <5>1. mutated = TRUE
          BY <1>2, <2>3, Zenon
        <5> QED BY <1>3, <4>1, <5>1, Zenon
      <4>4. Tracks(m, text, head)
        BY <1>2, <4>2, <4>3, ChangedTracks
      <4>5. head <= Len(text) /\ head <= Len(base)
        BY <4>3 DEF Describes
      <4> HIDE DEF m
      <4>6. scanOffset' = head
        <5>1. scanOffset' = IF RangeBefore(m, head) = {} THEN 0 ELSE The(RangeBefore(m, head)).end
          BY <1>2, <3>1, <4>2, <4>5 DEF Restart
        <5> QED BY <1>2, <4>4, <5>1, RestartsAtHead
      <4>7. Tracks(map', text, head)
        BY <3>1, <4>4, CollectedTracks
      <4>8. queued' <=> scanOffset' # Len(text)
        BY <3>3, <4>2, Zenon
      <4>9. scanOffset' \in 0..Len(text)
        BY <1>2, <4>5, <4>6
      <4> QED BY <2>1, <3>1, <3>2, <4>6, <4>7, <4>8, <4>9 DEF KnowsText
    <3> QED BY <1>1, <3>4, <3>5 DEF HighlighterInv
  <2> QED BY <2>2, <2>3
<1>7. CASE Run
  <2>1. /\ DoColor(map, scanOffset, documentLength, Increment)
        /\ disturbed' = (disturbed \/ ~connected \/ mutated)
        /\ UNCHANGED trackerVars
    BY <1>7, Zenon DEF Run
  <2>2. UNCHANGED <<text, connected, mutated>>
    BY <2>1 DEF trackerVars, summary
  <2>3. queued' \in BOOLEAN
    BY <2>1, Zenon DEF DoColor, ScheduleUpdte
  <2>4. ASSUME ~disturbed' PROVE KnowsText'
    <3>1. ~disturbed /\ connected /\ ~mutated
      BY <2>1, <2>4, Zenon
    <3>2. /\ documentLength = Len(text) /\ scanOffset \in 0..Len(text)
          /\ Tracks(map, text, scanOffset)
      BY <1>4, <3>1 DEF KnowsText
    <3>3. DoColor(map, scanOffset, Len(text), Increment) /\ Increment \in Nat
      BY <2>1, <3>2, IncrementAssumption
    <3>4. /\ documentLength' = Len(text) /\ scanOffset' \in 0..Len(text)
          /\ Tracks(map', text, scanOffset')
          /\ queued' = (scanOffset' # Len(text))
      BY <1>2, <3>2, <3>3, ColorKeeps
    <3> QED BY <2>2, <3>1, <3>4 DEF KnowsText
  <2> QED BY <1>1, <2>3, <2>4 DEF HighlighterInv
<1>8. CASE WillLoadTextDocument
  <2>1. connected' = FALSE /\ queued' = queued
    BY <1>8, Zenon DEF WillLoadTextDocument, Disconnect
  <2> QED BY <1>1, <1>2, <2>1 DEF HighlighterInv
<1>9. CASE DidLoadTextDocument
  <2>1. DoColor(EmptyMap, 0, Len(text), Len(text)) /\ text' = text /\ mutated' = FALSE
    BY <1>9, Zenon DEF DidLoadTextDocument, Observe, ResetSummary
  <2>2. Tracks(EmptyMap, text, 0) /\ 0 \in 0..Len(text)
    BY <1>2, EmptyTracks
  <2> DEFINE e == EmptyMap
  <2> HIDE DEF e
  <2>3. /\ documentLength' = Len(text) /\ scanOffset' \in 0..Len(text)
        /\ Tracks(map', text, scanOffset')
        /\ queued' = (scanOffset' # Len(text))
    BY <1>2, <2>1, <2>2, ColorKeeps DEF e
  <2>4. KnowsText'
    BY <2>1, <2>3 DEF KnowsText
  <2> QED BY <1>1, <2>3, <2>4 DEF HighlighterInv
<1>10. CASE UNCHANGED vars
  <2>1. UNCHANGED <<text, base, connected, mutated, queued, disturbed, map, scanOffset,
                    documentLength>>
    BY <1>10 DEF vars, trackerVars, summary, tokenizerVars
  <2>2. KnowsText => KnowsText'
    BY <2>1 DEF KnowsText
  <2> QED BY <1>1, <1>2, <1>4, <2>1, <2>2, Zenon DEF HighlighterInv
<1> QED BY <1>5, <1>6, <1>7, <1>8, <1>9, <1>10 DEF Next

-----------------------------------------------------------------------------
(* StatesOf is a function f with this for all of the text.                 *)
IsRun(f, t, n) ==
  f = [i \in 1..n |->
         IF i = 1 THEN [state |-> FirstState(t[1]), first |-> TRUE]
         ELSE LET s == f[i - 1].state
              IN  [state |-> NextState(s, t[i]), first |-> BeginsToken(s, t[i])]]

(* One character of the run.                                               *)
StateAfter(f, t, i) ==
  IF i = 1 THEN [state |-> FirstState(t[1]), first |-> TRUE]
  ELSE [state |-> NextState(f[i - 1].state, t[i]), first |-> BeginsToken(f[i - 1].state, t[i])]

(* The run, a character at a time.                                         *)
LEMMA RunIs ==
  ASSUME NEW f, NEW t, NEW n
  PROVE  IsRun(f, t, n) <=> f = [i \in 1..n |-> StateAfter(f, t, i)]
BY DEF IsRun, StateAfter

(* The recursive function of StatesOf exists for every text.               *)
LEMMA RunExists ==
  ASSUME NEW t, NEW n \in Nat
  PROVE  \E f : IsRun(f, t, n)
<1> DEFINE T == {k \in 0..n : \E f : IsRun(f, t, k)}
<1>1. 0 \in T
  <2> DEFINE f == [i \in 1..0 |-> t]
  <2>1. f = [i \in 1..0 |-> StateAfter(f, t, i)]
    OBVIOUS
  <2> HIDE DEF f
  <2>2. IsRun(f, t, 0)
    BY <2>1, RunIs
  <2> QED BY <2>2
<1>2. ASSUME NEW k \in 0..(n - 1), k \in T PROVE k + 1 \in T
  <2>1. PICK old : IsRun(old, t, k)
    BY <1>2
  <2>2. old = [i \in 1..k |-> StateAfter(old, t, i)]
    BY <2>1, RunIs
  <2> DEFINE new == [i \in 1..(k + 1) |-> IF i = k + 1 THEN StateAfter(old, t, k + 1) ELSE old[i]]
  <2>3. \A i \in 1..k : new[i] = old[i] /\ old[i] = StateAfter(old, t, i)
    BY <2>2
  <2>4. new[k + 1] = StateAfter(old, t, k + 1) /\ new = [i \in 1..(k + 1) |-> new[i]]
    OBVIOUS
  <2> HIDE DEF new
  <2>5. ASSUME NEW i \in 1..(k + 1) PROVE new[i] = StateAfter(new, t, i)
    <3>1. new[i] = StateAfter(old, t, i)
      <4>1. i = k + 1 \/ i \in 1..k
        OBVIOUS
      <4> QED BY <2>3, <2>4, <4>1
    <3>2. i = 1 \/ new[i - 1] = old[i - 1]
      <4>1. i = 1 \/ i - 1 \in 1..k
        OBVIOUS
      <4> QED BY <2>3, <4>1
    <3> QED BY <3>1, <3>2 DEF StateAfter
  <2>6. IsRun(new, t, k + 1)
    <3>1. new = [i \in 1..(k + 1) |-> StateAfter(new, t, i)]
      BY <2>4, <2>5
    <3> QED BY <3>1, RunIs
  <2>7. k + 1 \in 0..n
    OBVIOUS
  <2> QED BY <2>6, <2>7
<1> HIDE DEF T
<1>3. \A k \in 0..n : k \in T
  BY <1>1, <1>2, EveryRound
<1>4. n \in 0..n
  OBVIOUS
<1>5. n \in T
  BY <1>3, <1>4
<1> QED BY <1>5 DEF T

(* So StatesOf is the run.                                                 *)
LEMMA StatesOfIs ==
  ASSUME NEW t, Len(t) \in Nat
  PROVE  \A i \in 1..Len(t) :
           StatesOf(t)[i].state =
             IF i = 1 THEN FirstState(t[1]) ELSE NextState(StatesOf(t)[i - 1].state, t[i])
<1> DEFINE f == StatesOf(t)
<1>1. f = CHOOSE g : IsRun(g, t, Len(t))
  BY Zenon DEF StatesOf, IsRun
<1>2. \E g : IsRun(g, t, Len(t))
  BY RunExists
<1> HIDE DEF f
<1>3. IsRun(f, t, Len(t))
  BY <1>1, <1>2, Zenon
<1>4. f = [i \in 1..Len(t) |-> StateAfter(f, t, i)]
  BY <1>3, RunIs
<1>5. ASSUME NEW i \in 1..Len(t)
      PROVE  f[i].state = IF i = 1 THEN FirstState(t[1]) ELSE NextState(f[i - 1].state, t[i])
  <2>1. f[i] = StateAfter(f, t, i)
    BY <1>4
  <2>2. CASE i = 1
    <3>1. f[i] = [state |-> FirstState(t[1]), first |-> TRUE]
      BY <2>1, <2>2, Zenon DEF StateAfter
    <3>2. f[i].state = FirstState(t[1])
      BY <3>1
    <3> QED BY <2>2, <3>2, Zenon
  <2>3. CASE i # 1
    <3>1. f[i] = [state |-> NextState(f[i - 1].state, t[i]), first |-> BeginsToken(f[i - 1].state, t[i])]
      BY <2>1, <2>3, Zenon DEF StateAfter
    <3>2. f[i].state = NextState(f[i - 1].state, t[i])
      BY <3>1
    <3> QED BY <2>3, <3>2, Zenon
  <2> QED BY <2>2, <2>3
<1> QED BY <1>5 DEF f

(* Ranges that run the machine have the states of the one scan.            *)
ScannedAt(m, t, i) ==
  \A r \in m.ranges : r.start < i /\ i <= r.end => r.state = StatesOf(t)[i].state

(* A map that is right as far as o has the states of the run up to o.      *)
LEMMA RunGivesStates ==
  ASSUME NEW m, NEW t, Len(t) \in Nat, NEW o \in 0..Len(t), Tracks(m, t, o)
  PROVE  \A i \in 1..o : ScannedAt(m, t, i)
<1> DEFINE f == StatesOf(t)
           T == {k \in 0..o : k = 0 \/ ScannedAt(m, t, k)}
<1>1. o \in Nat /\ o <= Len(t)
  OBVIOUS
<1>2. \A r \in m.ranges : r.start \in Nat /\ r.end \in Nat /\ r.start < r.end
  BY DEF Tracks, Shaped, IsRange
<1>3. 0 \in T
  BY <1>1
<1>4. ASSUME NEW k \in 0..(o - 1), k \in T PROVE k + 1 \in T
  <2>1. k + 1 \in 1..Len(t) /\ k + 1 \in 0..o /\ k \in Nat
    BY <1>1
  <2>2. f[k + 1].state = IF k + 1 = 1 THEN FirstState(t[1]) ELSE NextState(f[k].state, t[k + 1])
    <3>1. f[k + 1].state = IF k + 1 = 1 THEN FirstState(t[1])
                           ELSE NextState(f[k + 1 - 1].state, t[k + 1])
      BY <2>1, StatesOfIs
    <3>2. k + 1 - 1 = k
      OBVIOUS
    <3> QED BY <3>1, <3>2
  <2>3. ASSUME k # 0 PROVE ScannedAt(m, t, k)
    BY <1>4, <2>3
  <2> HIDE DEF f, T
  <2>4. ASSUME NEW r \in m.ranges, r.start < k + 1, k + 1 <= r.end
        PROVE  r.state = f[k + 1].state
    <3>0. r.start \in Nat /\ r.end \in Nat
      BY <1>2
    <3>1. CASE r.start < k
      <4>1. k + 1 \in (r.start + 2)..r.end /\ k # 0 /\ k <= r.end
        BY <2>4, <3>0, <3>1
      <4>2. NextState(r.state, t[k + 1]) = r.state
        BY <4>1 DEF Tracks, RunsMachine
      <4>3. r.state = f[k].state
        BY <2>3, <3>1, <4>1 DEF ScannedAt, f
      <4>4. k + 1 # 1
        BY <4>1
      <4> QED BY <2>2, <4>2, <4>3, <4>4
    <3>2. CASE r.start = k /\ k = 0
      <4>1. r.state = FirstState(t[1])
        BY <3>2 DEF Tracks, RunsMachine
      <4> QED BY <2>2, <3>2, <4>1
    <3>3. CASE r.start = k /\ k # 0
      <4>1. k \in 1..o /\ k # o
        BY <1>1, <3>3
      <4>2. PICK q \in m.ranges : q.start < k /\ k <= q.end
        BY <4>1 DEF Tracks, Tiled
      <4>3. q.end = k
        <5>1. q # r
          BY <3>3, <4>2
        <5>2. q.end <= r.start \/ r.end <= q.start
          BY <5>1 DEF Tracks, Apart
        <5> QED BY <1>2, <2>4, <3>0, <3>3, <4>2, <5>2
      <4>4. r.state = NextState(q.state, t[r.start + 1])
        BY <3>3, <4>1, <4>3 DEF Tracks, RunsMachine
      <4>5. q.state = f[k].state
        BY <2>3, <3>3, <4>2 DEF ScannedAt, f
      <4>6. k + 1 # 1
        BY <3>3
      <4> QED BY <2>2, <3>3, <4>4, <4>5, <4>6
    <3> QED BY <2>4, <3>0, <3>1, <3>2, <3>3
  <2>5. ScannedAt(m, t, k + 1)
    BY <2>4 DEF ScannedAt, f
  <2> QED BY <2>1, <2>5 DEF T
<1> HIDE DEF T
<1>5. \A k \in 0..o : k \in T
  BY <1>1, <1>3, <1>4, EveryRound
<1>6. \A i \in 1..o : i \in 0..o /\ i # 0
  OBVIOUS
<1> QED BY <1>5, <1>6 DEF T

-----------------------------------------------------------------------------
(* What the tokenizer knows is what RangesRight asks of it.                *)
LEMMA KnowingIsRight == HighlighterInv => RangesRight
<1> DEFINE run == StatesOf(text)
<1> SUFFICES ASSUME HighlighterInv, connected, ~mutated, ~disturbed
             PROVE  /\ ValidMap(map)
                    /\ scanOffset <= Len(text) /\ \A r \in map.ranges : r.end <= Len(text)
                    /\ \A i \in 1..scanOffset : \E r \in map.ranges :
                         r.start < i /\ i <= r.end /\ r.state = run[i].state
  BY Zenon DEF RangesRight
<1>1. scanOffset \in 0..Len(text) /\ Tracks(map, text, scanOffset)
  BY DEF HighlighterInv, KnowsText
<1>2. Len(text) \in Nat
  BY DEF HighlighterInv, TrackerInv, TrackerTypeOK
<1>3. \A r \in map.ranges : r.start < r.end
  BY <1>1 DEF Tracks, Shaped, IsRange
<1>4. ValidMap(map)
  BY <1>1, <1>3 DEF ValidMap, Tracks, Apart, Covered
<1>5. scanOffset <= Len(text) /\ \A r \in map.ranges : r.end <= Len(text)
  BY <1>1 DEF Tracks, Placed
<1>6. ASSUME NEW i \in 1..scanOffset
      PROVE  \E r \in map.ranges : r.start < i /\ i <= r.end /\ r.state = run[i].state
  <2>1. ScannedAt(map, text, i)
    BY <1>1, <1>2, RunGivesStates
  <2>2. PICK r \in map.ranges : r.start < i /\ i <= r.end
    BY <1>1 DEF Tracks, Tiled
  <2> QED BY <2>1, <2>2 DEF ScannedAt
<1> QED BY <1>4, <1>5, <1>6

-----------------------------------------------------------------------------
(* Each step of the highlighting is one of the tracker, or none, so the   *)
(* tracker that was proved about alone is the one the tokenizer hears of   *)
(* edits from.                                                             *)
THEOREM TokenizerFollowsRecords == Spec => TrackerSpec
<1>1. Init => TrackerInit
  BY DEF Init
<1> QED BY <1>1, StepIsTracked, PTL DEF Spec, TrackerSpec

(* So the records it gets describe the edits (SummaryDescribesEdits).      *)
THEOREM RecordsStayRight == Spec => []SummaryDescribesEdits
<1>1. TrackerInv => SummaryDescribesEdits
  BY DEF TrackerInv
<1> QED BY TokenizerFollowsRecords, InitTracker, StepTracker, <1>1, PTL DEF TrackerSpec

(* For every machine, every text and any number of edits and loads: when   *)
(* no scan was under way at an edit, the map the tokenizer has adjusted    *)
(* and scanned, starting in front of each edit and skipping what is still  *)
(* right behind it, says up to the offset of the scan what one scan over   *)
(* all of the text would (RangesRight).                                    *)
THEOREM RangesAreRight == Spec => []RangesRight
<1> QED BY InitHighlighter, StepHighlighter, KnowingIsRight, PTL DEF Spec
=============================================================================
