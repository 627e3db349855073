--------------------------- MODULE LineNumberCache ---------------------------
(***************************************************************************)
(* text::LineNumberCache, the map from line starts to line numbers that    *)
(* Buffer::GetLineAndColumn asks, observing the edits of its buffer.  The  *)
(* cache knows the lines of a prefix of the text: Get scans forward from   *)
(* the last line it knows, an edit forgets the lines at and after it.      *)
(***************************************************************************)
EXTENDS TextOps, FiniteSets

CONSTANTS
  Char,       \* the characters
  Newline,    \* the newline character, 0x0A
  Texts,      \* the texts callers insert
  MaxLength   \* bound: no insertion makes the text longer than this

ASSUME NewlineAssumption == Newline \in Char
ASSUME TextsAssumption == \A s \in Texts : s \in Seq(Char)
ASSUME MaxLengthAssumption == MaxLength \in Nat

VARIABLES
  text,   \* the characters of the buffer
  map     \* map_: a function from some line starts to their numbers

vars == <<text, map>>

(* The starts of the lines that begin behind the newlines of [from, to).   *)
LineStarts(t, from, to) == {k \in (from + 1)..to : t[k] = Newline}

(* The last line of the cache m that starts at or before p.                *)
Floor(m, p) == CHOOSE k \in DOMAIN m : k <= p /\ \A j \in DOMAIN m : j <= p => j <= k

-----------------------------------------------------------------------------
(* Mutant of UpdateCache: the scan counts from the first line.             *)
UpdateCacheFromOne(m, start, number, goal) ==
  LET found == LineStarts(text, start, goal)
  IN  [k \in DOMAIN m \cup found |->
         IF k \in found THEN 1 + Cardinality(LineStarts(text, start, k)) ELSE m[k]]

(* The scan from `start`, where line `number` begins, up to `goal`: every  *)
(* newline on the way adds the line after it.                              *)
UpdateCache(m, start, number, goal) ==
  LET found == LineStarts(text, start, goal)
  IN  [k \in DOMAIN m \cup found |->
         IF k \in found THEN number + Cardinality(LineStarts(text, start, k)) ELSE m[k]]

(* Mutant of Lookup: the scan stops one character short of p.              *)
LookupShort(m, p) ==
  IF p = 0 \/ \E k \in DOMAIN m : k >= p THEN m
  ELSE UpdateCache(m, Floor(m, p), m[Floor(m, p)], p - 1)

(* The cache that Get(p) leaves.  Only a p behind the last line of the     *)
(* cache makes it scan.                                                    *)
Lookup(m, p) ==
  IF p = 0 \/ \E k \in DOMAIN m : k >= p THEN m
  ELSE UpdateCache(m, Floor(m, p), m[Floor(m, p)], p)

(* What Get(p) returns: the line p is in, by its number and start.         *)
Answer(m, p) ==
  LET after == Lookup(m, p)
      start == Floor(after, p)
  IN  [number |-> after[start], offset |-> start]

(* The entries at and behind p go; the first line is put back when p = 0.  *)
InvalidateCache(m, p) ==
  IF p = 0 THEN [k \in {0} |-> 1]
  ELSE [k \in {j \in DOMAIN m : j < p} |-> m[k]]

-----------------------------------------------------------------------------
Init ==
  /\ text = << >>
  /\ map = [k \in {0} |-> 1]

Get(p) ==
  /\ map' = Lookup(map, p)
  /\ text' = text

(* Buffer::InsertBefore, then DidInsertBefore.                             *)
InsertBefore(p, s) ==
  /\ s # << >>
  /\ Len(text) + Len(s) <= MaxLength
  /\ text' = Inserted(text, p, s)
  /\ map' = InvalidateCache(map, p)

(* Buffer::Delete, then DidDeleteAt.                                       *)
Delete(start, end) ==
  /\ start < end
  /\ text' = Removed(text, start, end)
  /\ map' = InvalidateCache(map, start)

Next ==
  \/ \E p \in 0..Len(text) : Get(p)
  \/ \E p \in 0..Len(text), s \in Texts : InsertBefore(p, s)
  \/ \E start, end \in 0..Len(text) : Delete(start, end)

Spec == Init /\ [][Next]_vars

-----------------------------------------------------------------------------
(* Properties                                                              *)

(* The scan backwards of Buffer::ComputeStartOfLine: the nearest place at  *)
(* or before p that is the start of the text or follows a newline.         *)
ComputeStartOfLine(t, p) ==
  CHOOSE s \in 0..p : /\ s = 0 \/ t[s] = Newline
                      /\ \A j \in (s + 1)..p : t[j] # Newline

(* Type invariant: the cache always has the first line.                    *)
TypeOK ==
  /\ text \in Seq(Char)
  /\ \E D \in SUBSET (0..Len(text)) : 0 \in D /\ map \in [D -> Nat]

(* The lines m holds are all lines of the text t up to the last one of m,  *)
(* with their numbers.                                                     *)
Complete(m, t) ==
  \A k \in DOMAIN m :
    /\ k = 0 \/ t[k] = Newline
    /\ \A j \in 1..k : t[j] = Newline => j \in DOMAIN m
    /\ m[k] = 1 + Cardinality(LineStarts(t, 0, k))

(* However the cache was filled and however much of it edits took away, it *)
(* has no hole: it holds every line up to the last one it knows, each with *)
(* the number of lines in front of it plus one.                            *)
CacheComplete == Complete(map, text)

(* Get answers for every offset, before and after it filled the cache, the *)
(* line a scan of the whole text finds: GetLineAndColumn (buffer.cc:107)   *)
(* agrees with ComputeStartOfLine (buffer.cc:71).                          *)
AnswersRight ==
  \A p \in 0..Len(text) :
    LET a == Answer(map, p)
    IN  /\ a.number = 1 + Cardinality(LineStarts(text, 0, p))
        /\ a.offset = ComputeStartOfLine(text, p)
=============================================================================
