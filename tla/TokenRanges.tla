----------------------------- MODULE TokenRanges -----------------------------
(***************************************************************************)
(* highlights.StateRangeMap: what the tokenizer remembers of a text.  A    *)
(* range is a stretch of characters that leave the state machine in one    *)
(* state; a token is one or more ranges that are painted as a unit and     *)
(* share their token object.  A map m has the field ranges, a set of       *)
(* records, and the field tokens, from the identity of a token to its      *)
(* start, end and syntax.  What may be missing is a set of one or none.    *)
(***************************************************************************)
EXTENDS Loops, FiniteSets, Functions

NoSyntax == ""

EmptyMap == [ranges |-> {}, tokens |-> << >>]

The(S) == CHOOSE x \in S : TRUE

TokenOf(m, r) == m.tokens[r.token]

(* The first range that ends at o or behind.                               *)
LowerBound(m, o) ==
  {r \in m.ranges : r.end >= o /\ \A q \in m.ranges : q.end >= o => r.end <= q.end}

RangeEndsAt(m, o) == {r \in LowerBound(m, o) : o # 0 /\ r.end = o}

RangeStartsAt(m, o) == {r \in LowerBound(m, o + 1) : r.start = o}

(* The range in front of o; when nothing ends at o or behind, the last one.*)
RangeBefore(m, o) ==
  IF o = 0 THEN {}
  ELSE IF LowerBound(m, o) = {}
       THEN {r \in m.ranges : \A q \in m.ranges : q.end <= r.end}
       ELSE {r \in LowerBound(m, o) : r.start < o}

Without(m, removed) == [m EXCEPT !.ranges = @ \ removed]

RemoveBetween(m, start, end) == Without(m, {r \in m.ranges : r.end > start /\ r.start < end})

-----------------------------------------------------------------------------
(* adjustRangeContains: a range across the end of the clean head, or whose *)
(* token goes on behind it, is cut there and its token loses its syntax.   *)
AdjustRange(m, cleanEnd) ==
  LET hit == {r \in LowerBound(m, cleanEnd) : r.start < cleanEnd /\ TokenOf(m, r).end # cleanEnd}
  IN  IF hit = {} THEN m
      ELSE [ranges |-> (m.ranges \ hit) \cup {[The(hit) EXCEPT !.end = cleanEnd]},
            tokens |-> [m.tokens EXCEPT ![The(hit).token].end = cleanEnd,
                                        ![The(hit).token].syntax = NoSyntax]]

(* relocateRanges: from is the first range that moves; every token of the  *)
(* ranges that move is moved once.                                         *)
Relocate(m, from, delta) ==
  LET moved == {r \in m.ranges : r.end >= from.end}
      owners == {r.token : r \in moved}
      Shift(x) == [x EXCEPT !.start = @ + delta, !.end = @ + delta]
  IN  [ranges |-> (m.ranges \ moved) \cup {Shift(r) : r \in moved},
       tokens |-> [t \in DOMAIN m.tokens |->
                     IF t \in owners THEN Shift(m.tokens[t]) ELSE m.tokens[t]]]

(* A range the edit neither touched nor cut the token of.                  *)
IsClean(m, r, cleanStart) == r.start > cleanStart /\ r.end <= TokenOf(m, r).end

(* The first range behind the head goes, after the ones behind it in its  *)
(* token, each in a round of its own.                                      *)
DropOne(m, head) ==
  LET r == The(LowerBound(m, head + 1))
      next == {q \in LowerBound(m, r.end + 1) : q.token = r.token}
  IN  Without(m, IF next # {} THEN next ELSE {r})

(* The loop of didChangeTextDocument: ranges behind the head are removed,  *)
(* a token at a time, up to the first clean one; it and the ones behind it *)
(* are relocated.  Each round removes a range.                             *)
DropDirty(m, head, cleanStart, delta) ==
  LET left == While(LAMBDA n : \E r \in LowerBound(n, head + 1) : ~IsClean(n, r, cleanStart),
                    LAMBDA n : DropOne(n, head), m, Cardinality(m.ranges))
      first == LowerBound(left, head + 1)
  IN  IF first = {} THEN left ELSE Relocate(left, The(first), delta)

(* didChangeTextDocument for a text that has this length now.              *)
ChangedMap(m, head, tail, delta, length) ==
  IF head = 0 /\ tail = 0 THEN EmptyMap
  ELSE DropDirty(AdjustRange(m, head), head, (length - delta) - tail, delta)

-----------------------------------------------------------------------------
(* Token objects nobody refers to are collected.                           *)
Collected(m) == [m EXCEPT !.tokens = Restrict(@, {r.token : r \in m.ranges})]

FreshToken(m) ==
  CHOOSE t \in 1..(Cardinality(DOMAIN m.tokens) + 1) :
    t \notin DOMAIN m.tokens /\ \A u \in 1..(t - 1) : u \in DOMAIN m.tokens

(* What the console.asserts of the map ask: ranges are not empty, in order *)
(* and inside their tokens.                                                *)
ValidMap(m) ==
  /\ \A r \in m.ranges :
       /\ r.start < r.end
       /\ TokenOf(m, r).start <= r.start /\ r.end <= TokenOf(m, r).end
  /\ \A r, q \in m.ranges : r # q => r.end <= q.start \/ q.end <= r.start
=============================================================================
