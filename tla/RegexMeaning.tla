---------------------------- MODULE RegexMeaning ----------------------------
(***************************************************************************)
(* What a pattern means: the ways it matches from a position, in the order *)
(* in which they are preferred, defined over the pattern as it is written. *)
(* There is no program here, no stack and no pruning: this is what the     *)
(* compiler and the engine together must come to.                          *)
(*                                                                         *)
(* A way to match is a record of the position it ends at and the captures  *)
(* it has set.  A backward search reads the pattern from its end.          *)
(***************************************************************************)
EXTENDS Integers, Sequences, SequencesExt, FiniteSetsExt

CONSTANT Newline     \* the newline character

\* The character at position p; positions count from 0.
CharAt(text, p) == text[p + 1]

\* Newline is the one character that is not of a word.
IsWord(text, p) == p \in 0 .. Len(text) - 1 /\ CharAt(text, p) # Newline

\* Does the zero-width test hold at p?  last is where the search began.
Holds(test, text, p, last) ==
    CASE test = "AfterNewline"  -> p = 0 \/ CharAt(text, p - 1) = Newline
      [] test = "BeforeNewline" -> p = Len(text) \/ CharAt(text, p) = Newline
      [] test = "EndOfLine"     -> \/ p = Len(text)
                                   \/ p = Len(text) - 1 /\ CharAt(text, p) = Newline
      [] test = "EndOfString"   -> p = Len(text)
      [] test = "StartOfString" -> p = 0
      [] test = "Posn"          -> p = last
      [] test = "Boundary"      -> IsWord(text, p - 1) # IsWord(text, p)

-----------------------------------------------------------------------------

\* s if its string of len characters, read in the direction, passes Test.
Taken(s, text, back, len, Test(_)) ==
    LET start == IF back THEN s.posn - len ELSE s.posn IN
    IF start >= 0 /\ start + len =< Len(text)
       /\ Test(SubSeq(text, start + 1, start + len))
    THEN <<[s EXCEPT !.posn = IF back THEN start ELSE start + len]>>
    ELSE <<>>

RECURSIVE Ways(_, _, _, _)

\* Every way of n from each of the given ones, in their order.
WaysFrom(n, back, text, given) ==
    FlattenSeq([i \in DOMAIN given |-> Ways(n, back, text, given[i])])

RECURSIVE InTurn(_, _, _, _)
InTurn(nodes, back, text, given) ==
    IF nodes = <<>> \/ given = <<>> THEN given
    ELSE IF back
         THEN InTurn(Front(nodes), back, text, WaysFrom(Last(nodes), back, text, given))
         ELSE InTurn(Tail(nodes), back, text, WaysFrom(Head(nodes), back, text, given))

\* The ways of a loop that has been taken count times: a greedy loop prefers
\* to go on, a lazy one to stop, and one that takes nothing stops.
RECURSIVE LoopWays(_, _, _, _, _)
LoopWays(n, count, back, text, s) ==
    LET again(w) == IF w.posn = s.posn THEN <<w>>
                    ELSE LoopWays(n, count + 1, back, text, w)
        more == IF count >= n.max THEN <<>>
                ELSE LET ways == Ways(n.node, back, text, s)
                     IN  FlattenSeq([i \in DOMAIN ways |-> again(ways[i])])
        stop == IF count < n.min THEN <<>> ELSE <<s>>
    IN  IF n.kind = "max" THEN more \o stop ELSE stop \o more

\* The first of the ways only.
Committed(ways) == IF ways = <<>> THEN <<>> ELSE <<ways[1]>>

\* s where the lookaround n holds.
Look(n, text, s) ==
    LET ways == Ways(n.node, n.behind, text, s)
    IN  IF n.positive
        THEN [i \in DOMAIN Committed(ways) |-> [ways[i] EXCEPT !.posn = s.posn]]
        ELSE IF ways = <<>> THEN <<s>> ELSE <<>>

Ways(n, back, text, s) ==
    CASE n.kind = "void" -> <<s>>
      [] n.kind \in {"any", "char", "charSet", "oneWidth"} ->
             Taken(s, text, back, 1, LAMBDA str : str[1] \in n.test)
      [] n.kind = "charClass" ->
             Taken(s, text, back, 1, LAMBDA str :
                 n.not # (\E i \in DOMAIN n.nodes : str[1] \in n.nodes[i].test))
      [] n.kind = "string" -> Taken(s, text, back, Len(n.str), LAMBDA str : str = n.str)
      [] n.kind = "zeroWidth" -> IF Holds(n.test, text, s.posn, s.last) THEN <<s>> ELSE <<>>
      [] n.kind = "and" -> InTurn(n.nodes, back, text, <<s>>)
      [] n.kind = "or" -> FlattenSeq([i \in DOMAIN n.nodes |-> Ways(n.nodes[i], back, text, s)])
      [] n.kind = "capture" ->
             LET ways == Ways(n.node, back, text, s)
             IN  [i \in DOMAIN ways |-> [ways[i] EXCEPT !.captures[n.nth] =
                     IF back THEN <<ways[i].posn, s.posn>> ELSE <<s.posn, ways[i].posn>>]]
      [] n.kind = "captureEq" ->
             LET bound == s.captures[n.nth]
             IN  Taken(s, text, back, bound[2] - bound[1],
                       LAMBDA str : str = SubSeq(text, bound[1] + 1, bound[2]))
      [] n.kind = "atom" -> Committed(Ways(n.node, back, text, s))
      [] n.kind = "lookaround" -> Look(n, text, s)
      [] n.kind = "if" -> Ways(IF s.captures[n.cond.nth][1] >= 0 THEN n.then ELSE n.else,
                               back, text, s)
      [] n.kind = "ifLookaround" ->
             LET held == Look(n.cond, text, s)
             IN  IF held = <<>> THEN Ways(n.else, back, text, s)
                 ELSE Ways(n.then, back, text, held[1])
      [] n.kind \in {"max", "min"} -> LoopWays(n, 0, back, text, s)

-----------------------------------------------------------------------------

\* The match a search must find, and its captures: the preferred way from
\* the first position that has one; an empty range when none has.
FirstMatch(pattern, text, start, end) ==
    LET back    == pattern.back
        last    == IF back THEN end ELSE start
        unbound == [i \in 1 .. pattern.captures |-> <<-1, -1>>]
        from(p) == Ways(pattern.node, back, text,
                        [posn |-> p, last |-> last, captures |-> unbound])
        places  == {p \in start .. end : from(p) # <<>>}
        first   == IF back THEN Max(places) ELSE Min(places)
        best    == from(first)[1]
    IN  IF places = {} THEN [range |-> <<>>, captures |-> unbound]
        ELSE [range |-> IF back THEN <<best.posn, first>> ELSE <<first, best.posn>>,
              captures |-> best.captures]
=============================================================================
