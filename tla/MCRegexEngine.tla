--------------------------- MODULE MCRegexEngine ----------------------------
(***************************************************************************)
(* Searches for small patterns in every text of a few characters.          *)
(***************************************************************************)
EXTENDS RegexEngine

MCChars    == {"a", "b", "n"}
MCNewline  == "n"
MCInfinity == 1000

Dot           == [kind |-> "any", test |-> Chars]
Ch(c)         == [kind |-> "char", char |-> c, not |-> FALSE, test |-> {c}]
NotCh(c)      == [kind |-> "char", char |-> c, not |-> TRUE, test |-> Chars \ {c}]
Member(chars) == [kind |-> "charSet", test |-> chars]
Word          == [kind |-> "oneWidth", test |-> Chars \ {Newline}]
At(test)      == [kind |-> "zeroWidth", test |-> test]
Row(nodes)    == [kind |-> "and", nodes |-> nodes]
Either(x, y)  == [kind |-> "or", nodes |-> <<x, y>>]
NotClass(x, y) == [kind |-> "charClass", not |-> TRUE, nodes |-> <<x, y>>]
Class(x, y)   == [kind |-> "charClass", not |-> FALSE, nodes |-> <<x, y>>]
Greedy(n, min, max) == [kind |-> "max", node |-> n, min |-> min, max |-> max]
Lazy(n, min, max)   == [kind |-> "min", node |-> n, min |-> min, max |-> max]
Group(n, nth) == [kind |-> "capture", node |-> n, nth |-> nth]
BackRef(nth)  == [kind |-> "captureEq", nth |-> nth]
Atom(n)       == [kind |-> "atom", node |-> n]
Lookaround(n, positive, behind) ==
    [kind |-> "lookaround", node |-> n, positive |-> positive, behind |-> behind]
IfGroup(nth, then, else) ==
    [kind |-> "if", cond |-> [kind |-> "captureIfNot", nth |-> nth],
     then |-> then, else |-> else]
IfLook(cond, then, else) ==
    [kind |-> "ifLookaround", cond |-> cond, then |-> then, else |-> else]

A  == Ch("a")
B  == Ch("b")
N  == Ch("n")
AB == Row(<<A, B>>)

Forward(n, captures)  == [node |-> n, captures |-> captures, back |-> FALSE, exact |-> FALSE]
Backward(n, captures) == [node |-> n, captures |-> captures, back |-> TRUE, exact |-> FALSE]

\* Searched for in every text, from its start and from its second character.
ForwardPatterns == <<
    Forward(Void, 0),
    Forward(A, 0),
    Forward(Row(<<A, B, A>>), 0),
    Forward(Row(<<Dot, NotCh("a")>>), 0),
    Forward(Row(<<Member({"a", "n"}), B>>), 0),
    Forward(Row(<<Class(A, N), B>>), 0),
    Forward(Row(<<NotClass(A, N), Dot>>), 0),
    \* one character repeated
    Forward(Row(<<A, Greedy(Dot, 0, Infinity), B>>), 0),
    Forward(Row(<<Greedy(Dot, 2, Infinity), B>>), 0),
    Forward(Row(<<Greedy(A, 2, Infinity), B>>), 0),
    Forward(Row(<<Greedy(A, 0, Infinity), A, B>>), 0),
    Forward(Row(<<Greedy(Word, 1, Infinity), N>>), 0),
    Forward(Row(<<Greedy(NotCh("b"), 1, Infinity), A>>), 0),
    \* loops, with counters and with bodies that take nothing
    Forward(Row(<<A, Lazy(Dot, 0, Infinity), B>>), 0),
    Forward(Row(<<Lazy(Either(A, AB), 2, 2), B>>), 0),
    Forward(Row(<<Lazy(A, 0, 1), B>>), 0),
    Forward(Row(<<Greedy(Either(AB, A), 1, 2), B>>), 0),
    Forward(Greedy(Either(A, AB), 2, 3), 0),
    Forward(Greedy(Group(Greedy(A, 0, Infinity), 1), 1, Infinity), 1),
    Forward(Row(<<Greedy(Group(Greedy(A, 0, 1), 1), 0, 3), B>>), 1),
    Forward(Row(<<Greedy(AB, 0, Infinity), Greedy(Row(<<A, N>>), 0, Infinity), A>>), 0),
    Forward(Row(<<Greedy(Row(<<Greedy(AB, 0, Infinity), N>>), 0, Infinity), A, B>>), 0),
    \* captures
    Forward(Row(<<Group(Greedy(AB, 0, Infinity), 1), A>>), 1),
    Forward(Row(<<Greedy(Group(Either(AB, B), 1), 1, Infinity), B>>), 1),
    Forward(Row(<<Group(Greedy(Dot, 1, Infinity), 1), BackRef(1)>>), 1),
    Forward(Row(<<Group(Either(A, B), 1), IfGroup(1, N, A)>>), 1),
    \* tests that take nothing
    Forward(Row(<<A, At("BeforeNewline")>>), 0),
    Forward(Row(<<At("StartOfString"), Greedy(A, 0, Infinity), B>>), 0),
    Forward(Row(<<At("Posn"), Greedy(A, 1, 2), B>>), 0),
    Forward(Row(<<Greedy(A, 1, Infinity), At("EndOfLine")>>), 0),
    Forward(At("EndOfString"), 0),
    \* lookarounds and atoms
    Forward(Row(<<Lookaround(A, TRUE, TRUE), B>>), 0),
    Forward(Row(<<Lookaround(AB, FALSE, TRUE), B>>), 0),
    Forward(Row(<<A, Lookaround(B, TRUE, FALSE), Dot>>), 0),
    Forward(Row(<<Lookaround(AB, FALSE, FALSE), A>>), 0),
    Forward(Row(<<Atom(Greedy(A, 1, Infinity)), B>>), 0),
    Forward(IfLook(Lookaround(A, TRUE, TRUE), B, N), 0)
  >>

\* Searched for in texts of lines that are not empty.
LinePatterns == <<
    Forward(Row(<<At("AfterNewline"), A>>), 0),
    Forward(Row(<<At("BeforeNewline"), N>>), 0),
    Forward(Row(<<At("Boundary"), A>>), 0)
  >>

\* Searched for in every text, from its end and from its last character.
BackwardPatterns == <<
    Backward(A, 0),
    Backward(Row(<<Dot, A>>), 0),
    Backward(Row(<<A, Greedy(Dot, 0, Infinity), B>>), 0),
    Backward(Row(<<Greedy(AB, 1, Infinity), N>>), 0),
    Backward(Row(<<N, Group(Greedy(AB, 0, Infinity), 1), A>>), 1),
    Backward(Row(<<Member({"a"}), Lazy(Dot, 1, Infinity), NotCh("a")>>), 0),
    Backward(Row(<<At("StartOfString"), Dot, Greedy(A, 1, 2)>>), 0),
    Backward(Row(<<Greedy(Row(<<A, Greedy(B, 0, 1)>>), 0, Infinity), N>>), 0)
  >>

\* Searched for backward in texts where it is not at the very start.
BackwardStrings == <<
    Backward(AB, 0),
    Backward(Row(<<A, B, A>>), 0)
  >>

MCPatterns == ForwardPatterns \o LinePatterns \o BackwardPatterns \o BackwardStrings

\* The places of a list in MCPatterns, behind before others.
Places(before, list) == before + 1 .. before + Len(list)

MaxText == 5

Texts == UNION {[1 .. len -> Chars] : len \in 0 .. MaxText}

Lines == {t \in Texts \ {<<>>} :
             \A i \in 0 .. Len(t) : (i = 0 \/ t[i] = "n") => (i < Len(t) /\ t[i + 1] # "n")}

MCSearches ==
    LET forward  == Len(ForwardPatterns)
        line     == forward + Len(LinePatterns)
        backward == line + Len(BackwardPatterns)
        Calls(patterns, texts, starts, cuts) ==
            {[pattern |-> i, text |-> t, start |-> s, end |-> Len(t) - c] :
                i \in patterns, t \in texts, s \in starts, c \in cuts}
        some == Texts \ {<<>>}
    IN  Calls(Places(0, ForwardPatterns), Texts, {0}, {0})
        \cup Calls(Places(0, ForwardPatterns), some, {1}, {0})
        \cup Calls(Places(forward, LinePatterns), Lines, {0}, {0})
        \cup Calls(Places(line, BackwardPatterns), Texts, {0}, {0})
        \cup Calls(Places(line, BackwardPatterns), some, {0}, {1})
        \cup Calls(Places(backward, BackwardStrings),
                   {t \in some : Head(t) = "n"}, {0}, {0})
=============================================================================
