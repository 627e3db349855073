---------------------------- MODULE RegexProgram ----------------------------
(***************************************************************************)
(* The regular expression compiler: a parse tree becomes a scanner, which  *)
(* proposes places, and a program for the engine, which tries each of      *)
(* them.                                                                   *)
(*                                                                         *)
(* A pattern is a parse tree before the parser gives nodes their           *)
(* direction.  Its nodes are records with a kind; a node that matches one  *)
(* character has the set "test" of the characters it takes.  A program is  *)
(* a sequence of instructions, one for each opcode with its operands, and  *)
(* a label is the place of an instruction in it.  Case-insensitive nodes   *)
(* are left out.                                                           *)
(***************************************************************************)
EXTENDS Integers, Sequences, SequencesExt, FiniteSetsExt

CONSTANTS Chars,     \* the characters of texts
          Infinity   \* the repeat count without a bound

OneWidthKinds == {"any", "char", "charSet", "oneWidth"}
LoopKinds     == {"max", "min"}
SubNodeKinds  == LoopKinds \cup {"capture", "atom"}
NodesKinds    == {"and", "or", "charClass"}
IfKinds       == {"if", "ifLookaround"}

-----------------------------------------------------------------------------
(* The parse tree *)

\* A character that And may join with its neighbours.
PlainChar(n) == n.kind = "char" /\ ~n.not

\* The nodes of And with each run of plain characters as one string.
JoinChars(nodes) ==
    LET Join(done, n) ==
            CASE ~PlainChar(n) \/ done = <<>> -> Append(done, n)
              [] Last(done).kind = "string" ->
                     Append(Front(done), [Last(done) EXCEPT !.str = Append(@, n.char)])
              [] PlainChar(Last(done)) ->
                     Append(Front(done), [kind |-> "string", back |-> n.back,
                                          str |-> <<Last(done).char, n.char>>])
              [] OTHER -> Append(done, n)
    IN  FoldLeft(Join, <<>>, nodes)

\* The nodes in the order in which text is met from right to left.
RECURSIVE Reversed(_)
Reversed(n) ==
    CASE n.kind \in NodesKinds ->
             [n EXCEPT !.nodes = Reverse([i \in DOMAIN @ |-> Reversed(@[i])])]
      [] n.kind \in SubNodeKinds \cup {"lookaround"} ->
             [n EXCEPT !.node = Reversed(@)]
      [] n.kind \in IfKinds ->
             [n EXCEPT !.cond = Reversed(@), !.then = Reversed(@), !.else = Reversed(@)]
      [] OTHER -> n

\* The tree the parser makes of n: nodes know their direction, characters
\* are joined, and what a lookaround matches from right to left is reversed.
RECURSIVE ParsedNode(_, _)
ParsedNode(n, back) ==
    CASE n.kind \in NodesKinds ->
             LET nodes == [i \in DOMAIN n.nodes |-> ParsedNode(n.nodes[i], back)]
             IN  [n EXCEPT !.nodes = IF n.kind = "and" THEN JoinChars(nodes) ELSE nodes]
                     @@ [back |-> back]
      [] n.kind \in SubNodeKinds ->
             [n EXCEPT !.node = ParsedNode(@, back)] @@ [back |-> back]
      [] n.kind = "lookaround" ->
             LET inner == ParsedNode(n.node, n.behind # back)
             IN  [n EXCEPT !.node = IF n.behind # back THEN Reversed(inner) ELSE inner]
      [] n.kind \in IfKinds ->
             [n EXCEPT !.cond = ParsedNode(@, back), !.then = ParsedNode(@, back),
                       !.else = ParsedNode(@, back)]
      [] OTHER -> n @@ [back |-> back]

Parsed(pattern) ==
    LET root == ParsedNode(pattern.node, pattern.back)
    IN  IF pattern.back /\ ~pattern.exact THEN Reversed(root) ELSE root

\* The least number of characters n takes.
RECURSIVE ComputeMinLength(_)
ComputeMinLength(n) ==
    CASE n.kind \in OneWidthKinds \cup {"charClass"} -> 1
      [] n.kind = "string" -> Len(n.str)
      [] n.kind = "and" -> FoldLeft(LAMBDA len, m : len + ComputeMinLength(m), 0, n.nodes)
      [] n.kind = "or" -> Min({ComputeMinLength(n.nodes[i]) : i \in DOMAIN n.nodes})
      [] n.kind \in LoopKinds -> n.min * ComputeMinLength(n.node)
      [] n.kind \in {"capture", "atom"} -> ComputeMinLength(n.node)
      [] n.kind \in IfKinds -> Min({ComputeMinLength(n.then), ComputeMinLength(n.else)})
      [] OTHER -> 0

\* And does not ask its nodes.
RECURSIVE NeedStack(_)
NeedStack(n) ==
    \/ n.kind \in {"capture", "charClass", "or", "lookaround"} \cup LoopKinds \cup IfKinds
    \/ n.kind = "atom" /\ NeedStack(n.node)

-----------------------------------------------------------------------------
(* The scanner takes the first node off the tree, when it can search for it *)

ScannedTests == {"AfterNewline", "BeforeNewline", "EndOfLine", "EndOfString",
                 "Posn", "StartOfString"}

Scannable(n) == \/ PlainChar(n)
                \/ n.kind = "string"
                \/ n.kind = "zeroWidth" /\ n.test \in ScannedTests

Void == [kind |-> "void"]

RECURSIVE FirstNode(_)
FirstNode(n) ==
    IF n.kind = "and" /\ n.nodes # <<>> THEN FirstNode(n.nodes[1]) ELSE n

RECURSIVE WithoutFirst(_)
WithoutFirst(n) ==
    IF n.kind # "and" THEN Void
    ELSE IF n.nodes[1].kind = "and" THEN [n EXCEPT !.nodes[1] = WithoutFirst(@)]
    ELSE [n EXCEPT !.nodes = Tail(@)]

\* Sunday's shifts: how far the place moves when the character behind
\* (before, in a backward search) the compared text is ch.
Shifts(str, back) ==
    LET m == Len(str)
        at(ch) == {i \in 1 .. m : str[i] = ch}
    IN  [ch \in Chars |->
            IF at(ch) = {} THEN (IF back THEN -(m + 1) ELSE m + 1)
            ELSE IF back THEN -Min(at(ch))
            ELSE m + 1 - Max(at(ch))]

Scanner(n, back) ==
    CASE ~Scannable(n)        -> [method |-> "Full", len |-> 0]
      [] n.kind = "char"      -> [method |-> "Char", len |-> 1, char |-> n.char]
      [] n.kind = "string"    -> [method |-> "String", len |-> Len(n.str), str |-> n.str,
                                  shift |-> Shifts(n.str, back)]
      [] n.kind = "zeroWidth" -> [method |-> n.test, len |-> 0]

-----------------------------------------------------------------------------
(* Instructions *)

OneWidth(test, back)   == [op |-> "OneWidth", test |-> test, back |-> back]
Labelled(op, to)       == [op |-> op, to |-> to]
Plain(op)              == [op |-> op]
Pruning(op, rest, back) == [op |-> op, rest |-> rest, back |-> back]

\* Nested loops of one kind are one loop.
MaxMul(max1, max2) ==
    IF max1 = 0 \/ max2 = 0 THEN 0
    ELSE IF Infinity \in {max1, max2} THEN max1
    ELSE max1 * max2

RECURSIVE FoldNestedLoop(_, _, _, _)
FoldNestedLoop(kind, min, max, sub) ==
    IF sub.kind # kind \/ sub.min = sub.max
    THEN [min |-> min, max |-> max, node |-> sub]
    ELSE FoldNestedLoop(kind, min * sub.min, MaxMul(max, sub.max), sub.node)

\* How often a node may be written out instead of looping.
MaxFixed(kind) == CASE kind = "any" -> 10
                    [] kind = "char" -> 20
                    [] kind = "oneWidth" -> 30
                    [] OTHER -> 0

CompileMaxFixed(count, n) ==
    IF n.kind = "char" /\ count > 1
    THEN <<[op |-> IF n.not THEN "StringNe" ELSE "String", back |-> n.back,
            str |-> [i \in 1 .. count |-> n.char]]>>
    ELSE [i \in 1 .. count |-> OneWidth(n.test, n.back)]

\* A repeated character without a bound is one instruction; only for "."
\* and a character is a count of two or more written in front of it.
IsMaxSimple(loop) ==
    /\ loop.max = Infinity
    /\ loop.node.kind \in OneWidthKinds
    /\ loop.node.kind \in {"any", "char"} => loop.min - 1 =< MaxFixed(loop.node.kind)

CompileMaxSimple(loop, rest, pc) ==
    LET n == loop.node
        fixed == IF n.kind \in {"any", "char"} /\ loop.min > 1
                 THEN CompileMaxFixed(loop.min - 1, n) ELSE <<>>
    IN  (IF loop.min = 0 THEN <<Labelled("Or", pc + 2)>> ELSE fixed)
            \o <<[op |-> "Repeat", test |-> n.test, rest |-> rest, back |-> n.back]>>

RECURSIVE Compile(_, _, _, _)

\* rest: the least number of characters that must follow;
\* depth: how many loops are around.
RECURSIVE CompileAnd(_, _, _, _)
CompileAnd(nodes, rest, pc, depth) ==
    IF nodes = <<>> THEN <<>>
    ELSE LET behind == FoldLeft(LAMBDA len, n : len + ComputeMinLength(n), 0, Tail(nodes))
             code   == Compile(Head(nodes), rest + behind, pc, depth)
         IN  code \o CompileAnd(Tail(nodes), rest, pc + Len(code), depth)

RECURSIVE CompileOr(_, _, _, _)
CompileOr(nodes, rest, pc, depth) ==
    IF Len(nodes) = 1 THEN Compile(nodes[1], rest, pc, depth)
    ELSE LET code   == Compile(nodes[1], rest, pc + 1, depth)
             second == pc + Len(code) + 2
             others == CompileOr(Tail(nodes), rest, second, depth)
         IN  <<Labelled("Or", second)>> \o code
                 \o <<Labelled("Go", second + Len(others))>> \o others

\* A class of several members that must not match: each is tried at the same
\* character.
CompileNotClass(n) ==
    FlattenSeq([i \in DOMAIN n.nodes |->
        <<OneWidth(Chars \ n.nodes[i].test, n.back)>>
            \o IF i < Len(n.nodes) THEN <<OneWidth(Chars, ~n.back)>> ELSE <<>>])

CompileLookaround(n, rest, pc, depth) ==
    LET body == Compile(n.node, rest, pc + 2, depth)
    IN  IF n.positive
        THEN <<Plain("SaveCxp"), Plain("SavePosn")>> \o body
                 \o <<Plain("RestorePosn"), Plain("RestoreCxp")>>
        ELSE IF n.node.kind = "void" THEN <<Plain("Fail")>>
        ELSE <<Plain("SaveCxp"), Labelled("Or", pc + Len(body) + 4)>> \o body
                 \o <<Plain("RestoreCxp"), Plain("Fail"), Plain("RestoreCxp")>>

\* The else part, behind a jump of the then part over it; undo is what it
\* must do first.
CompileElse(n, undo, rest, pc, depth) ==
    IF n.else.kind = "void" THEN <<>>
    ELSE LET code == undo \o Compile(n.else, rest, pc + 1 + Len(undo), depth)
         IN  <<Labelled("Go", pc + 1 + Len(code))>> \o code

CompileIf(n, rest, pc, depth) ==
    LET then == Compile(n.then, rest, pc + 1, depth)
        else == CompileElse(n, <<>>, rest, pc + 1 + Len(then), depth)
    IN  <<[op |-> "CaptureIfNot", nth |-> n.cond.nth,
           to |-> pc + 1 + Len(then) + (IF else = <<>> THEN 0 ELSE 1)]>> \o then \o else

CompileIfLookaround(n, rest, pc, depth) ==
    LET cond == Compile(n.cond, rest, pc + 2, depth) \o <<Plain("RestoreCxp")>>
        then == Compile(n.then, rest, pc + 2 + Len(cond), depth)
        end  == pc + 2 + Len(cond) + Len(then)
        else == CompileElse(n, <<Plain("RestoreCxp")>>, rest, end, depth)
    IN  <<Plain("SaveCxp"), Labelled("Or", end + (IF else = <<>> THEN 0 ELSE 1))>>
            \o cond \o then \o else

CompileLoop(n, loop, rest, pc, depth) ==
    LET null    == ComputeMinLength(loop.node) = 0
        counter == loop.min >= 2 \/ loop.max # Infinity
        greedy  == n.kind = "max"
        loopPc  == pc + (IF loop.min = 0 THEN 1 ELSE 0) + (IF counter THEN 1 ELSE 0)
        body    == (IF null THEN <<Plain("PushPosn")>> ELSE <<>>)
                       \o Compile(loop.node, rest, loopPc + (IF null THEN 1 ELSE 0), depth + 1)
        prune   == IF rest = 0 THEN <<>>
                   ELSE <<Pruning(IF depth = 1 THEN "Rest" ELSE "Last", rest, n.back)>>
        exit    == loopPc + Len(body) + (IF null THEN 1 ELSE 0) + Len(prune) + 1
    IN  (IF loop.min > 0 THEN <<>> ELSE <<Labelled(IF greedy THEN "Or" ELSE "Push", exit)>>)
            \o (IF counter THEN <<[op |-> "PushInt", int |-> -loop.min]>> ELSE <<>>)
            \o body
            \o (IF null THEN <<Labelled(IF counter THEN "Nulc" ELSE "Null", exit)>> ELSE <<>>)
            \o prune
            \o <<IF counter
                 THEN [op |-> IF greedy THEN "Max" ELSE "Min", to |-> loopPc,
                       times |-> loop.max - loop.min]
                 ELSE Labelled(IF greedy THEN "Push" ELSE "Or", loopPc)>>

CompileMinMax(n, rest, pc, depth) ==
    LET loop  == FoldNestedLoop(n.kind, n.min, n.max, n.node)
        fixed == IF n.kind = "max" THEN loop.node ELSE n.node
        once  == Compile(n.node, rest, pc + 1, depth)
    IN  CASE loop.min = 0 /\ loop.max = 0 -> <<>>
          [] loop.min = 0 /\ loop.max = 1 ->
                 <<Labelled(IF n.kind = "max" THEN "Or" ELSE "Push", pc + 1 + Len(once))>>
                     \o once
          [] loop.min = loop.max /\ loop.min =< MaxFixed(fixed.kind) ->
                 CompileMaxFixed(loop.min, fixed)
          [] n.kind = "max" /\ loop.max = Infinity /\ IsMaxSimple(loop) ->
                 CompileMaxSimple(loop, rest, pc)
          [] OTHER -> CompileLoop(n, loop, rest, pc, depth)

Compile(n, rest, pc, depth) ==
    CASE n.kind = "void"          -> <<>>
      [] n.kind \in OneWidthKinds -> <<OneWidth(n.test, n.back)>>
      [] n.kind = "string"        -> <<[op |-> "String", str |-> n.str, back |-> n.back]>>
      [] n.kind = "zeroWidth"     -> <<[op |-> "ZeroWidth", test |-> n.test]>>
      [] n.kind = "and"           -> CompileAnd(n.nodes, rest, pc, depth)
      [] n.kind = "or"            -> CompileOr(n.nodes, rest, pc, depth)
      [] n.kind = "charClass"     -> IF n.not THEN CompileNotClass(n)
                                     ELSE CompileOr(n.nodes, rest, pc, depth)
      [] n.kind = "captureEq"     -> <<[op |-> "CaptureEq", nth |-> n.nth, back |-> n.back]>>
      [] n.kind = "capture"       -> <<Plain("PushPosn")>> \o Compile(n.node, rest, pc + 1, depth)
                                         \o <<[op |-> "Capture", nth |-> n.nth, back |-> n.back]>>
      [] n.kind = "atom"          -> IF NeedStack(n.node)
                                     THEN <<Plain("SaveCxp")>> \o Compile(n.node, 0, pc + 1, depth)
                                              \o <<Plain("RestoreCxp")>>
                                     ELSE Compile(n.node, 0, pc, depth)
      [] n.kind = "lookaround"    -> CompileLookaround(n, rest, pc, depth)
      [] n.kind = "if"            -> CompileIf(n, rest, pc, depth)
      [] n.kind = "ifLookaround"  -> CompileIfLookaround(n, rest, pc, depth)
      [] n.kind \in LoopKinds     -> CompileMinMax(n, rest, pc, depth)

\* Only the last of the loops that are not in one other loop keeps the check
\* that gives up for good.
PatchOpLast(code) ==
    LET lasts == {i \in DOMAIN code : code[i].op = "Last"}
    IN  [i \in DOMAIN code |->
            IF i \in lasts /\ i # Max(lasts) THEN [code[i] EXCEPT !.op = "Rest"] ELSE code[i]]

\* What the engine needs of a pattern.
Program(pattern) ==
    LET tree  == Parsed(pattern)
        first == FirstNode(tree)
        root  == IF Scannable(first) THEN WithoutFirst(tree) ELSE tree
    IN  [back    |-> pattern.back,
         scanner |-> Scanner(first, pattern.back),
         minLen  |-> ComputeMinLength(root),
         code    |-> PatchOpLast(Compile(root, 0, 1, 0)) \o <<Plain("Success")>>]
=============================================================================
