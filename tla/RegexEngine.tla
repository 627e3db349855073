---------------------------- MODULE RegexEngine -----------------------------
(***************************************************************************)
(* The regular expression engine: a search for a pattern in a part of a    *)
(* text.  The scanner of the program proposes places; at each the engine   *)
(* runs the program.  What an instruction does that may have to be undone, *)
(* and every choice that is left for later, is pushed on the control       *)
(* stack; an instruction that fails makes the engine backtrack, which pops *)
(* it.  Counters and marks of loops are on the value stack.                *)
(*                                                                         *)
(* A step of the model is one instruction, one entry of the control stack  *)
(* popped, or one move of the scanner.  Positions count from 0.  The cells *)
(* above the count of the control stack keep what they held, for the       *)
(* engine relies on it.                                                    *)
(***************************************************************************)
EXTENDS RegexProgram

CONSTANTS Newline,    \* the newline character
          Patterns,   \* a sequence of patterns
          Searches    \* records: a pattern, by its index, a text, start and end

Programs == [i \in DOMAIN Patterns |-> Program(Patterns[i])]

VARIABLES search,     \* the call of StartMatch
          program,    \* what the pattern was compiled to
          engine      \* the state of the engine

vars == <<search, program, engine>>

FromHere == -8        \* next: go on from where the attempt stops
Done     == -9        \* next: there is no other place to try

Back    == program.back
TextEnd == Len(search.text)

CharAt(p)       == search.text[p + 1]
Text(from, to)  == SubSeq(search.text, from + 1, Min({to, TextEnd}))
Instruction     == program.code[engine.pc]
Unbound         == [i \in 1 .. Patterns[search.pattern].captures |-> <<-1, -1>>]

Ended == {"matched", "unmatched", "broken"}

-----------------------------------------------------------------------------
(* The stacks *)

CodeCell(code) == [code |-> code, value |-> 0]
ValueCell(v)   == [code |-> "none", value |-> v]

\* e after a control with its operands is pushed.
CPush(e, code, operands) ==
    LET new == [i \in DOMAIN operands |-> ValueCell(Reverse(operands)[i])]
                   \o <<CodeCell(code)>>
    IN  [e EXCEPT !.cells = SubSeq(@, 1, e.count) \o new
                                \o SubSeq(@, e.count + Len(new) + 1, Len(@)),
                  !.count = @ + Len(new)]

\* e after a control and n operands are popped.
CPop(e, n) == [e EXCEPT !.count = @ - (n + 1)]

TopCode(e)    == IF e.count = 0 THEN "none" ELSE e.cells[e.count].code
Operand(e, k) == e.cells[e.count - k].value

VPush(e, v) == [e EXCEPT !.values = Append(@, v)]
VPop(e)     == [e EXCEPT !.values = Front(@)]
VTop(e)     == Last(e.values)

VCut(e, n)  == [e EXCEPT !.values = SubSeq(@, 1, n)]

GoTo(e, pc, posn) == [e EXCEPT !.phase = "run", !.pc = pc, !.posn = posn]
Advance(e)        == [e EXCEPT !.pc = @ + 1]
Fail(e)           == [e EXCEPT !.phase = "backtrack"]

\* What the code takes for impossible.
Broken(e) == [e EXCEPT !.phase = "broken"]

-----------------------------------------------------------------------------
(* The scanner *)

ScanStop == IF Back THEN search.start + program.minLen ELSE search.end - program.minLen

Onward(p) == IF Back THEN p - 1 ELSE p + 1
InScan(p) == IF Back THEN p >= ScanStop ELSE p =< ScanStop

\* The nearest occurrence of ch from p on before stop, as a set of none or
\* one; a backward search answers with the position behind the character.
FindChar(ch, p, stop) ==
    IF Back THEN LET at == {q \in stop + 1 .. p : CharAt(q - 1) = ch}
                 IN  IF at = {} THEN {} ELSE {Max(at)}
            ELSE LET at == {q \in p .. stop - 1 : CharAt(q) = ch}
                 IN  IF at = {} THEN {} ELSE {Min(at)}

\* The same for the string of the scanner, by Sunday's algorithm.
RECURSIVE FindString(_, _)
FindString(scanner, p) ==
    LET m     == scanner.len
        stop  == IF Back THEN ScanStop + m ELSE ScanStop
        found == IF Back THEN (IF p < stop THEN {} ELSE FindChar(Last(scanner.str), p, stop))
                 ELSE IF p > ScanStop - m THEN {} ELSE FindChar(scanner.str[1], p, stop)
        Tried(q) ==
            LET from == IF Back THEN q - m ELSE q
                next == IF Back THEN q - m - 1 ELSE q + m
            IN  IF Text(from, from + m) = scanner.str THEN {q}
                ELSE IF (IF Back THEN next =< ScanStop ELSE next >= ScanStop) THEN {}
                ELSE FindString(scanner, q + scanner.shift[CharAt(next)])
    IN  UNION {Tried(q) : q \in found}

IsEndOfLine(p) == \/ p = TextEnd
                  \/ p = TextEnd - 1 /\ CharAt(p) = Newline

\* Where the program is to run next: at, the match beginning in from, and
\* where the scanner goes on then.  A set of none or one.
Proposed(e) ==
    LET scanner == program.scanner
        Place(at, from, next) == [at |-> at, from |-> from, next |-> next]
        behind(p) == IF Back THEN p - scanner.len ELSE p + scanner.len
        newlines  == IF InScan(e.next) THEN FindChar(Newline, e.next, ScanStop) ELSE {}
    IN  CASE scanner.method = "Full" ->
                 {Place(p, p, Onward(p)) : p \in {q \in {e.next} : InScan(q)}}
          [] scanner.method = "Char" ->
                 {Place(behind(p), p, Onward(p)) : p \in FindChar(scanner.char, e.next, ScanStop)}
          [] scanner.method = "String" ->
                 {Place(behind(p), p, Onward(p)) : p \in FindString(scanner, e.next)}
          [] scanner.method = "AfterNewline" ->
                 {Place(p + 1, p + 1, Onward(p + 1)) : p \in newlines}
          [] scanner.method = "BeforeNewline" ->
                 {Place(p, p, Onward(p)) : p \in newlines}
          [] scanner.method = "EndOfLine" ->
                 {Place(p, p, Onward(e.next)) :
                     p \in {q \in {e.posn} : InScan(e.next) /\ IsEndOfLine(q)}}
          [] scanner.method = "EndOfString" ->
                 {Place(p, p, Done) : p \in {TextEnd} \cap
                     (IF Back THEN 0 .. e.posn ELSE e.posn .. TextEnd)}
          [] scanner.method = "StartOfString" ->
                 {Place(p, p, Done) : p \in {0} \cap
                     (IF Back THEN 0 .. e.posn ELSE e.posn .. TextEnd)}
          [] scanner.method = "Posn" -> {Place(e.posn, e.posn, Done)}

\* execute: the program begins at a place.
Attempt(e, place) ==
    [e EXCEPT !.phase = "run", !.pc = 1, !.posn = place.at, !.from = place.from,
              !.next = place.next, !.cxp = 2, !.count = 2, !.values = <<>>,
              !.captures = Unbound]

\* Where the scanners for line ends go on behind the first place.
AfterFirst(p) == IF program.scanner.method = "BeforeNewline" THEN Onward(p) ELSE p

AttemptFailed(e) ==
    [e EXCEPT !.phase = IF e.next = Done THEN "unmatched" ELSE "scan",
              !.next = IF e.next = FromHere THEN AfterFirst(e.posn) ELSE @,
              !.captures = Unbound]

-----------------------------------------------------------------------------
(* The steps *)

Becomes(e) == engine' = e /\ UNCHANGED <<search, program>>

\* Execute: the first scan, or the first try of the scanners for line ends.
Begin ==
    LET posn    == IF Back THEN search.end ELSE search.start
        atOnce  == \/ program.scanner.method = "AfterNewline" /\ posn = 0
                   \/ program.scanner.method = "BeforeNewline" /\ posn = TextEnd
        started == [CPush(CPush(engine, "Fail", <<>>), "Fail", <<>>) EXCEPT
                       !.phase = "scan", !.posn = posn, !.next = AfterFirst(posn),
                       !.limit = IF Back THEN search.start - 1 ELSE search.end + 1]
    IN  /\ engine.phase = "idle"
        /\ Becomes(IF atOnce
                   THEN Attempt(started, [at |-> posn, from |-> posn, next |-> FromHere])
                   ELSE started)

\* The scanner proposes the next place, or there is none.
Scan ==
    /\ engine.phase = "scan"
    /\ IF Proposed(engine) = {} THEN Becomes([engine EXCEPT !.phase = "unmatched"])
       ELSE \E place \in Proposed(engine) : Becomes(Attempt(engine, place))

-----------------------------------------------------------------------------
(* Instructions *)

AtOp(ops) == engine.phase = "run" /\ Instruction.op \in ops

\* The position n characters on in the direction of the instruction.
Ahead(p, n) == IF Instruction.back THEN p - n ELSE p + n

RunOneWidth ==
    LET p  == engine.posn
        at == IF Instruction.back THEN p - 1 ELSE p
    IN  /\ AtOp({"OneWidth"})
        /\ Becomes(IF at \in 0 .. TextEnd - 1 /\ CharAt(at) \in Instruction.test
                   THEN Advance([engine EXCEPT !.posn = Ahead(p, 1)])
                   ELSE Fail([engine EXCEPT !.posn = IF Instruction.back THEN at ELSE p]))

\* A string must lie in the part that is searched.
RunString ==
    LET p    == engine.posn
        next == Ahead(p, Len(Instruction.str))
        fits == IF Instruction.back
                THEN next >= search.start /\ Text(next, p) = Instruction.str
                ELSE next =< search.end /\ Text(p, next) = Instruction.str
    IN  /\ AtOp({"String"})
        /\ Becomes(IF fits THEN Advance([engine EXCEPT !.posn = next]) ELSE Fail(engine))

IsWord(p) == CharAt(p) # Newline

Holds(test, p) ==
    CASE test = "AfterNewline"  -> p = 0 \/ CharAt(p - 1) = Newline
      [] test = "BeforeNewline" -> p = TextEnd \/ CharAt(p) = Newline
      [] test = "EndOfLine"     -> IsEndOfLine(p)
      [] test = "EndOfString"   -> p = TextEnd
      [] test = "StartOfString" -> p = 0
      [] test = "Posn"          -> p = IF Back THEN search.end ELSE search.start
      [] test = "Boundary"      -> \/ p \in {0, TextEnd}
                                   \/ ~IsWord(p - 1)
                                   \/ ~IsWord(p)

RunZeroWidth ==
    /\ AtOp({"ZeroWidth"})
    /\ Becomes(IF Holds(Instruction.test, engine.posn) THEN Advance(engine) ELSE Fail(engine))

\* There is no instruction StringNe in the engine.
RunFail ==
    /\ AtOp({"Fail", "StringNe"})
    /\ Becomes(Fail(engine))

RunGo ==
    /\ AtOp({"Go"})
    /\ Becomes([engine EXCEPT !.pc = Instruction.to])

RunOr ==
    /\ AtOp({"Or"})
    /\ Becomes(Advance(CPush(engine, "Continue", <<Instruction.to, engine.posn>>)))

RunPush ==
    /\ AtOp({"Push"})
    /\ Becomes([CPush(engine, "Continue", <<engine.pc + 1, engine.posn>>) EXCEPT
                   !.pc = Instruction.to])

RunPushInt ==
    /\ AtOp({"PushInt"})
    /\ Becomes(Advance(VPush(CPush(engine, "PopInt", <<>>), Instruction.int)))

RunPushPosn ==
    /\ AtOp({"PushPosn"})
    /\ Becomes(Advance(VPush(CPush(engine, "PopPosn", <<>>), engine.posn)))

\* What a capture was before is kept also when it was unbound.
RunCapture ==
    LET mark  == VTop(engine)
        old   == engine.captures[Instruction.nth]
        saved == CPush(CPush(VPop(engine), "PushPosn", <<mark>>),
                       "Capture", <<Instruction.nth, old[1], old[2]>>)
    IN  /\ AtOp({"Capture"})
        /\ Becomes(Advance([saved EXCEPT !.captures[Instruction.nth] =
               IF Instruction.back THEN <<engine.posn, mark>> ELSE <<mark, engine.posn>>]))

\* A back reference read from right to left looks the wrong way.
RunCaptureEq ==
    LET bound == engine.captures[Instruction.nth]
        len   == bound[2] - bound[1]
        next  == engine.posn + len
        equal == IF Instruction.back THEN len = 0
                 ELSE next =< TextEnd /\ Text(bound[1], bound[2]) = Text(engine.posn, next)
    IN  /\ AtOp({"CaptureEq"})
        /\ Becomes(IF equal THEN Advance([engine EXCEPT !.posn = next]) ELSE Fail(engine))

\* Does the caller know a capture of this number?
Known(nth) == nth \in DOMAIN Unbound

RunCaptureIfNot ==
    /\ AtOp({"CaptureIfNot"})
    /\ Becomes(IF Known(Instruction.nth) THEN Advance(engine)
               ELSE [engine EXCEPT !.pc = Instruction.to])

\* The end of a loop's body that may have taken nothing.
RunNull ==
    LET mark    == VTop(engine)
        popped  == CPush(VPop(engine), "PushPosn", <<mark>>)
        counter == Instruction.op = "Nulc"
    IN  /\ AtOp({"Null", "Nulc"})
        /\ Becomes(IF engine.posn # mark THEN Advance(popped)
                   ELSE [IF counter
                         THEN CPush(VPop(popped), "PushInt", <<VTop(popped)>>)
                         ELSE popped
                         EXCEPT !.pc = Instruction.to])

\* The checks that what follows the loop has room left.
RunRest ==
    LET next == Ahead(engine.posn, Instruction.rest)
        room == IF Instruction.back THEN next >= 0 /\ next > engine.limit
                ELSE next =< TextEnd /\ next < engine.limit
    IN  /\ AtOp({"Rest"})
        /\ Becomes(IF room THEN Advance(engine) ELSE Fail(engine))

RunLast ==
    LET next == Ahead(engine.posn, -Instruction.rest)
        room == IF Instruction.back THEN next >= 0 /\ next > engine.limit
                ELSE next =< TextEnd /\ next < engine.limit
    IN  /\ AtOp({"Last"})
        /\ Becomes(IF ~room THEN Fail(engine)
                   ELSE Advance([engine EXCEPT
                            !.limit = IF next - 1 = @ THEN next ELSE @]))

\* The counter runs from -min to max - min.
Counted(e, count) == VPush(CPush(e, "PopInt", <<>>), count)

RunMax ==
    LET count  == VTop(engine) + 1
        popped == CPush(VPop(engine), "PushInt", <<VTop(engine)>>)
        choice == CPush(popped, "Continue", <<engine.pc + 1, engine.posn>>)
        loop(e) == [Counted(e, count) EXCEPT !.pc = Instruction.to]
    IN  /\ AtOp({"Max"})
        /\ Becomes(IF count = Instruction.times THEN Advance(popped)
                   ELSE IF count < 0 THEN loop(popped)
                   ELSE loop(choice))

\* A lazy loop that has enough loops on all the same, without a counter.
RunMin ==
    LET count  == VTop(engine) + 1
        popped == CPush(VPop(engine), "PushInt", <<VTop(engine)>>)
        choice == CPush(popped, "Continue", <<engine.pc + 1, engine.posn>>)
    IN  /\ AtOp({"Min"})
        /\ Becomes(IF count = Instruction.times THEN Advance(popped)
                   ELSE [IF count < 0 THEN Counted(popped, count)
                         ELSE CPush(choice, "PushInt", <<count>>)
                         EXCEPT !.pc = Instruction.to])

\* One character and as many more as there are, with room for the rest; one
\* that is read from right to left ends on the character that is none.
RunRepeat ==
    LET p        == engine.posn
        furthest == IF Instruction.back THEN Instruction.rest ELSE TextEnd - Instruction.rest
        ends(q)  == q = furthest \/ CharAt(q) \notin Instruction.test
        stop     == IF Instruction.back
                    THEN Max({q \in furthest .. p - 1 : ends(q)})
                    ELSE Min({q \in p .. furthest : ends(q)})
        taken    == IF Instruction.back THEN furthest < p ELSE furthest > p /\ stop # p
        control  == IF Instruction.back THEN "Repeat_B" ELSE "Repeat_F"
    IN  /\ AtOp({"Repeat"})
        /\ Becomes(IF taken
                   THEN Advance([CPush(engine, control, <<engine.pc + 1, stop, p>>) EXCEPT
                                    !.posn = stop])
                   ELSE Fail(engine))

RunSaveCxp ==
    LET saved == CPush(engine, "SaveCxp", <<engine.cxp, Len(engine.values)>>)
    IN  /\ AtOp({"SaveCxp"})
        /\ Becomes(Advance([saved EXCEPT !.cxp = saved.count]))

\* The choices since SaveCxp are given up, and with them the cell below it.
RunRestoreCxp ==
    LET at == engine.cxp
    IN  /\ AtOp({"RestoreCxp"})
        /\ Becomes(IF at < 4 \/ engine.cells[at].code # "SaveCxp" THEN Broken(engine)
                   ELSE Advance([VCut(engine, engine.cells[at - 2].value) EXCEPT
                            !.cxp = engine.cells[at - 1].value, !.count = at - 4]))

RunSavePosn ==
    /\ AtOp({"SavePosn"})
    /\ Becomes(Advance(VPush(engine, engine.posn)))

RunRestorePosn ==
    LET posn == VTop(engine)
    IN  /\ AtOp({"RestorePosn"})
        /\ Becomes(Advance([CPush(VPop(engine), "SavePosn", <<posn>>) EXCEPT !.posn = posn]))

RunSuccess ==
    /\ AtOp({"Success"})
    /\ Becomes([engine EXCEPT !.phase = "matched",
                    !.match = IF Back THEN <<engine.posn, engine.from>>
                              ELSE <<engine.from, engine.posn>>])

Run == \/ RunOneWidth   \/ RunString      \/ RunZeroWidth \/ RunFail
       \/ RunGo         \/ RunOr          \/ RunPush
       \/ RunPushInt    \/ RunPushPosn    \/ RunCapture   \/ RunCaptureEq
       \/ RunCaptureIfNot \/ RunNull      \/ RunRest      \/ RunLast
       \/ RunMax        \/ RunMin         \/ RunRepeat
       \/ RunSaveCxp    \/ RunRestoreCxp  \/ RunSavePosn  \/ RunRestorePosn
       \/ RunSuccess

-----------------------------------------------------------------------------
(* Backtracking *)

AtControl(codes) == engine.phase = "backtrack" /\ TopCode(engine) \in codes

\* The attempt fails at one of the two entries below all others.  An entry
\* that is none is what the code takes for impossible.
BackFail ==
    /\ AtControl({"Fail", "none"})
    /\ Becomes(IF TopCode(engine) = "none" THEN Broken(engine)
               ELSE AttemptFailed(CPop(engine, 0)))

BackContinue ==
    /\ AtControl({"Continue"})
    /\ Becomes(GoTo(CPop(engine, 2), Operand(engine, 1), Operand(engine, 2)))

\* Mutant of BackCapture: the capture keeps what the failed way has set.
BackCaptureKeeping ==
    /\ AtControl({"Capture"})
    /\ Becomes(CPop(engine, 3))

BackCapture ==
    /\ AtControl({"Capture"})
    /\ Becomes([CPop(engine, 3) EXCEPT
                   !.captures[Operand(engine, 1)] = <<Operand(engine, 2), Operand(engine, 3)>>])

BackPop ==
    /\ AtControl({"PopInt", "PopPosn"})
    /\ Becomes(IF engine.values = <<>> THEN Broken(engine) ELSE VPop(CPop(engine, 0)))

BackPush ==
    /\ AtControl({"PushInt", "PushPosn"})
    /\ Becomes(VPush(CPop(engine, 1), Operand(engine, 1)))

\* Mutant of BackRepeat: it goes on from the position it has tried.
BackRepeatStuck ==
    LET first == Operand(engine, 3)
        posn  == Operand(engine, 2)
    IN  /\ AtControl({"Repeat_F", "Repeat_B"})
        /\ Becomes(IF posn = first THEN CPop(engine, 3)
                   ELSE GoTo([engine EXCEPT !.cells[engine.count - 2].value = posn],
                             Operand(engine, 1), posn))

\* One character less, until there would be none; the entry stays.
BackRepeat ==
    LET first == Operand(engine, 3)
        posn  == Operand(engine, 2) + IF TopCode(engine) = "Repeat_B" THEN 1 ELSE -1
    IN  /\ AtControl({"Repeat_F", "Repeat_B"})
        /\ Becomes(IF posn = first THEN CPop(engine, 3)
                   ELSE GoTo([engine EXCEPT !.cells[engine.count - 2].value = posn],
                             Operand(engine, 1), posn))

BackSaved ==
    /\ AtControl({"SaveCxp", "SavePosn"})
    /\ Becomes(IF TopCode(engine) = "SavePosn"
               THEN [CPop(engine, 1) EXCEPT !.posn = Operand(engine, 1)]
               ELSE VCut([CPop(engine, 2) EXCEPT !.cxp = Operand(engine, 1)],
                         Operand(engine, 2)))

Backtrack == \/ BackFail \/ BackContinue \/ BackCapture \/ BackPop \/ BackPush
             \/ BackRepeat \/ BackSaved

-----------------------------------------------------------------------------

Init ==
    /\ search \in Searches
    /\ program = Programs[search.pattern]
    /\ engine = [phase |-> "idle", next |-> 0, from |-> 0, posn |-> 0, pc |-> 1,
                 cxp |-> 0, limit |-> 0, cells |-> <<>>, count |-> 0, values |-> <<>>,
                 captures |-> Unbound, match |-> <<>>]

Next == Begin \/ Scan \/ Run \/ Backtrack

Spec == Init /\ [][Next]_vars

\* The engine is a loop that runs without being interrupted.
FairSpec == Spec /\ WF_vars(Next)

-----------------------------------------------------------------------------
(* Properties *)

Meaning == INSTANCE RegexMeaning

\* StartMatch answers with the match the pattern means, with its captures,
\* or with none when there is none; and it never meets a stack its
\* assertions rule out.
FindsFirstMatch ==
    engine.phase \in Ended =>
        /\ engine.phase # "broken"
        /\ [range |-> engine.match, captures |-> engine.captures] =
               Meaning!FirstMatch(Patterns[search.pattern], search.text,
                                  search.start, search.end)

\* A search ends: no pattern makes the engine run on for ever.
MatchEnds == <>(engine.phase \in Ended)
=============================================================================
