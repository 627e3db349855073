---------------------------- MODULE Highlighter ----------------------------
(***************************************************************************)
(* Syntax highlighting (highlights.Tokenizer under HighlightEngine).  A    *)
(* state machine generated from the token patterns of a language runs over *)
(* the text in small tasks and paints tokens; after an edit it starts      *)
(* again in front of the edit, and skips the tokens behind it that are     *)
(* still right.  It learns of edits by the records of MutationTracker.     *)
(***************************************************************************)
EXTENDS MutationTracker, TokenRanges

CONSTANTS
  LF,          \* the newline character
  State,       \* the states of the machine, 0 the start
  Move,        \* kTransitionMap: Move[s][c] is the state after s on c
  Acceptable,  \* kIsAcceptableState: the states that end a token
  SyntaxOf,    \* kStateToTokenMap: the syntax of a state, or ""
  Increment,   \* incrementalCount, the characters a task scans
  MaxEdits     \* bound: edits and loads of a behavior

(* A task scans at least one character.                                   *)
ASSUME IncrementAssumption == Increment \in Nat \ {0}

VARIABLES
  color,           \* the syntax markers: the syntax of each character
  map,             \* rangeMap_
  scanOffset,      \* scanOffset_
  documentLength,  \* documentLength_
  queued,          \* taskScheduler has the engine's task
  disturbed,       \* history: a scan was under way at an edit, or ran before
                   \* the tokenizer knew of one, since the text was loaded
  edits            \* edits and loads so far

tokenizerVars == <<map, scanOffset, documentLength>>
vars == <<trackerVars, color, tokenizerVars, queued, disturbed, edits>>

(* The markers are a sticky set, of which MarkerColors is the abstraction. *)
Colors == INSTANCE MarkerColors WITH
  kind <- "Sticky", Type <- {SyntaxOf[s] : s \in State}, NoType <- NoSyntax

-----------------------------------------------------------------------------
(* A scan p is the state of processRange: the map, the colors painted, the *)
(* range lastRange and the identity of token, or none, and the state of    *)
(* the machine.                                                            *)
Painted(colors, start, end, syntax) ==
  SubSeq(colors, 1, start) \o [i \in 1..(end - start) |-> syntax]
    \o SubSeq(colors, end + 1, Len(colors))

PaintToken(p, t) ==
  LET k == p.map.tokens[t]
  IN  [p EXCEPT !.color = Painted(@, k.start, k.end, k.syntax)]

SetEnd(p, t, end) == [p EXCEPT !.map.tokens[t].end = end]

(* endRange of lastRange, if there is one.                                 *)
EndRange(p, end) ==
  IF p.last = {} THEN p
  ELSE LET r == The(p.last)
           ended == [r EXCEPT !.end = end]
           kept == RemoveBetween(p.map, r.end, end).ranges \ p.last
       IN  [SetEnd(p, r.token, end) EXCEPT !.map.ranges = kept \cup {ended}, !.last = {ended}]

EndToken(p) ==
  IF p.token = {} THEN p ELSE [PaintToken(p, The(p.token)) EXCEPT !.token = {}]

NewToken(p, o, syntax) ==
  LET t == FreshToken(p.map)
      known == p.map.tokens
      new == [start |-> o, end |-> o + 1, syntax |-> syntax]
  IN  [p EXCEPT !.map.tokens = [u \in DOMAIN known \cup {t} |-> IF u = t THEN new ELSE known[u]],
                !.token = {t}]

(* A token whose syntax is not known yet takes that of its next state; one *)
(* of another syntax ends here.                                            *)
StartOrExtendToken(p, o, state) ==
  LET syntax == IF state = 0 THEN "zero" ELSE SyntaxOf[state]
      t == The(p.token)
      known == p.map.tokens[t].syntax
  IN  IF p.token = {} THEN NewToken(p, o, syntax)
      ELSE IF known \in {NoSyntax, syntax}
           THEN [SetEnd(p, t, o + 1) EXCEPT !.map.tokens[t].syntax = syntax]
           ELSE NewToken(EndToken(SetEnd(p, t, o)), o, syntax)

StartRange(p, o, state) ==
  LET r == [start |-> o, end |-> o + 1, state |-> state, token |-> The(p.token)]
  IN  [p EXCEPT !.map.ranges = @ \cup {r}, !.last = {r}, !.state = state]

(* A range found at the offset is still right when it starts its token and *)
(* the machine is in its state.                                            *)
CanUseRange(m, r, state) == r.state = state /\ TokenOf(m, r).start = r.start

FollowersOf(m, q) == RangeStartsAt(m, TokenOf(m, q).end)

(* skipExistingRanges: the last range of the last token of those that      *)
(* follow each other from range r on; each ends behind the one before.     *)
SkipExistingRanges(m, r, endOffset) ==
  LET last == While(LAMBDA q : TokenOf(m, q).end < endOffset /\ FollowersOf(m, q) # {},
                    LAMBDA q : The(FollowersOf(m, q)), r, endOffset)
  IN  The(RangeEndsAt(m, TokenOf(m, last).end))

(* The machine meets another state at o, or the first character: a range   *)
(* starts that extends the token or begins one.                            *)
BeginRange(p, o, state) ==
  LET cut == [p EXCEPT !.map = Without(@, RangeStartsAt(@, o))]
      begun == StartRange(StartOrExtendToken(cut, o, state), o, state)
  IN  IF state \in Acceptable THEN [EndToken(begun) EXCEPT !.state = 0] ELSE begun

EndScan(p, scanEnd) ==
  IF p.last = {} THEN [p EXCEPT !.offset = scanEnd]
  ELSE [PaintToken(EndRange(p, scanEnd), The(p.last).token) EXCEPT !.offset = scanEnd]

(* One turn of the loop of processRange that does not end the scan.        *)
Advance(p, o, endOffset) ==
  LET moved == Move[p.state][text[o + 1]]
      state == IF moved = 0 THEN Move[0][text[o + 1]] ELSE moved
      ended == IF moved = 0 THEN EndToken(EndRange(p, o)) ELSE EndRange(p, o)
      usable == {r \in RangeStartsAt(ended.map, o) : CanUseRange(ended.map, r, state)}
      last == SkipExistingRanges(ended.map, The(usable), endOffset)
  IN  IF moved = p.state /\ p.last # {} THEN [p EXCEPT !.offset = o + 1]
      ELSE IF usable = {} THEN [BeginRange(ended, o, state) EXCEPT !.offset = o + 1]
      ELSE [ended EXCEPT !.last = {last}, !.token = {last.token},
                         !.state = last.state, !.offset = last.end, !.skipped = TRUE]

(* The loop; a skip to the end of the scan or behind leaves it at once.    *)
(* Each turn gets at least one character on.                               *)
Scan(p, scanEnd, endOffset) ==
  LET q == While(LAMBDA x : x.offset < scanEnd,
                 LAMBDA x : Advance([x EXCEPT !.skipped = FALSE], x.offset, endOffset),
                 p, scanEnd)
  IN  IF q.skipped THEN q ELSE EndScan(q, scanEnd)

(* Mutant of Resumed: the scan always starts a token.                      *)
ResumedAfresh(m, colors, start) ==
  [map |-> m, color |-> colors, offset |-> start, token |-> {}, state |-> 0,
   last |-> RangeEndsAt(m, start), skipped |-> FALSE]

(* The scan goes on from the range that ends at start: its token, when its *)
(* state does not end it.  The start of the text follows a newline.        *)
Resumed(m, colors, start) ==
  LET before == RangeEndsAt(m, start)
      r == The(before)
      blank == before # {} /\ TokenOf(m, r).syntax = NoSyntax
      goesOn == before # {} /\ r.state \notin Acceptable
  IN  [map |-> IF blank THEN [m EXCEPT !.tokens[r.token].syntax = SyntaxOf[r.state]] ELSE m,
       color |-> colors,
       offset |-> start,
       last |-> before,
       token |-> IF goesOn THEN {r.token} ELSE {},
       state |-> IF start = 0 THEN Move[0][LF] ELSE IF goesOn THEN r.state ELSE 0,
       skipped |-> FALSE]

(* processRange; start and end of the text are startOffset and endOffset.  *)
ProcessRange(m, colors, start, scanEnd, length) ==
  IF start >= scanEnd THEN [map |-> m, color |-> colors, offset |-> start]
  ELSE Scan(Resumed(m, colors, start), scanEnd, length)

MaxOffset(knownLength) == Least(knownLength, Len(text))

(* Mutant of ScheduleUpdte: a text that ends before the scan is done.      *)
ScheduleUpdteAhead(offset, end, waiting) == queued' = (waiting \/ offset < end - 1)

(* scheduleUpdte: the task is scheduled, once, unless the scan is finished.*)
ScheduleUpdte(offset, end, waiting) == queued' = (waiting \/ offset # end)

(* HighlightEngine.doColor.                                                *)
DoColor(m, start, knownLength, hint) ==
  LET end == MaxOffset(knownLength)
      p == ProcessRange(m, color, start, Least(start + hint, end), end)
  IN  /\ color' = p.color
      /\ map' = Collected(p.map)
      /\ scanOffset' = p.offset
      /\ documentLength' = knownLength
      /\ ScheduleUpdte(p.offset, end, FALSE)

IsFinished == scanOffset = MaxOffset(documentLength)

-----------------------------------------------------------------------------
(* Attaching the mode of the document makes the engine and has it color    *)
(* all of the text.                                                        *)
Init ==
  /\ TrackerInit
  /\ LET p == ProcessRange(EmptyMap, [i \in 1..Len(text) |-> NoSyntax], 0, Len(text), Len(text))
     IN  color = p.color /\ map = Collected(p.map) /\ scanOffset = p.offset
  /\ documentLength = Len(text)
  /\ queued = FALSE
  /\ disturbed = FALSE
  /\ edits = 0

Edit ==
  /\ edits < MaxEdits
  /\ edits' = edits + 1
  /\ \/ \E p \in 0..Len(text), c \in Char :
          InsertBefore(p, <<c>>) /\ Colors!StickyInsert(p, 1)
     \/ \E start, end \in 0..Len(text) :
          Delete(start, end) /\ Colors!StickyDelete(start, end)
  /\ disturbed' = (disturbed \/ (queued /\ ~mutated))
  /\ UNCHANGED <<tokenizerVars, queued>>

(* The map and the offset from which the next task scans.                  *)
Restart(m) ==
  LET before == RangeBefore(m, head)
  IN  scanOffset' = IF scanOffset < head THEN scanOffset
                    ELSE IF before = {} THEN 0 ELSE The(before).end

(* didChangeTextDocument, called by the micro task with the record.        *)
DidChangeTextDocument ==
  /\ RunCallback
  /\ LET m == ChangedMap(map, head, tail, delta, Len(text))
     IN  IF mutated
         THEN /\ map' = Collected(m)
              /\ documentLength' = Len(text)
              /\ Restart(m)
              /\ ScheduleUpdte(scanOffset', Len(text), queued)
         ELSE UNCHANGED <<tokenizerVars, queued>>
  /\ UNCHANGED <<color, disturbed, edits>>

(* HighlightEngine.run, called by the task scheduler when the script       *)
(* thread is idle.  The micro tasks run at the end of each script task, so *)
(* a record is only pending here when another idle task has edited.        *)
Run ==
  /\ queued
  /\ DoColor(map, scanOffset, documentLength, Increment)
  /\ disturbed' = (disturbed \/ ~connected \/ mutated)
  /\ UNCHANGED <<trackerVars, edits>>

WillLoadTextDocument ==
  /\ edits < MaxEdits
  /\ edits' = edits + 1
  /\ Disconnect
  /\ UNCHANGED <<color, tokenizerVars, queued, disturbed>>

DidLoadTextDocument ==
  /\ Observe
  /\ DoColor(EmptyMap, 0, Len(text), Len(text))
  /\ disturbed' = FALSE
  /\ edits' = edits

Next ==
  \/ Edit
  \/ DidChangeTextDocument
  \/ Run
  \/ WillLoadTextDocument
  \/ DidLoadTextDocument

(* Micro tasks run after each task of the script thread, and a load ends,  *)
(* in success or failure.  Idle tasks run when the script thread is idle:  *)
(* the last line is WF_vars(Run), for Run is enabled when it is queued and *)
(* leaves the variables different.                                         *)
Fairness ==
  /\ WF_scheduled(scheduled /\ scheduled' = FALSE)
  /\ WF_connected(~connected /\ connected' = TRUE)
  /\ []<>~queued \/ []<><<Run>>_vars

Spec == Init /\ [][Next]_vars /\ Fairness

-----------------------------------------------------------------------------
(* The machine that is run over all of the text: the state it has after a *)
(* character c, the first one or one behind a character it left in state s.*)
(* A state that ends a token is followed by the start; a character no      *)
(* token begins with stays with the ended token.                           *)
FirstState(c) == LET moved == Move[Move[0][LF]][c] IN IF moved = 0 THEN Move[0][c] ELSE moved

Restarted(s) == IF s \in Acceptable THEN 0 ELSE s

NextState(s, c) ==
  LET moved == Move[Restarted(s)][c]
  IN  IF moved # 0 THEN moved ELSE IF Restarted(s) = 0 THEN s ELSE Move[0][c]

BeginsToken(s, c) == (Restarted(s) = 0) <=> (Move[Restarted(s)][c] # 0)

StatesOf(t) ==
  LET f[i \in 1..Len(t)] ==
        IF i = 1 THEN [state |-> FirstState(t[1]), first |-> TRUE]
        ELSE LET s == f[i - 1].state
             IN  [state |-> NextState(s, t[i]), first |-> BeginsToken(s, t[i])]
  IN  f

(* A character has the syntax of its state or, when the machine could not  *)
(* tell yet, of the next state of its token that has one.                  *)
ColorsOf(t) ==
  LET f == StatesOf(t)
      g[i \in 1..(Len(t) + 1)] ==
        IF i = Len(t) + 1 THEN NoSyntax
        ELSE IF SyntaxOf[f[i].state] # NoSyntax \/ (i < Len(t) /\ f[i + 1].first)
             THEN SyntaxOf[f[i].state]
             ELSE g[i + 1]
  IN  [i \in 1..Len(t) |-> g[i]]

Settled == connected /\ ~mutated /\ IsFinished

(* Whatever was edited, the map describes the text as it is: its ranges    *)
(* are in order, inside their tokens and inside the text, and up to the    *)
(* offset of the scan they have the states that one scan over all of it    *)
(* would give.                                                             *)
RangesRight ==
  connected /\ ~mutated /\ ~disturbed =>
    /\ ValidMap(map)
    /\ scanOffset <= Len(text) /\ \A r \in map.ranges : r.end <= Len(text)
    /\ LET run == StatesOf(text)
       IN  \A i \in 1..scanOffset : \E r \in map.ranges :
             r.start < i /\ i <= r.end /\ r.state = run[i].state

(* Each character of a token that has a syntax has the color the run gives *)
(* it; a token that an edit cut off has lost its syntax and may not have   *)
(* it yet.                                                                 *)
ColorsRight ==
  LET right == ColorsOf(text)
  IN  \A r \in map.ranges :
        TokenOf(map, r).syntax = NoSyntax \/
          \A i \in (r.start + 1)..r.end : color[i] = right[i]

(* Coloring comes to an end, with the right colors.  The edits may stop    *)
(* after any of them, so this is about every state the coloring rests in.  *)
ColoringEnds == <>[](Settled /\ (~disturbed => ColorsRight))
=============================================================================
