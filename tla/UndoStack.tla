------------------------------ MODULE UndoStack ------------------------------
(***************************************************************************)
(* text::UndoStack with its undo steps, driven by the edits of a           *)
(* text::Buffer: every insertion and deletion is recorded or merged into   *)
(* the step on top, Undo and Redo play steps backwards and forwards, undo  *)
(* groups make several edits one unit, and the revision number of the      *)
(* buffer tells the script layer whether a document is modified.           *)
(*                                                                         *)
(* A step is a record: [kind |-> "begin"] and [kind |-> "end"] bracket a   *)
(* group; an "insert" or "delete" step holds the range [start, end), the   *)
(* revision before the edit and a text.  The name of a group is left out.  *)
(* Names of the operators follow the classes: InsertTryMerge is            *)
(* InsertUndoStep::TryMerge, and so on.                                    *)
(***************************************************************************)
EXTENDS TextOps, FiniteSets, SequencesExt

CONSTANTS
  Char,         \* the characters
  Newline,      \* the newline character, 0x0A
  Texts,        \* the texts callers insert
  LoadedText,   \* what the document held when it was loaded
  MaxLength,    \* bound: length of the text
  MaxEdits,     \* bound: number of edits by the callers
  MaxGroups     \* bound: undo groups on both stacks, open or not

ASSUME NewlineAssumption == Newline \in Char
ASSUME TextsAssumption ==
  /\ LoadedText \in Seq(Char)
  /\ \A s \in Texts : s \in Seq(Char) /\ s # << >>
ASSUME BoundsAssumption ==
  MaxLength \in Nat /\ MaxEdits \in Nat /\ MaxGroups \in Nat /\ Len(LoadedText) <= MaxLength

VARIABLES
  text,           \* the characters of the buffer
  revision,       \* Buffer::revision_
  undoSteps,      \* UndoStack::undo_steps_, the last one is on top
  redoSteps,      \* UndoStack::redo_steps_
  openGroups,     \* undo groups begun and not ended
  edits,          \* edits made so far (for MaxEdits)
  staleSteps,     \* history: redo steps, from the bottom, that are older
                  \* than the last edit
  brokenSteps,    \* history: undo steps, from the bottom, up to the last one
                  \* that was merged in front or redone when it was stale
  before,         \* history: for each undo step, text and revision before it
  beforeRedo      \* history: the same for each redo step

vars == <<text, revision, undoSteps, redoSteps, openGroups,
          edits, staleSteps, brokenSteps, before, beforeRedo>>

-----------------------------------------------------------------------------
(* Steps                                                                   *)

BeginStep == [kind |-> "begin"]
EndStep == [kind |-> "end"]

InsertStep(rev, start, end) ==
  [kind |-> "insert", start |-> start, end |-> end, revision |-> rev, text |-> << >>]

DeleteStep(rev, start, end, txt) ==
  [kind |-> "delete", start |-> start, end |-> end, revision |-> rev, text |-> txt]

CountKind(steps, lo, hi, kind) == Cardinality({i \in lo..hi : steps[i].kind = kind})

Begun(steps) == CountKind(steps, 1, Len(steps), "begin")

IsTextStep(step) == step.kind \in {"insert", "delete"}

GetBeforeUndo(step) == IF step.kind = "insert" THEN step.end ELSE step.start
GetBeforeRedo(step) == IF step.kind = "insert" THEN step.start ELSE step.end

(* Whether the range of the new insertion is next to the one of `last`.    *)
(* The text t is the text after the insertion.                             *)
InsertFollows(t, last, new) == last.end = new.start /\ t[last.end] # Newline
InsertPrecedes(t, last, new) ==
  last.end # new.start /\ last.start = new.end /\ t[last.start] # Newline

(* Each TryMerge yields the set of the merged steps: at most one, none if  *)
(* the steps do not merge.                                                 *)
InsertTryMerge(t, last, new) ==
  IF InsertFollows(t, last, new) THEN {[last EXCEPT !.end = new.end]}
  ELSE IF InsertPrecedes(t, last, new) THEN {[last EXCEPT !.start = new.start]}
  ELSE {}

(* Mutant of DeleteTryMerge: the Delete key puts the characters in front.  *)
DeleteTryMergeReversed(last, new) ==
  IF Newline \in {new.text[1], new.text[Len(new.text)]} THEN {}
  ELSE IF last.start = new.end
    THEN {[last EXCEPT !.text = new.text \o @, !.start = new.start]}
  ELSE IF last.start = new.start
    THEN {[last EXCEPT !.text = new.text \o @, !.end = @ + (new.end - new.start)]}
  ELSE {}

DeleteTryMerge(last, new) ==
  IF Newline \in {new.text[1], new.text[Len(new.text)]} THEN {}
  ELSE IF last.start = new.end      \* Backspace key
    THEN {[last EXCEPT !.text = new.text \o @, !.start = new.start]}
  ELSE IF last.start = new.start    \* Delete key
    THEN {[last EXCEPT !.text = @ \o new.text, !.end = @ + (new.end - new.start)]}
  ELSE {}

TryMerge(t, last, new) ==
  IF last.kind # new.kind THEN {}
  ELSE IF last.kind = "insert" THEN InsertTryMerge(t, last, new)
  ELSE DeleteTryMerge(last, new)

(* The new insertion ends where the one on top of the undo steps starts.   *)
(* The merged step then claims all from the start of the new one to the    *)
(* end of the old one, which is not where the old one is now: an undo      *)
(* removes other characters than were inserted.                            *)
FrontMerges(t, new) ==
  /\ undoSteps # << >>
  /\ Last(undoSteps).kind = "insert"
  /\ InsertPrecedes(t, Last(undoSteps), new)

(* Merged steps on top of a stack.                                         *)
Merges(t, steps, new) == IF steps = << >> THEN {} ELSE TryMerge(t, Last(steps), new)

-----------------------------------------------------------------------------
(* Edits of the buffer in State::Normal                                    *)

Record(t, new) ==
  LET merged == Merges(t, undoSteps, new)
  IN  IF merged # {}
      THEN /\ undoSteps' = Append(Front(undoSteps), CHOOSE step \in merged : TRUE)
           /\ before' = before
      ELSE /\ undoSteps' = Append(undoSteps, new)
           /\ before' = Append(before, [text |-> text, revision |-> revision])

(* What every edit does besides: a new tick, and the redo steps stay.      *)
Edited ==
  /\ revision' = revision + 1
  /\ edits' = edits + 1
  /\ staleSteps' = Len(redoSteps)
  /\ UNCHANGED <<redoSteps, beforeRedo, openGroups>>

(* Buffer::InsertBefore and UndoStack::DidInsertBefore, which runs after   *)
(* the tick and so records revision() - 1.                                 *)
InsertBefore(p, s) ==
  LET after == Inserted(text, p, s)
      new == InsertStep(revision, p, p + Len(s))
  IN  /\ edits < MaxEdits
      /\ Len(after) <= MaxLength
      /\ text' = after
      /\ Record(after, new)
      /\ brokenSteps' = IF FrontMerges(after, new) THEN Len(undoSteps) ELSE brokenSteps
      /\ Edited

(* Buffer::Delete and UndoStack::WillDeleteAt, which runs before the       *)
(* characters go.                                                          *)
Delete(start, end) ==
  /\ edits < MaxEdits
  /\ start < end
  /\ text' = Removed(text, start, end)
  /\ Record(text, DeleteStep(revision, start, end, Slice(text, start, end)))
  /\ UNCHANGED brokenSteps
  /\ Edited

-----------------------------------------------------------------------------
(* Undo groups                                                             *)

BeginUndoGroup ==
  /\ Begun(undoSteps) + Begun(redoSteps) < MaxGroups
  /\ edits < MaxEdits
  /\ undoSteps' = Append(undoSteps, BeginStep)
  /\ before' = Append(before, [text |-> text, revision |-> revision])
  /\ openGroups' = openGroups + 1
  /\ UNCHANGED <<text, revision, redoSteps, beforeRedo, edits, staleSteps, brokenSteps>>

(* Mutant of EndUndoGroup: an empty group is kept.                         *)
EndUndoGroupKept ==
  /\ openGroups > 0
  /\ openGroups' = openGroups - 1
  /\ undoSteps' = Append(undoSteps, EndStep)
  /\ before' = Append(before, [text |-> text, revision |-> revision])
  /\ UNCHANGED <<text, revision, redoSteps, beforeRedo, edits, staleSteps, brokenSteps>>

(* An empty group merges into its begin step, which is popped.             *)
EndUndoGroup ==
  /\ openGroups > 0
  /\ openGroups' = openGroups - 1
  /\ IF Last(undoSteps) = BeginStep
     THEN /\ undoSteps' = Front(undoSteps)
          /\ before' = Front(before)
     ELSE /\ undoSteps' = Append(undoSteps, EndStep)
          /\ before' = Append(before, [text |-> text, revision |-> revision])
  /\ UNCHANGED <<text, revision, redoSteps, beforeRedo, edits, staleSteps, brokenSteps>>

-----------------------------------------------------------------------------
(* Undo and Redo                                                           *)

(* The first step of the unit on top of the undo steps: the loop of Undo   *)
(* stops when as many begin as end steps were popped.  In redo steps the   *)
(* roles are swapped.                                                      *)
Closed(steps, i) ==
  CountKind(steps, i, Len(steps), "begin") = CountKind(steps, i, Len(steps), "end")

UnitStart(steps) ==
  CHOOSE i \in 1..Len(steps) :
    Closed(steps, i) /\ \A j \in (i + 1)..Len(steps) : ~Closed(steps, j)

(* The text step that decides at which offset Undo or Redo takes place:    *)
(* the one on top when the brackets of groups are skipped.                 *)
TopTextStep(steps) ==
  steps[CHOOSE i \in DOMAIN steps : IsTextStep(steps[i])
          /\ \A j \in (i + 1)..Len(steps) : ~IsTextStep(steps[j])]

(* Buffer::Delete clamps its range to the text, and does nothing when none *)
(* of it is left.                                                          *)
ClampedEnd(t, end) == IF end > Len(t) THEN Len(t) ELSE end

Deletes(t, step) == step.start < ClampedEnd(t, step.end)

DeletedFrom(t, start, end) == Removed(t, start, ClampedEnd(t, end))

(* Mutant of WithText: the text is taken from the start of the buffer.     *)
WithTextOfFront(t, step) ==
  [step EXCEPT !.text = Slice(t, 0, ClampedEnd(t, step.end) - step.start)]

(* An insert step learns its text, for a later redo, when it is undone.    *)
WithText(t, step) ==
  IF Deletes(t, step)
  THEN [step EXCEPT !.text = Slice(t, step.start, ClampedEnd(t, step.end))]
  ELSE step

(* One step played backwards; b holds the text and revision of the buffer  *)
(* and the redo steps.  The revision is the one before the edit again.     *)
UndoInsert(b, step) ==
  [text |-> DeletedFrom(b.text, step.start, step.end),
   revision |-> step.revision,
   steps |-> Append(b.steps, WithText(b.text, step))]

UndoDelete(b, step) ==
  [text |-> Inserted(b.text, step.start, step.text),
   revision |-> step.revision,
   steps |-> Append(b.steps, step)]

UndoStep(b, step) ==
  CASE step.kind = "insert" -> UndoInsert(b, step)
    [] step.kind = "delete" -> UndoDelete(b, step)
    [] OTHER -> [b EXCEPT !.steps = Append(@, step)]

(* One step played forwards; the revision only counts the edit.            *)
RedoInsert(b, step) ==
  [text |-> Inserted(b.text, step.start, step.text),
   revision |-> b.revision + 1,
   steps |-> Append(b.steps, step)]

RedoDelete(b, step) ==
  [text |-> DeletedFrom(b.text, step.start, step.end),
   revision |-> IF Deletes(b.text, step) THEN b.revision + 1 ELSE b.revision,
   steps |-> Append(b.steps, step)]

RedoStep(b, step) ==
  CASE step.kind = "insert" -> RedoInsert(b, step)
    [] step.kind = "delete" -> RedoDelete(b, step)
    [] OTHER -> [b EXCEPT !.steps = Append(@, step)]

(* The checks of Buffer::InsertBefore, of deleteChars for a range that     *)
(* starts behind the text, and of InsertUndoStep::Redo for its text.       *)
InsertionFits(t, step) == step.start <= Len(t)
DeletionFits(t, step) == step.start <= ClampedEnd(t, step.end)

StepFits(redo, t, step) ==
  CASE step.kind = "insert" ->
         IF redo THEN InsertionFits(t, step) /\ Len(step.text) = step.end - step.start
         ELSE DeletionFits(t, step)
    [] step.kind = "delete" ->
         IF redo THEN DeletionFits(t, step) ELSE InsertionFits(t, step)
    [] OTHER -> TRUE

(* The loop of Redo, or of Undo: the steps on a stack are played from the  *)
(* top down, one after the other.  PlayedTo(...)[i] is the buffer when     *)
(* step i has been played.                                                 *)
PlayStep(redo, b, step) == IF redo THEN RedoStep(b, step) ELSE UndoStep(b, step)

PlayedTo(redo, b, steps) ==
  LET play[i \in 1..(Len(steps) + 1)] ==
        IF i > Len(steps) THEN b ELSE PlayStep(redo, play[i + 1], steps[i])
  IN  play

(* The unit on top is played.  Where one of its steps, from the top, does  *)
(* not fit the text it meets, a DCHECK fails and the program ends.         *)
Played(redo, b, steps) == PlayedTo(redo, b, steps)[UnitStart(steps)]

CheckFails(redo, b, steps) ==
  LET play == PlayedTo(redo, b, steps)
      top == Len(steps)
  IN  \E n \in 0..(top - UnitStart(steps)) :
        ~StepFits(redo, play[top + 1 - n].text, steps[top - n])

(* Buffer and redo steps before and after Undo.                            *)
Undoing == [text |-> text, revision |-> revision, steps |-> redoSteps]
Undone == Played(FALSE, Undoing, undoSteps)

(* Buffer and undo steps before Redo.                                      *)
Redoing == [text |-> text, revision |-> revision, steps |-> undoSteps]

(* Buffer and undo steps after Redo of the unit on top of `redos`.         *)
Redone(txt, rev, undos, redos) ==
  Played(TRUE, [text |-> txt, revision |-> rev, steps |-> undos], redos)

(* What stays on a stack, and the history of the unit, its top step first. *)
RestOf(steps) == SubSeq(steps, 1, UnitStart(steps) - 1)
UnitOf(steps, history) ==
  [i \in 1..(Len(steps) + 1 - UnitStart(steps)) |-> history[Len(steps) + 1 - i]]

CanUndo == undoSteps # << >> /\ openGroups = 0
CanRedo == redoSteps # << >> /\ openGroups = 0

(* The unit on top has not been made out of place.                         *)
InPlace == UnitStart(undoSteps) > brokenSteps
Fresh == UnitStart(redoSteps) > staleSteps

(* Undo and Redo only play a unit when they are called with the offset of  *)
(* its top text step; with any other offset they return that offset and    *)
(* change nothing, a stuttering step here.                                 *)
Undo ==
  /\ CanUndo
  /\ ~CheckFails(FALSE, Undoing, undoSteps)
  /\ Len(Undone.text) <= MaxLength
  /\ text' = Undone.text
  /\ revision' = Undone.revision
  /\ redoSteps' = Undone.steps
  /\ undoSteps' = RestOf(undoSteps)
  /\ before' = SubSeq(before, 1, UnitStart(undoSteps) - 1)
  /\ beforeRedo' = beforeRedo \o UnitOf(undoSteps, before)
  /\ brokenSteps' = IF InPlace THEN brokenSteps ELSE Len(undoSteps')
  /\ staleSteps' = IF InPlace THEN staleSteps ELSE Len(redoSteps')
  /\ UNCHANGED <<openGroups, edits>>

(* Edits do not clear the redo steps, so what is redone may be stale.      *)
Redo ==
  /\ CanRedo
  /\ ~CheckFails(TRUE, Redoing, redoSteps)
  /\ LET after == Redone(text, revision, undoSteps, redoSteps)
     IN  /\ Len(after.text) <= MaxLength
         /\ text' = after.text
         /\ revision' = after.revision
         /\ undoSteps' = after.steps
  /\ redoSteps' = RestOf(redoSteps)
  /\ before' = before \o UnitOf(redoSteps, beforeRedo)
  /\ beforeRedo' = SubSeq(beforeRedo, 1, UnitStart(redoSteps) - 1)
  /\ brokenSteps' = IF Fresh THEN brokenSteps ELSE Len(undoSteps')
  /\ staleSteps' = IF Fresh THEN staleSteps ELSE Len(redoSteps')
  /\ UNCHANGED <<openGroups, edits>>

(* ClearUndo; the loader of a file calls it when the text is read.         *)
Clear ==
  /\ openGroups = 0
  /\ undoSteps' = << >>
  /\ redoSteps' = << >>
  /\ before' = << >> /\ beforeRedo' = << >>
  /\ staleSteps' = 0 /\ brokenSteps' = 0
  /\ UNCHANGED <<text, revision, openGroups, edits>>

-----------------------------------------------------------------------------
Init ==
  /\ text = LoadedText /\ revision = 0
  /\ undoSteps = << >> /\ redoSteps = << >>
  /\ openGroups = 0 /\ edits = 0
  /\ staleSteps = 0 /\ brokenSteps = 0
  /\ before = << >> /\ beforeRedo = << >>

Next ==
  \/ \E p \in 0..Len(text), s \in Texts : InsertBefore(p, s)
  \/ \E start, end \in 0..Len(text) : Delete(start, end)
  \/ BeginUndoGroup \/ EndUndoGroup
  \/ Undo \/ Redo \/ Clear

Spec == Init /\ [][Next]_vars

-----------------------------------------------------------------------------
(* Properties                                                              *)

Steps ==
  {BeginStep, EndStep} \cup
  [kind : {"insert", "delete"}, start : Nat, end : Nat, revision : Nat, text : Seq(Char)]

(* Type invariant, with a history entry for each undo step.                *)
TypeOK ==
  /\ text \in Seq(Char) /\ Len(text) <= MaxLength
  /\ revision \in Nat
  /\ \A i \in DOMAIN undoSteps : undoSteps[i] \in Steps
  /\ \A i \in DOMAIN redoSteps : redoSteps[i] \in Steps
  /\ Len(before) = Len(undoSteps) /\ Len(beforeRedo) = Len(redoSteps)
  /\ staleSteps \in 0..Len(redoSteps) /\ brokenSteps \in 0..Len(undoSteps)
  /\ openGroups \in Nat /\ edits \in 0..MaxEdits

(* The brackets of groups stay well nested on both stacks through merging, *)
(* undo and redo, and no group is empty: the loops of Undo and Redo end at *)
(* the matching bracket, and the scan for the first text step finds one.   *)
GroupsNest ==
  /\ TypeOK
  /\ \A i \in DOMAIN undoSteps :
       CountKind(undoSteps, 1, i, "end") <= CountKind(undoSteps, 1, i, "begin")
  /\ CountKind(undoSteps, 1, Len(undoSteps), "begin")
       = CountKind(undoSteps, 1, Len(undoSteps), "end") + openGroups
  /\ \A i \in DOMAIN redoSteps :
       CountKind(redoSteps, 1, i, "begin") <= CountKind(redoSteps, 1, i, "end")
  /\ CountKind(redoSteps, 1, Len(redoSteps), "begin")
       = CountKind(redoSteps, 1, Len(redoSteps), "end")
  /\ \A i \in 2..Len(undoSteps) : <<undoSteps[i - 1], undoSteps[i]>> # <<BeginStep, EndStep>>
  /\ \A i \in 2..Len(redoSteps) : <<redoSteps[i - 1], redoSteps[i]>> # <<EndStep, BeginStep>>

(* Undo brings back exactly the text from before the unit it plays was     *)
(* first made and the revision the buffer had then, however many edits     *)
(* were merged into its steps and however often the unit was undone and    *)
(* redone since (buffer.h: "Does undo last modification").  The offset     *)
(* Undo returns is a place in the text: commands move the selection there. *)
(* Two things are excluded, since the code goes wrong there: a unit with   *)
(* an insertion merged in front of the one before it (UndoesLast), and one *)
(* that was redone after an edit (RedoFits); and the units below such a    *)
(* one.  Units made later on top of them are not excluded.                 *)
UndoRestores ==
  CanUndo /\ InPlace =>
    LET then == before[UnitStart(undoSteps)]
    IN  /\ Undone.text = then.text /\ Undone.revision = then.revision
        /\ GetBeforeUndo(TopTextStep(undoSteps)) \in 0..Len(text)
        /\ ~CheckFails(FALSE, Undoing, undoSteps)

(* Redo right after Undo takes the undo back: the same text, the same      *)
(* steps to undo next, and what was there to redo before.  And as long as  *)
(* no edit comes between, whatever is undone and redone in the meantime,   *)
(* the offset Redo returns is a place in the text and every step of the    *)
(* unit fits the text it meets (the DCHECKs of Buffer::InsertBefore).      *)
(* RedoFits is about the redo of what is older than an edit.               *)
RedoTakesUndoBack ==
  /\ CanRedo /\ Fresh =>
       /\ GetBeforeRedo(TopTextStep(redoSteps)) \in 0..Len(text)
       /\ ~CheckFails(TRUE, Redoing, redoSteps)
  /\ CanUndo /\ InPlace =>
       LET u == Undone
           r == Redone(u.text, u.revision, RestOf(undoSteps), u.steps)
           Shape(s) == [i \in DOMAIN s |-> IF IsTextStep(s[i])
                                           THEN <<s[i].kind, s[i].start, s[i].end, s[i].revision>>
                                           ELSE <<s[i].kind>>]
       IN  /\ r.text = text
           /\ Shape(r.steps) = Shape(undoSteps)
           /\ RestOf(u.steps) = redoSteps

-----------------------------------------------------------------------------
(* What the sources say, and the code does not do                          *)

(* buffer.h: "Does undo last modification": Undo of what was never undone  *)
(* or redone, so no redo is involved, brings back the text before it.      *)
UndoesLast ==
  CanUndo /\ redoSteps = << >> /\ ~CheckFails(FALSE, Undoing, undoSteps) =>
    Undone.text = before[UnitStart(undoSteps)].text

(* buffer.h: "Does redo last undo operation if it starts at |offset|", and *)
(* the DCHECKs of Buffer::InsertBefore (a valid offset) and of             *)
(* BufferCore::deleteChars (a valid range).  Where the offset of the unit  *)
(* that Redo plays is in the text, its steps fit the text, be it stale.    *)
RedoFits ==
  CanRedo /\ GetBeforeRedo(TopTextStep(redoSteps)) \in 0..Len(text) =>
    ~CheckFails(TRUE, Redoing, redoSteps)
=============================================================================
