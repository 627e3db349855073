# Models and proofs for evita

evita is a text editor for Windows. The view (windows, layout, painting) runs on
the main thread, commands and documents are JavaScript on a script thread (V8),
and file and process I/O runs on a third one. This directory models the parts of
it whose correctness is hardest to see from tests, checks them with TLC on small
instances and proves the main results with TLAPS for every value of the constants.

Paths below are relative to `src/evita/`.

## The system

| Component | State it keeps | Operations | What makes it correct |
| --- | --- | --- | --- |
| Text buffer storage, `text/models/buffer_core` | cells with a gap | insert, delete, move and extend the gap, read | edits are splices and cuts of one text |
| Undo stack, `undo_stack`, `undo_step` | undo and redo steps, state | record, merge, undo, redo, groups, clear | undo restores the text and the revision |
| Line number cache, `line_number_cache` | line starts with numbers | get, invalidate | answers what a scan of the text answers |
| Buffer, `buffer` | the above, revision, observers, markers, ranges | edits, notifications | observers see every edit, in order |
| Markers, `marker_set` | intervals of the text with a type | insert a marker, follow edits | a coloring of the text, told to the views |
| Ranges, `range`, `range_set`, `selection` | start and end offsets | set, set text, follow edits | inside the text, over the same characters |
| Layout caches, `text/layout` | formatted rows, the rows of the view | format, scroll, relocate, discard | a row shown is a row of the text |
| Idle task queue, `dom/scheduler/idle_task_queue` | waiting and ready tasks, map | give, cancel, run, stop | owned once, run once, run in the end |
| Script task scheduling, `dom/scheduler/scheduler_impl`, `dom/script_thread` | task queue, callbacks, frame counter | schedule, process, begin frame | no lost wakeup, order |
| View frame scheduler, `editor/scheduler` | state, requests | request, cancel, begin frame | one frame at a time, requests served |
| Load and save, `dom/text/*.js`, `io` | promises, file, document state | open, read, write, rename, status | no loss when a step fails |
| Mutation observers, `dom/text/text_mutation_observer` | merged record | observe, deliver, disconnect | one record describes all edits since |
| Highlighting, `dom/components/highlights` | map of ranges, scan state | adjust, scan in idle tasks, paint | ranges and colors are those of a scan of the whole text |
| Regular expressions, `regex`, `dom/text/regular_expression` | program, two stacks, captures | compile, scan, run, backtrack | finds the match the pattern means, and ends |
| Timers, `dom/timers` | idle task, interval | start, stop, fire | no call after stop, repeats |
| Model lock, `editor/dom_lock`, `dom/lock` | lock, owner flag | acquire, release, enter | script and view never both in the model |
| Encodings, `text/encodings` | decoder state | decode a chunk | chunking does not matter |
| Visual tree, user interface, script components, bindings | | | see *Not modelled* |

How they interact: an edit is a call of `Buffer::InsertBefore` or `Buffer::Delete`,
which changes the storage and calls every observer (undo stack, line number cache,
ranges, markers, layout caches, mutation observers) synchronously. A mutation
observer merges the edits and delivers them to scripts in a micro task; the
highlighter adjusts its ranges there, scans the text in idle tasks and sets markers,
which the layout is told about. The view sends events to scripts with
`ScriptThread::ScheduleScriptTask`; the view's frame scheduler tells the script
thread about frames, in which animation callbacks and idle tasks run; the script
thread asks the view for frames.

Where it is hard: threads share task queues, the set of requested frames, the stop
flag of the idle queue and, without a lock, a counter of frame requests. Scripts
re-enter the queues that are running them. Everything that observes a buffer keeps
offsets which a later edit makes stale. Loads and saves are chains of promises whose
steps fail and overlap. `PROJECT.json` lists each of these hazards at its line with
the properties that cover it.

## Modules

| Module | Models | State and actions |
| --- | --- | --- |
| `Loops` | a loop as a function of its rounds | operators only |
| `TextOps` | editing a sequence of characters at zero based offsets | operators only |
| `TextBuffer` | what a buffer promises: one text, splices and cuts | `text`; `InsertBefore`, `Delete` |
| `GapBuffer` | `BufferCore` under `Buffer::InsertBefore` and `Buffer::Delete` | one record `core` with the fields of the class; the member functions are operators from a core to a core, because they call each other (`insert`, `extend`, `moveGap`) |
| `UndoStack` | the undo stack, its steps, groups and the revision; with all merges and all redos, also those that go wrong | `undoSteps`, `redoSteps`, `revision`, `openGroups`; `InsertBefore`, `Delete`, `BeginUndoGroup`, `EndUndoGroup`, `Undo`, `Redo`, `Clear`; histories of the texts before each step, and of which steps are stale or broken |
| `LineNumberCache` | the cache and its observer callbacks | `text`, `map`; `Get`, `InsertBefore`, `Delete` |
| `BufferRanges` | one buffer with its line cache and its ranges; extends `LineNumberCache` | and `range`; `GetLine`, `Insert`, `Remove`, `SetRange`, `SetText` |
| `MarkerColors` | what a marker set promises: a type at every position | `kind`, `color`; `Assign`, `StickyDelete`, `StickyInsert`, `FragileEdit` |
| `MarkerSet` | the tree of markers and its observer callbacks; implements `MarkerColors` | `kind`, `length`, `markers`, `notified`; `InsertMarker`, `DidDeleteAt`, `DidInsertBefore` |
| `BlockFlow` | the formatter's rows, the row cache and the view; extends `MarkerSet` | and `text`, `size`, `cacheSize`, `rows`, `view`, `viewStart`; `ComputeLine`, `FormatIfNeeded`, `ScrollDown`, `ScrollUp`, `ScrollToPosition`, `Resize`, `InsertBefore`, `Delete`, `SetMarker` |
| `DocumentFile` | load, save and status check of a document, with the file behind it, typing and undo between their steps; the steps of one job are those between two awaits, and the removal of a temporary file is a step of its own | `document` (with its revision, the saved one and undo steps), `file`, `job`, `temp`, `folder`, `check`, `seen`; `Save`, `Load`, `JobStep`, `RemoveFile`, `Check`, `Checked`, `Type`, `Undo`, `External` |
| `MutationTracker` | the record a mutation observer merges, and its micro task | `text`, `base`, `connected`, `head`, `tail`, `delta`, `mutated`, `scheduled`; `InsertBefore`, `Delete`, `RunCallback`, `Disconnect`, `Observe` |
| `TokenRanges` | the tokenizer's map of ranges | operators only |
| `Highlighter` | the highlight engine and the tokenizer; extends the two above | and `color`, `map`, `scanOffset`, `documentLength`, `queued`, `disturbed`, `edits`; `Edit`, `DidChangeTextDocument`, `Run`, `WillLoadTextDocument`, `DidLoadTextDocument` |
| `IdleTaskQueue` | the idle task queue with its heap of pointers, one action per round of the loop of `RunIdleTasks` | `waiting`, `ready`, `taskMap`, `address`, `shouldStop`, `phase`, `count` |
| `ScriptTasks` | `ScheduleScriptTask` on several threads, the message loop, `ProcessTasks` and `BeginFrame`; extends `IdleTaskQueue` | and `tasks`, `caller`, `loop`, `script` |
| `FrameScheduler` | the view's frame scheduler, one action per lock scope | `state`, `pending`, `timers`, `main`, `toRun`, `deferred` |
| `AnimationFrames` | `requestAnimationFrame` callbacks and the unlocked request counter; extends `FrameScheduler` | `callbacks`, `batch`, `requestCount`, `op`, `register` and the state of the scheduler |
| `RegexProgram` | the compiler: from a parse tree to a scanner and a program | operators only |
| `RegexEngine` | the scanner and the backtracking engine; a step is one instruction, one entry popped, or one move of the scanner | `search`, `program`, `engine`; `Begin`, `Scan`, an action `Run...` for each instruction, `Back...` for each entry |
| `RegexMeaning` | what a pattern means, with neither program nor stacks | operators only |
| `GapBufferProofs`, `UndoStackProofs`, `BufferRangesProofs`, `BlockFlowProofs`, `DocumentFileProofs`, `HighlighterProofs`, `ScriptTasksProofs`, `AnimationFramesProofs` | theorems, each about its component and what that extends | |
| `MC...` | values of the constants for TLC | |

Operators whose comment begins with "Mutant of" are changed forms of the definition
below them, each a mistake one could make in that code; they take no part in the
specification and show that the properties notice the mistake. A module states its
types as a conjunct of its first invariant or as an invariant of its own.

Abstractions worth knowing:

* Cells nothing was written to hold `Uninit`. Growth is taken to succeed.
* `Buffer` clamps deletions and returns early for empty edits; so do the actions.
  Undo and Redo called with an offset other than the step's return that offset and
  change nothing, which is a stuttering step.
* A heap of pointers is ordered by address, and an address is any that no live task
  has. `should_stop_` has no initialiser: it starts as either value.
* Every effect another thread can see is an action of its own. A read and a write
  of the unlocked counter are separate, and its test may use the value written or
  read the counter again, as the build likes.
* `canceled_handlers_` of the frame scheduler is never filled in the code, so the
  model has no such set.
* The deadline of a frame may pass at any moment: `EndIdleTasks` is enabled in every
  round, and `BeginFrame` may leave out the idle tasks.
* Characters have one width, rows one height (or twice that, zoomed): what the
  layout decides is where a row ends, and `FormatRow` decides that.
* The state machine of a language is generated, a constant of `Highlighter`; the
  instance is the part of C# with plain and verbatim strings.
* A document is modified when its revision is not the saved one. The edits of
  `DocumentFile` are insertions, so that its undo steps are ranges with a revision;
  `UndoStack` has the rest. Redo is left out there: it is one more way to edit after an
  undo, and that is what `UnmodifiedIsShared` no longer speaks of anyway.
* Of a failed save, the close of its file and the removal are requests nobody waits
  for. The removal may come at any later time and may fail; then the file stays, for
  nothing asks again.
* Promises run to their next await in one action. A request to the I/O thread
  succeeds, fails or is refused; time stamps are versions of a file.

## Runs

| Run | Shows | Bounds |
| --- | --- | --- |
| `gap_buffer` | the gap buffer implements `TextBuffer`; `GetText` reads the right characters | texts of up to 5 characters of two kinds, gaps of 1 to 3 cells, growth in units of 2: nearly every insertion moves the gap or grows the cells, at all places |
| `undo_stack` | undo restores text and revision through merged steps and groups, redo takes undo back and fits the text, brackets match | 3 edits, text of up to 3 characters of two kinds and newline, 2 groups (nested or one after the other): the shortest runs that merge twice, group, undo, redo and edit again |
| `buffer_ranges` | the line cache has no hole and answers right; ranges stay inside and keep their characters; `set_text` covers what it wrote | texts of up to 4 characters (a letter, newline), two ranges, offsets up to one past the end |
| `marker_set` | the marker set implements a coloring; markers stay apart and merged; every change a view does not know of is notified | two types (symmetric), sticky and fragile, texts of up to 5 positions: a marker between, over and across two others |
| `block_flow` | cached rows are disjoint and show the text; the view holds rows of the cache, without holes; a position scrolled to is shown | a view of two rows, texts of up to 3 characters, one or two columns, and two zoomed: every row wraps or ends with a newline, and the view is smaller than the text |
| `document_file` | a save has its temporary file for itself, also when removals of failed saves come late; the checking mark goes away; readonly goes back; an unmodified document has the text of its file, until an edit follows an undo or is merged in front; the file is always whole | two jobs (loads, saves, or both; symmetric), the second may start inside the first, two names for temporary files, reads and writes of two characters, texts of up to three, so that a line may fill two writes. Three edits, undone at any time (`MaxRevision`), two of them while calls overlap (`MaxOverlap`). When an edit has come after an undo nobody types until a load clears the undo steps: `UnmodifiedIsShared` says nothing there, and the other properties do not look at revisions |
| `document_modified` (violation) | type, save, undo, type: not modified, and not what was saved | one job, three edits |
| `highlighting` | the record handed over describes the edits; up to the scan, the map has the ranges of one scan over all of the text; the scan ends, and then so are the colors | C# strings over `@`, `"`, a letter and newline, texts of up to 4 characters, 2 edits, 2 characters per task. Edits are bounded, so the run may stop |
| `idle_tasks` | ownership, order, at most once and in time, all done in the end | 3 tasks (one runs, one is ready, one waits, or all three in the heap), delays of 0, 1 and 2 and two clock ticks, so that a due task hides below one that is not due, two stops |
| `script_tasks` | no lost wakeup, order, every task runs | 2 threads, 3 tasks, 2 idle tasks (one may give the other), 2 posted frames |
| `animation_frames` | one frame at a time, no request lost, every request served; a callback runs once, and as long as frames come | 2 callbacks, 1 cancellation; the script thread, a window that may defer and one that does not |
| `regex` | the compiled program finds the match and the captures that the pattern means, forward and backward, and every search ends | 50 patterns, of every construct, over two letters and newline; every text of up to 5 characters, searched in whole and less one character. The engine stops when it has the answer |

What the patterns of `regex` leave out are the places where the code does not do what
the pattern means, each described under *Observations*: windows that end before the
text does in a forward search, or begin behind its start in a backward one (only the
side the search begins on is cut); a string searched backward at the very start of the text; lookarounds,
alternatives and back references in a backward search, and its repetitions of one
character other than `.`; an atom or a lookaround with something pushed before it;
lazy loops with a count other than an exact one; `(?m)^`, `(?m)$` and `\b` in texts
with empty lines; `$` as the first node. `RegexEngine` models what the code does
there as well: with such a pattern added to `MCRegexEngine`, TLC shows the difference.
Neither is there a pattern with `\B` or with three alternatives, which the models
leave out (the parser loses one of three, `regex_parse.cc:967`).

### What the code does not keep

The last section of a module states what a comment or an assertion of the sources says
and the code does not do. `document_modified` is the run for one of these; TLC refutes
each of the others when it is added to the INVARIANTs (`FailedRemoves`: to the PROPERTIES)
of the module's configuration:

| Property | Sources | Shortest behaviour |
| --- | --- | --- |
| `UndoStack!UndoesLast` | `text/models/buffer.h:81`: "Does undo last modification" | insert x behind y, insert x in front of that: one step, whose range is too short, so undo removes y and leaves an x |
| `UndoStack!RedoFits` | `buffer.h:73`: "Does redo last undo operation", the `DCHECK`s of `buffer.cc:117` and `buffer_core.cc:34` | a group that inserts x at 0 and deletes the last character is undone, the text is deleted; redo deletes behind the end |
| `DocumentFile!UnmodifiedIsText` | `dom/windows/tab_data.js:30`: "Modified", "Not modified" | type, save, undo, type something else |
| `DocumentFile!FailedRemoves` | `dom/text/text_document_file_save.js:111`: "When error is occurred, we should remove temporary file" | the temporary file is made and can not be opened |
| `DocumentFile!NeverBusy` | `text_document_file_save.js:88`: "Encode line and write to file" | save a line that fills two buffers |
| `IdleTaskQueue!SmallerTimeOnTop` | `dom/scheduler/idle_task.cc:31`: "We want the smaller time to be at the top of the heap." | two tasks, the later one at the higher address |

These cases are not cut out of the models: the passing runs go through them. Their
properties are stated up to them. `UndoRestores` speaks of units in place (`InPlace`:
neither merged in front nor redone after an edit) and `RedoTakesUndoBack` of such units
and of what was undone after the last edit (`Fresh`); so both say that steps that went
wrong do no harm to what is done on top of them. `UnmodifiedIsShared` ends at the first
edit after an undo. `EveryTaskDone` is about finitely many tasks and stops: with new
tasks for ever, one that is due could stay hidden in the heap for ever.

### Fairness

* `IdleTaskQueue`: the clock goes on, frames keep coming and callbacks return (weak
  fairness), and a frame leaves time for one idle task again and again (strong
  fairness of a round of the loop, because the deadline and the stop flag may end
  the loop before it). Without the last, a machine that is always late never runs
  an idle task, and the code does not claim otherwise.
* `ScriptTasks`: a call of `ScheduleScriptTask` that began goes on, the script
  thread's message loop runs what is posted, a requested frame begins. Nobody has to
  schedule anything, and no frame has to come that was not requested.
* `FrameScheduler`, `AnimationFrames`: the threads go on with what they began and
  run what is posted. No handler has to ask for a frame. `CallbacksRunWithFrames`
  assumes in the property itself that frames keep coming.
* `DocumentFile`: the I/O thread answers, in one way or another. No call has to start.
* `Highlighter`: the micro task of the observer runs, a load that began ends, and an
  idle task that is queued runs. Nobody has to edit.
* `RegexEngine`: one loop that nothing interrupts; it goes on as long as it can.

## Proofs

* `GapBufferProofs`. `TypeCorrect`: the fields agree, the gap is never below
  `MIN_GAP_LENGTH`, no cell of the text is uninitialised; inductive as it stands,
  with lemmas on what `MoveMemory`, `moveGap`, `grow`, `insert` and `deleteChars` do
  to the text. `Implements`: every step is a step or a stutter of `TextBuffer`; the
  lemmas say that moving the gap and growing leave `Text(core)` alone.
  `GetTextCorrect` follows from the type invariant by the three positions of the gap.
* `UndoStackProofs`. The inductive invariant `StackInv` chains the edits: the history
  of a step is the text before it, the history of the next one (or the text of the
  buffer, on top) the text after it, and the step is exactly the edit between the two
  (`Fits`); the redo steps that are not older than an edit form such a chain in the
  other direction. Merging keeps the chain because two neighbouring cuts are one cut
  (`RemovedInFront`, `RemovedBehind`) and two insertions one (`InsertUndone`). Brackets
  are counted by `Excess`, which moves by at most one per step: so the loop of Undo or
  Redo ends where the count is balanced first (`UnitStartFacts`), a unit holds a step
  that edits (`TextStepExists`), and a unit turned over onto the other stack is well
  nested there (`MovedNested`). The loop itself is a recursive function; `UndoPlayed`
  and `RedoPlayed` follow it down the unit, with the induction stated as a fact about
  sets of numbers (`Downwards`). `GroupsStayNested`, `UndoBringsBack` and
  `RedoBringsBack` follow. All three hold with every merge and every redo of the code;
  the last two speak of units in place and of fresh redo steps. The invariant therefore
  chains only the undo steps above the last one that is out of place (`brokenSteps`)
  and the redo steps above those older than an edit (`staleSteps`); a step of the code
  that leaves the promise moves these marks up to the top of its stack.
* `BufferRangesProofs`. First the line cache alone. The inductive invariant is
  `CacheComplete` with the type invariant: an edit at p leaves the text in front of p
  alone and the cache forgets what is behind. The existence of the last line before an
  offset needs the greatest number principle, which two lemmas derive from the
  well-founded order of the natural numbers. Then the buffer: `RangesInside` and
  `CacheComplete` are inductive together: both ends of a range move by a function that keeps their order, and setting a range
  cuts and orders them anew. `set_text` is the one step that is not a step of
  `LineNumberCache` and has a lemma of its own (`SetTextEffect`), from which
  `SetTextCovers` follows; `RangesKeepText` compares the texts character by character.
* `BlockFlowProofs`. First the marker set alone. `MarkersApart` is inductive as it
  stands: `Cut` keeps markers apart and clears the range, `InsertOrMerge` needs the
  range clear, and an edit moves every end by a function that keeps their order. Since
  markers are apart, the search by end offset finds the one marker that covers a
  character (`ColorCovered`); what each operation does to that color proves
  `ChangesNotified` and, with the cut of a fragile set (`FragileColor`), the refinement
  of `MarkerColors`. Then the layout over it, which takes no other steps of the markers
  (`LayoutDrivesMarkers`).

  `LayoutInv` strengthens `RowsShowText`, `ViewOwned` and `ViewUnbroken`. It needs
  `Led`: a cached row that goes on a wrapped line has the row in front of it in the
  cache. Without it the row a formatter makes next could overlap a cached one, and the
  rows that `RemoveRows` leaves behind an edit could be moved to offsets where the line
  no longer wraps. It also needs `FullView`: a view that is not empty is full or shows the last
  row, so that `ScrollUp` never throws its last row away. An edit is followed through
  the cache as one move of offsets that leaves what it does not touch in order
  (`Edited`, `Moved`). Each loop of the layout is a `While` (`Loops`), a recursive
  function of the rounds; that the rounds exist and stay in a set closed under a turn
  (`Looped`, `LoopRounds`) is one lemma for all of them. A loop gets somewhere because
  rows are not empty, so that `MaxRows` rounds are enough.

  `CaretIsShown` adds for each loop of `ScrollToPosition` on which side of the view the
  position is. In a view of whole rows a position is shown when it is from the start of
  the view to the end of its last row (`Seen`). A turn towards the position never passes
  it (`TowardsSees`); scrolling up row by row comes to it, for the last row ends further
  down each time (`UpToSees`); scrolling down until the end of the text is out of view
  stops while the position is still in it (`AtEnd`, `PastEnd`); and centering pushes the
  row of the position down once per turn, to the middle and no further (`RowWith`,
  `CenteredSees`).
* `DocumentFileProofs`. Of each job, which bytes are in the temporary file, in the
  write under way, in the one asked for and in the buffer, and that these put together
  are what was encoded so far (`ChainsInv`); of the document, as long as no two jobs
  overlapped, that a save finds it read only, so that what was encoded is its text
  (`AloneInv`); and `CheckingEnds`. A text written line by line is the text written at
  once (`WrittenInParts`), a buffer split into writes is their concatenation
  (`SplitFields`), and the loop that encodes lines keeps the order of the bytes
  (`WriteLoopFields`). `FileIsWhole` proves the action property `FileWhole`.

  `SavedRevisionIsShared` needs what the undo steps remember (`EditsInv`, `Remembers`):
  undoing them one by one from the text of the document goes through smaller and
  smaller revisions, and where the saved one comes by, the text is the one that was
  shared. As long as nothing was undone, the saved revision is not greater than that of
  the document, so that an edit gives it one that was never saved. `DocumentInv` says
  that every step is a range of the text it would be undone in.

  `TempFileIsOwn` is `FolderInv`: names under removal belong to no save, and a name is
  given out only when no file has it. A removal that fails leaves a file nobody owns;
  the theorem does not say that none stays.
* `ScriptTasksProofs`. First the idle task queue alone. `Owned` says of every task in
  memory that it is in the map and where else, without counting, and that no two have
  one address; `EachTaskInOnePlace` follows by cardinalities (`OwnedIsOnePlace`).
  `Scheduled` says that a task without a delay never waits in the heap and stands
  behind all earlier ones; with it, every task that starts is due, not canceled, new
  and in order (`TasksRunAsAsked`). Then the composition: every step of it is, on the
  variables of the queue, one of the queue's steps or none (`StepIsQueueStep`), so
  that ownership holds there too. `NoLostWakeup` is inductive with the types of the task
  variables: `GiveTask` makes the queue nonempty and then its thread is going to
  post; only the loop of `ProcessTasks` empties it, and the loop ends only after it
  saw the queue empty under the lock. `RunInOrder` is inductive.
* `AnimationFramesProofs`. First the view's scheduler alone: `OneFrame` and
  `RequestHasFrame` with the type invariant; `NoRequestLost` proves the action property `RequestsKept` and needs that the local
  sets of `HandleAnimationFrame` are empty outside of it. Then every step of the
  composition is, on the variables of the scheduler, one of its own steps or none (`StepIsFrameStep`), so that `OneFrame` and
  `RequestHasFrame` hold in it too. `RunsOnce` is inductive: its parts say of every
  id given where its callback is, and that the batch is empty between frames.
* `HighlighterProofs`. First the record alone. `RecordsAreRight`: the record describes
  the edits since the last one. The lemma `EditDescribed` is the heart: an edit cuts the
  count of untouched characters in front and the one behind to what the edit left
  alone, and what both counts still cover is equal in the old and the new text, whatever
  the counts were before. With the types it is inductive, and every step of the
  highlighter is, on the variables of the record, one of the tracker's or none
  (`TokenizerFollowsRecords`), so that it holds there too (`RecordsStayRight`).

  Then the map. `RangesAreRight` is about every machine, every text and any number of
  edits, loads and characters per task. Its invariant `HighlighterInv` is built on
  `Tracks(m, t, o)`: the map `m` is right for the text `t` up to offset `o`, and what it
  keeps behind `o` can be gone on with. That takes more than the property says. The
  ranges up to `o` cover the text (`Tiled`), and each range, in front of `o` or behind,
  has the state the machine goes on to from the range directly in front of it
  (`RunsMachine`). No range lies across `o` (`Placed`), and those behind follow each
  other without a gap to the end of the text (`Chained`), since a scan that meets one
  in its state takes over all of them without reading the text. A token has a range
  that ends with it (`Covered`), no other range comes between those of one token
  (`Grouped`), and no token has ranges on both sides of `o` (`Parted`).

  The scan keeps `Tracks` and moves `o` (`AdvanceKeeps`, `ScanTracks`, `ProcessTracks`),
  each step by the one lemma `Growth`. `skipExistingRanges` comes to the end of the
  chain it follows (`SkipReaches`), and what it steps over was chained, hence right
  (`SkippedTracks`). An edit takes three lemmas: cutting the range across the head
  (`AdjustCuts`), removing the ranges up to the first clean one (`DropDirtyMoves`), and
  moving the others: when the record describes the edits, and the record does, a map right
  for all of the old text becomes one right for the new text up to the head
  (`MovedTracks`, `ChangedTracks`). A scan under way at an edit is what `disturbed`
  excludes, because there the old map was not right for all of the old text. At last,
  `StatesOf` is a recursive function; it exists for every text (`RunExists`), and a map
  that covers the text and changes state where the machine does has its states
  (`RunGivesStates`).

Assumptions on constants are the named `ASSUME`s of the modules; for the layout, that
inserted texts are not empty (the buffer returns early for those), that a view has a
column, and that it is higher than one row, because `ScrollUp` of a view with one row
reads the front of an empty list; for highlighting, that a task scans at least one
character. The proofs do not use a bound on the number of threads, handlers, tasks,
jobs, groups or characters, and nothing about the machine of a language.

Only model-checked:
* All liveness properties: the proof system does not cover fairness and `ENABLED`.
* `RegexEngine`: its compiler and its meaning are recursive over trees, so that what
  they say of every pattern needs an induction over patterns, which is out of reach.
* `Highlighter`: the colors (`ColorsRight`, in `ColoringEnds`). They are not right for
  every machine, as the ranges are: see the observations. The instance is C# strings.

## Observations about the code

Met while modelling. A name in parentheses is that of the property or the run that shows it.

Documents (`dom/text`)
* A line that fills two write buffers asks for a second write while the first one is
  under way and the file refuses it (`text_document_file_save.js:76`; `NeverBusy`).
* Two saves at once: the second remembers readonly as `true` from the first and sets
  it so in the end. The runs exclude nothing here: `ReadonlyRestored` speaks of calls
  that did not overlap another.
* "document is readonly during reading" does not hold before the first chunk is
  shown; a reload that fails leaves the chunks it has appended.
* The temporary file exists from `makeTempFileName` on, but `should_remove` is set when
  it is open: when opening fails, an empty file stays (`text_document_file_save.js:122`;
  `FailedRemoves`). A removal that fails leaves the bytes, and nothing tries again
  (`text_document_file_save.js:178`, `io/io_delegate_impl.cc:311`).
* A change of the file by another program between the move and the request for its
  status is taken for the save's own. A status check can answer in the middle of a save.

Undo (`text/models`)
* An insertion that ends where the last one began merges with it, and the merged range
  leaves out how far the new characters have moved the old ones (`undo_step.cc:233`);
  undo then removes other characters (`UndoesLast`).
* Redo after a later edit uses stale offsets (`undo_stack.cc:158`), up to the
  `DCHECK`s of `buffer.cc:117` and `buffer_core.cc:34` (`RedoFits`).
* The revision goes back on undo (`undo_step.cc:264`), so an edit after an undo can
  reach the revision that was saved, with another text: not modified, says the
  document (`document_modified`).

Scheduling
* The heap of waiting idle tasks holds pointers and is ordered by address
  (`idle_task_queue.h:42`): a due task hides behind one that is not due (`SmallerTimeOnTop`).
* `animation_frame_request_count_` has no lock: a callback may wait without a frame
  (`script_thread.cc:142`), and `DCHECK_GT` of it (`script_thread.cc:202`) can fail
  because the main thread resets it first.
* A callback that another callback of the same frame cancels runs all the same: the
  map is emptied before the callbacks run (`dom/scheduler/scheduler_impl.cc:53`).
* A timer that is stopped in its own callback goes on: `Stop` does not cancel the
  idle task `DidFireTimer` gives (`dom/timers/timer.cc:82`). A timer asks for no frame.
* A script task of `task_scheduler.js:31` that throws leaves `wait(0)` uncalled, so
  the tasks behind it wait for the next one to be scheduled. `removeNodeInternal` of
  `OrderedSet` rotates against the heap order, which costs time only.

Layout (`text/layout`)
* A caret at the end of a text that ends with a newline need not be shown
  (`block_flow.cc:393-401`), nor one at the end of a text where a row ends that was
  wrapped when there was more text (`EndsMarked`). In a view that ends with a part of a
  row `ScrollToPosition` calls `ScrollUp` once more when the end of the text is not
  fully visible (`block_flow.cc:401`), which can take the row of the caret away, where
  the comment of `text_view.cc:119` promises that the next update shows it: TLC finds
  the text `xxxx` in a view of one column and one row and a half. `CaretShownInText` is
  what is left, and that is proved.
* `RowsShowText` says that a row shows characters of the text, not that it is the row
  the formatter would make now: a newline typed where a row wraps, or the deletion of
  the character behind, leaves the wrapped row, because `RemoveOverwapLines` skips the
  row that ends at the start of the change (`root_inline_box_cache.cc:141-144`). A view
  narrowed by one column keeps a row that would now wrap.
* `ScrollUp` reads `lines_.front()` after rows were discarded, which needs a view of
  more than one row (`HeightAssumption`); the last loop of `ScrollToPosition` never runs.
* A fragile marker that an edit removes is not notified.

Highlighting (`dom/components/highlights`); why `RangesRight` and
`ColoringEnds` speak of `~disturbed`
* A deletion at the end of the text leaves the truncated last token with the syntax
  of a token that is not done, and does not paint it (`highlights.js:203-224`).
* A second edit before the scan ran may make `canUseRange` (`tokenizer.js:104`) take
  over a truncated token behind the edit, painted blank.
* A scan that was interrupted leaves an old range directly behind its frontier, and
  `skipExistingRanges` (`tokenizer.js:388`) takes contiguous old ranges over without
  a look at their state: wrong colors, as in `@a""`.
* A task that runs before the record of an edit by another idle task mixes old and
  new offsets.
* A token that was cut has lost its syntax. When an edit lets the machine go on from it
  into a range that could also begin a token, `canUseRange` takes that range over and
  the token in front stays unpainted; the machine of C# strings has no such state.
* A character unknown to the state machine behind a closed token is not painted.

Spell checking (`dom/components/spell_checker`, not modelled): a document that begins
with a character that is no letter keeps the cold scanner rescheduling itself without
progress; an unknown last word of the text is not painted although a comment says so;
the cold scanner asks for a word again while the answer is under way; a run of
letters longer than `kMaxHotScanCount` makes the hot scanner return without another task.

Regular expressions (`regex`)
* `RestoreCxp` sets the control stack to one cell below the entry it gives up
  (`regex_exec.cc:1406`, 4 instead of 3): it eats a cell of the entry below. Behind two
  `Fail` entries this goes unseen; with a choice below it, the attempt goes wrong.
* `NodeAnd` does not say that it needs the stack (`regex_node.h:269` asks the node
  alone), so an atom around a row is none: `(?>ab?)b` matches `ab`.
* `\B` tests what `\b` tests (`regex_exec.cc:847`), and a boundary is also found between
  two characters that are not of a word (`regex_exec.cc:313-334`).
* `CaptureEq_Ci_F` compares case and `CaptureEq_Cs_B` does not; both forms for backward
  searches add the length (`regex_exec.cc:973-1022`).
* The editor's `GetCapture` says yes for a capture that is not bound
  (`dom/text/regular_expression.cc:377`), so a conditional always takes its first part;
  the matcher of the unit test says no, and tests that. Likewise its backward search
  for a character includes the stop and the editor's does not: a string at the start
  of the text is not found backward.
* A repetition read from right to left stops one character too far
  (`regex_exec.cc:1271`). `Last_F` and `Last_B` never give up, for the limit does not
  move (`regex_exec.cc:1100`, `regex_exec.cc:1122`).
* `Min` records a counter to put back but does not count any more
  (`regex_exec.cc:1170-1172`), and a repeated class with a minimum of two or more
  becomes one with a minimum of one (`regex_compile.cc:1176-1226`).
* `(?:a{2,3})*` is folded to `a*`; a limit times no limit is the limit
  (`regex_compile.cc:133`). A repeated negated character becomes an instruction the
  engine does not have (`regex_compile.cc:90`).
* The scanner for `(?m)^` misses a place behind two newlines (`regex_exec.cc:1795`), and
  backward it finds the same newline again and again; that for `(?m)$` begins behind
  the first position and never reaches the end of the text (`regex_exec.cc:1834`); that
  for `$` tests the place where the search began only (`regex_exec.cc:1859`).
* A match may end behind the part that is searched. In a backward search the
  alternatives of `|` are tried in reverse order (`regex_node.cc:368`), and lookahead
  and lookbehind change places (`regex_parse.cc:1336-1369`).


## Plan

1. Done: storage, undo, line numbers, ranges, markers, layout, documents, mutation
   observers, highlighting, idle tasks, script tasks, frames,
   regular expressions.
2. Proofs: done for every invariant but `FindsFirstMatch` of the regular expressions.
3. `Timers` over `IdleTaskQueue`: what a stop inside of the callback does.
4. `ModelLock`: view, script and I/O against the lock; no deadlock.
5. Spell checking, on the model of `Highlighter`.

## Not modelled

* Hit testing, points of a line, styles, fonts, painting and the visual tree: real
  valued geometry that reads the models' state and changes none of it.
* Timers and the model lock: planned. The hazards are in `PROJECT.json`.
* Encodings: tables and a decoder per encoding, without interaction.
* Of regular expressions: the syntax (the parser's own functions), case folding and
  Unicode classes, error texts, `NextMatch`, and `ResetCapture` entries, which are
  never pushed because a matcher of the editor knows every capture. The stacks have
  no limit in the model, and the code grows them.
* Spell checking, search and other commands in JavaScript: sequential, or like the
  highlighter; the observations above are from reading.
* `takeRecords` of a mutation observer, which no script calls, and counts above 1 of
  undo and redo, which no caller passes.
* The garbage collector, which relies on the lock; V8 bindings and generated code;
  Win32 windows and controls; third-party code.
* The lifetime of frame handlers (a handler destroyed by another handler of the same
  frame): the scheduler knows nothing of it, and no destructor checks it.
