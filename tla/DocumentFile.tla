---------------------------- MODULE DocumentFile -----------------------------
(***************************************************************************)
(* A document and the file it is bound to: FileLoader and load, FileWriter *)
(* and save, updateObsolete, and the requests they make of the I/O thread. *)
(* Each call of load or save is a chain of promises; nothing keeps a       *)
(* second one from starting before the first has ended, and between two    *)
(* steps of a chain the user may type.                                     *)
(*                                                                         *)
(* A request that only its own chain can see (a write of its file, a read  *)
(* of an open file) is one step with the continuation that takes the       *)
(* answer.  The removal of a temporary file is waited for by nobody, and   *)
(* is a step of its own.                                                   *)
(*                                                                         *)
(* An edit ticks the revision of the document and is recorded in its undo  *)
(* steps, as in UndoStack; the edits here are insertions, so that a step   *)
(* is a range and a revision.  A document is modified when its revision is *)
(* not the saved one.  Redo is left out: it is an edit, and the history    *)
(* below that forgets what came before an edit after an undo covers it.    *)
(* A character is one byte; the line separator is a newline.               *)
(***************************************************************************)
EXTENDS TextOps, FiniteSetsExt, SequencesExt

CONSTANTS
  Char, Newline,
  Job,          \* calls of load and save that may be under way together
  Name,         \* names for temporary files
  Contents,     \* what other programs write to the file
  WriteSize,    \* FileWriter.kBufferSize
  ReadSize,     \* kBufferSize of the loader
  MaxTyped,     \* bound: nobody types into a text of this length
  MaxLength,    \* bound: no load starts that could show more than this
  MaxRevision,  \* bound: nobody types and no load starts from there on
  MaxOverlap    \* bound: the same for calls that overlap

ASSUME SizesAssumption ==
  /\ Newline \in Char
  /\ WriteSize \in Nat \ {0} /\ ReadSize \in Nat \ {0}
ASSUME ContentsAssumption == Contents \subseteq Seq(Char)

VARIABLES
  document,  \* the document: text, revision, savedRevision_ (saved), undo
             \* steps, readonly, obsolete
  file,      \* the file: bytes and readonly
  job,       \* the state of each chain
  temp,      \* the bytes of the temporary file of each save that has one
  folder,    \* the temporary files: their names, the removals that are
             \* under way, and the one each save calls its own
  check,     \* whether the window waits for a status check of the file
  seen       \* history: whether chains ran one at a time only, the bytes and
             \* the attribute last shared by document and file, and the kind
             \* of edits made since the undo steps were cleared: "linear",
             \* then "undone", then "branched" (an edit came after an undo,
             \* or was merged in front of the one before it)

vars == <<document, file, job, temp, folder, check, seen>>

(* The revision the bounds on edits allow.                                 *)
LastRevision == IF seen.alone THEN MaxRevision ELSE MaxOverlap

Idle == [step |-> "idle", readonly |-> FALSE, at |-> 0, buffer |-> << >>,
         asked |-> << >>, running |-> << >>, bytes |-> << >>]

Active == {j \in Job : job[j].step # "idle"}

-----------------------------------------------------------------------------
(* The lines of a document                                                 *)

(* A line as it is written: without its newline, with the separator.       *)
Encoded(line) ==
  IF line # << >> /\ line[Len(line)] = Newline THEN line ELSE Append(line, Newline)

(* The bytes of a whole text.                                              *)
FileText(t) == IF t = << >> THEN t ELSE Encoded(t)

(* The cursors of the saves under way, ranges of the document, after it    *)
(* lost the range [start, end) or got new text at p.                       *)
CutBy(jobs, start, end) ==
  [j \in Job |-> [jobs[j] EXCEPT !.at =
     IF @ <= start THEN @ ELSE IF @ >= end THEN @ - (end - start) ELSE start]]

ShiftedBy(jobs, p, n) ==
  [j \in Job |-> [jobs[j] EXCEPT !.at =
     IF jobs[j].step = "write" /\ @ >= p THEN @ + n ELSE @]]

-----------------------------------------------------------------------------
(* Edits                                                                   *)

(* TextDocument.modified                                                   *)
Modified(doc) == doc.revision # doc.saved

(* The two places where s, inserted at p, is next to the last insertion,   *)
(* and no newline is between them: behind it, or in front of it.           *)
Follows(doc, p) ==
  /\ doc.undo # << >>
  /\ Last(doc.undo).end = p
  /\ doc.text[p] # Newline

Precedes(doc, p, s) ==
  /\ doc.undo # << >>
  /\ Last(doc.undo).end # p
  /\ Last(doc.undo).start = p + Len(s)
  /\ s[Len(s)] # Newline

(* UndoStack::DidInsertBefore: the step is merged into the last one.       *)
Recorded(doc, p, s) ==
  LET rest == Front(doc.undo)
      last == Last(doc.undo)
  IN  IF Follows(doc, p) THEN Append(rest, [last EXCEPT !.end = p + Len(s)])
      ELSE IF Precedes(doc, p, s) THEN Append(rest, [last EXCEPT !.start = p])
      ELSE Append(doc.undo, [start |-> p, end |-> p + Len(s), revision |-> doc.revision])

(* Buffer::InsertBefore                                                    *)
InsertedInto(doc, p, s) ==
  [doc EXCEPT !.text = Inserted(@, p, s), !.revision = @ + 1,
              !.undo = Recorded(doc, p, s)]

SeenInsert(p, s) ==
  [seen EXCEPT !.edits =
     IF @ = "linear" /\ ~Precedes(document, p, s) THEN @ ELSE "branched"]

-----------------------------------------------------------------------------
Init ==
  /\ document = [text |-> << >>, revision |-> 0, saved |-> 0, undo |-> << >>,
                 readonly |-> FALSE, obsolete |-> "UNKNOWN"]
  /\ file \in [bytes : Contents, readonly : BOOLEAN]
  /\ job = [j \in Job |-> Idle]
  /\ temp = [j \in Job |-> << >>]
  /\ folder = [names |-> {}, removals |-> {}, own |-> [j \in Job |-> {}]]
  /\ check = FALSE
  /\ seen = [alone |-> TRUE, bytes |-> << >>, readonly |-> FALSE, edits |-> "linear"]

(* Mutant of Begin: readonly is remembered when it is set already.         *)
BeginLate(j, step) ==
  /\ job[j].step = "idle"
  /\ seen.alone
  /\ Active = {} \/ document.revision <= MaxOverlap
  /\ job' = [job EXCEPT ![j] = [Idle EXCEPT !.step = step, !.readonly = TRUE]]
  /\ seen' = IF Active = {} THEN seen ELSE [seen EXCEPT !.alone = FALSE, !.bytes = << >>]

(* What saveInternal and load do first.  Bound: calls overlap up to        *)
(* MaxOverlap, and then they come to their ends and no other starts.       *)
Begin(j, step) ==
  /\ job[j].step = "idle"
  /\ seen.alone
  /\ Active = {} \/ document.revision <= MaxOverlap
  /\ job' = [job EXCEPT ![j] = [Idle EXCEPT !.step = step,
                                            !.readonly = document.readonly]]
  /\ seen' = IF Active = {} THEN seen ELSE [seen EXCEPT !.alone = FALSE, !.bytes = << >>]

(* What a chain that ends well has carried between document and file, as   *)
(* long as that is recorded.                                               *)
Shared(j) == IF seen.alone THEN job[j].bytes ELSE << >>

-----------------------------------------------------------------------------
(* Saving                                                                  *)

Save(j) ==
  /\ Begin(j, "temp")
  /\ document' = [document EXCEPT !.obsolete = "CHECKING", !.readonly = TRUE]
  /\ UNCHANGED <<file, temp, folder, check>>

(* What the catch clause leaves of a save that calls `own` its own: the    *)
(* file is to be closed and removed once it is open, and nobody waits for  *)
(* either.                                                                 *)
Dropped(j, opened) ==
  [folder EXCEPT !.removals = IF opened THEN @ \cup folder.own[j] ELSE @,
                 !.own[j] = {}]

(* Mutant of Caught: obsolete is left as it is.                            *)
CaughtChecking(j, opened) ==
  /\ job' = [job EXCEPT ![j] = Idle]
  /\ temp' = [temp EXCEPT ![j] = << >>]
  /\ folder' = Dropped(j, opened)
  /\ document' = [document EXCEPT !.readonly = job[j].readonly]
  /\ UNCHANGED <<file, check, seen>>

(* The catch clause; `opened` tells whether Open has succeeded.  From Move *)
(* on the save has no file of its own (should_remove is null).             *)
Caught(j, opened) ==
  /\ job' = [job EXCEPT ![j] = Idle]
  /\ temp' = [temp EXCEPT ![j] = << >>]
  /\ folder' = Dropped(j, opened)
  /\ document' = [document EXCEPT !.obsolete = "UNKNOWN", !.readonly = job[j].readonly]
  /\ UNCHANGED <<file, check, seen>>

(* IoDelegateImpl::RemoveFile, asked for by the catch clause: it may fail, *)
(* and nobody asks again.                                                  *)
RemoveFile(n) ==
  /\ n \in folder.removals
  /\ \E gone \in {{}, {n}} :
       folder' = [folder EXCEPT !.removals = @ \ {n}, !.names = @ \ gone]
  /\ UNCHANGED <<document, file, job, temp, check, seen>>

(* MakeTempFileName makes the file, too, with a name that no file has.     *)
MakeTemp(j) ==
  /\ job[j].step = "temp"
  /\ \/ /\ \E n \in Name \ folder.names :
             folder' = [folder EXCEPT !.names = @ \cup {n}, !.own[j] = {n}]
        /\ temp' = [temp EXCEPT ![j] = << << >> >>]
        /\ job' = [job EXCEPT ![j].step = "open"]
        /\ UNCHANGED <<document, file, check, seen>>
     \/ Caught(j, FALSE)

(* FileWriter.write: the buffers filled, and what is left for the next.    *)
Split(bytes) ==
  LET n == Len(bytes) \div WriteSize
  IN  [full |-> [i \in 1..n |-> SubSeq(bytes, (i - 1) * WriteSize + 1, i * WriteSize)],
       rest |-> SubSeq(bytes, n * WriteSize + 1, Len(bytes))]

(* The lines of a chain up to one that fills a buffer: the places where    *)
(* writeLoop waits for the file.                                           *)
Waits(chain, t) ==
  {p \in (chain.at + 1)..Len(t) :
     /\ t[p] = Newline \/ p = Len(t)
     /\ Len(chain.buffer \o Encoded(Slice(t, chain.at, p))) >= WriteSize}

(* writeLoop up to the place `end`.                                        *)
Written(chain, t, end) ==
  LET lines == FileText(Slice(t, chain.at, end))
      split == Split(chain.buffer \o lines)
  IN  [chain EXCEPT !.step = "write", !.at = end, !.bytes = @ \o lines,
                    !.asked = split.full, !.buffer = split.rest]

(* Mutant of Flushed: the last buffer is not flushed.                      *)
Unflushed(chain) == [chain EXCEPT !.step = "close", !.at = 0, !.buffer = << >>]

(* What is left behind the last line is flushed.                           *)
Flushed(chain) ==
  [chain EXCEPT !.step = "flush", !.at = 0, !.asked = <<chain.buffer>>, !.buffer = << >>]

(* writeLoop: goes on by itself until a line fills a buffer.               *)
WriteLoop(chain, t) ==
  LET waits == Waits(chain, t)
  IN  IF waits = {} THEN Flushed(Written(chain, t, Len(t)))
      ELSE Written(chain, t, Min(waits))

Open(j) ==
  /\ job[j].step = "open"
  /\ \/ /\ job' = [job EXCEPT ![j] = WriteLoop(@, document.text)]
        /\ UNCHANGED <<document, file, temp, folder, check, seen>>
     \/ Caught(j, FALSE)

(* FileIoContext::Write: one operation at a time, a second one is refused  *)
(* with ERROR_BUSY.                                                        *)
StartWrite(j) ==
  /\ job[j].asked # << >>
  /\ \/ /\ job[j].running = << >>
        /\ job' = [job EXCEPT ![j].running = <<Head(job[j].asked)>>, ![j].asked = Tail(@)]
        /\ UNCHANGED <<document, file, temp, folder, check, seen>>
     \/ Caught(j, TRUE)

(* OnIOCompleted, and the continuation once all buffers of the line are    *)
(* written.                                                                *)
WriteDone(j) ==
  /\ job[j].running # << >>
  /\ LET done == [job[j] EXCEPT !.running = << >>] IN
     \/ /\ temp' = [temp EXCEPT ![j] = <<@[1] \o job[j].running[1]>>]
        /\ job' = [job EXCEPT ![j] =
             IF done.asked # << >> THEN done
             ELSE IF done.step = "flush" THEN [done EXCEPT !.step = "close"]
             ELSE WriteLoop(done, document.text)]
        /\ UNCHANGED <<document, file, folder, check, seen>>
     \/ Caught(j, TRUE)

CloseFile(j) ==
  /\ job[j].step = "close"
  /\ \/ /\ job' = [job EXCEPT ![j].step = "move"]
        /\ UNCHANGED <<document, file, temp, folder, check, seen>>
     \/ Caught(j, TRUE)

(* Mutant of Move: the save does not forget its temporary file.            *)
MoveKeeping(j) ==
  /\ job[j].step = "move"
  /\ \/ /\ ~file.readonly
        /\ file' = [file EXCEPT !.bytes = temp[j][1]]
        /\ temp' = [temp EXCEPT ![j] = << >>]
        /\ folder' = [folder EXCEPT !.names = @ \ folder.own[j]]
        /\ job' = [job EXCEPT ![j].step = "stat"]
        /\ UNCHANGED <<document, check, seen>>
     \/ Caught(j, TRUE)

(* MoveFile replaces the file, unless that is read only; the name of the   *)
(* temporary file is free for others.                                      *)
Move(j) ==
  /\ job[j].step = "move"
  /\ \/ /\ ~file.readonly
        /\ file' = [file EXCEPT !.bytes = temp[j][1]]
        /\ temp' = [temp EXCEPT ![j] = << >>]
        /\ folder' = [folder EXCEPT !.names = @ \ folder.own[j], !.own[j] = {}]
        /\ job' = [job EXCEPT ![j].step = "stat"]
        /\ UNCHANGED <<document, check, seen>>
     \/ Caught(j, TRUE)

Stat(j) ==
  /\ job[j].step = "stat"
  /\ \/ /\ document' = [document EXCEPT !.saved = document.revision,
                                        !.obsolete = "NO", !.readonly = job[j].readonly]
        /\ seen' = [seen EXCEPT !.bytes = Shared(j)]
        /\ job' = [job EXCEPT ![j] = Idle]
        /\ UNCHANGED <<file, temp, folder, check>>
     \/ Caught(j, TRUE)

-----------------------------------------------------------------------------
(* Loading                                                                 *)

Load(j) ==
  /\ Len(document.text) + Len(file.bytes) <= MaxLength
  /\ document.revision < MaxRevision
  /\ Begin(j, "openread")
  /\ document' = [document EXCEPT !.obsolete = "CHECKING"]
  /\ UNCHANGED <<file, temp, folder, check>>

(* Mutant of LoadFailed: the document counts as not modified.              *)
LoadFailedClean(j) ==
  /\ document' = [document EXCEPT !.readonly = job[j].readonly, !.obsolete = "UNKNOWN",
                                  !.saved = document.revision]
  /\ job' = [job EXCEPT ![j] = Idle]
  /\ UNCHANGED <<file, temp, folder, check, seen>>

(* loader.close and finishLoad after a failure.                            *)
LoadFailed(j) ==
  /\ document' = [document EXCEPT !.readonly = job[j].readonly, !.obsolete = "UNKNOWN"]
  /\ job' = [job EXCEPT ![j] = Idle]
  /\ UNCHANGED <<file, temp, folder, check, seen>>

(* The open file keeps its bytes when the name gets another file.          *)
OpenRead(j) ==
  /\ job[j].step = "openread"
  /\ \/ /\ job' = [job EXCEPT ![j].step = "read", ![j].buffer = file.bytes]
        /\ UNCHANGED <<document, file, temp, folder, check, seen>>
     \/ LoadFailed(j)

(* One file.read: didRead shows a chunk behind the text of the document,   *)
(* or throws when it is in no known encoding; the end of the file ends the *)
(* loop.                                                                   *)
Read(j) ==
  /\ job[j].step = "read"
  /\ \/ /\ job[j].buffer = << >>
        /\ job' = [job EXCEPT ![j].step = "statread"]
        /\ UNCHANGED <<document, file, temp, folder, check, seen>>
     \/ /\ job[j].buffer # << >>
        /\ LET rest == job[j].buffer
               size == Min({ReadSize, Len(rest)})
               chunk == SubSeq(rest, 1, size)
               p == Len(document.text)
           IN  /\ document' = [InsertedInto(document, p, chunk) EXCEPT !.readonly = TRUE]
               /\ seen' = SeenInsert(p, chunk)
               /\ job' = ShiftedBy([job EXCEPT ![j].buffer = SubSeq(rest, size + 1, Len(rest)),
                                               ![j].bytes = @ \o chunk],
                                   p, size)
        /\ UNCHANGED <<file, temp, folder, check>>
     \/ LoadFailed(j)

(* The edits of finish: the text is removed and comes back as it was read. *)
Edits(bytes) ==
  (IF document.text = << >> THEN 0 ELSE 1) + ((Len(bytes) + ReadSize - 1) \div ReadSize)

(* finish with clearUndo, loader.close and finishLoad.                     *)
Finish(j) ==
  /\ job[j].step = "statread"
  /\ \/ /\ LET revision == document.revision + Edits(job[j].bytes)
           IN  document' = [text |-> job[j].bytes, revision |-> revision,
                            saved |-> revision, undo |-> << >>,
                            readonly |-> file.readonly, obsolete |-> "NO"]
        /\ seen' = [seen EXCEPT !.bytes = Shared(j), !.readonly = file.readonly,
                                !.edits = "linear"]
        /\ job' = ShiftedBy(CutBy([job EXCEPT ![j] = Idle], 0, Len(document.text)),
                            0, Len(job[j].bytes))
        /\ UNCHANGED <<file, temp, folder, check>>
     \/ LoadFailed(j)

-----------------------------------------------------------------------------
(* updateObsolete                                                          *)

Check ==
  /\ ~check
  /\ document.obsolete \notin {"CHECKING", "YES"}
  /\ document' = [document EXCEPT !.obsolete = "CHECKING"]
  /\ check' = TRUE
  /\ UNCHANGED <<file, job, temp, folder, seen>>

(* The times of the last change are compared, or there is no such file.    *)
(* The user who is asked because of YES may answer with a Load.            *)
Checked ==
  /\ check
  /\ \E obsolete \in {"NO", "YES", "UNKNOWN"} :
       document' = [document EXCEPT !.obsolete = obsolete]
  /\ check' = FALSE
  /\ UNCHANGED <<file, job, temp, folder, seen>>

-----------------------------------------------------------------------------
(* Users and other programs                                                *)

(* A document that is read only refuses to change.  Bound: once an edit    *)
(* came after an undo nobody types until a load clears the undo steps.     *)
Type(p, c) ==
  /\ ~document.readonly
  /\ seen.edits # "branched"
  /\ Len(document.text) < MaxTyped
  /\ document.revision < LastRevision
  /\ document' = InsertedInto(document, p, <<c>>)
  /\ seen' = SeenInsert(p, <<c>>)
  /\ job' = ShiftedBy(job, p, 1)
  /\ UNCHANGED <<file, temp, folder, check>>

(* Buffer::Undo where the last step ends: what was inserted goes, and the  *)
(* revision is what it was.                                                *)
Undo ==
  /\ ~document.readonly
  /\ document.undo # << >>
  /\ LET step == Last(document.undo)
     IN  /\ document' = [document EXCEPT !.text = Removed(@, step.start, step.end),
                                         !.revision = step.revision, !.undo = Front(@)]
         /\ job' = CutBy(job, step.start, step.end)
  /\ seen' = [seen EXCEPT !.edits = IF @ = "linear" THEN "undone" ELSE @]
  /\ UNCHANGED <<file, temp, folder, check>>

External ==
  /\ file' \in [bytes : Contents, readonly : {file.readonly}]
  /\ UNCHANGED <<document, job, temp, folder, check, seen>>

JobStep(j) ==
  \/ MakeTemp(j) \/ Open(j) \/ StartWrite(j) \/ WriteDone(j)
  \/ CloseFile(j) \/ Move(j) \/ Stat(j)
  \/ OpenRead(j) \/ Read(j) \/ Finish(j)

Next ==
  \/ \E j \in Job : Save(j) \/ Load(j) \/ JobStep(j)
  \/ Check \/ Checked
  \/ \E p \in 0..Len(document.text) : \E c \in Char : Type(p, c)
  \/ Undo
  \/ \E n \in Name : RemoveFile(n)
  \/ External

Spec == Init /\ [][Next]_vars

-----------------------------------------------------------------------------
(* Properties                                                              *)

Bytes == Seq(Char)

IsOption(o) == o \in Seq(Bytes) /\ Len(o) <= 1

TypeOK ==
  /\ document \in [text : Bytes, revision : Nat, saved : Nat,
                   undo : Seq([start : Nat, end : Nat, revision : Nat]),
                   readonly : BOOLEAN, obsolete : {"UNKNOWN", "CHECKING", "NO", "YES"}]
  /\ file \in [bytes : Bytes, readonly : BOOLEAN]
  /\ check \in BOOLEAN
  /\ seen \in [alone : BOOLEAN, bytes : Bytes, readonly : BOOLEAN,
               edits : {"linear", "undone", "branched"}]
  /\ folder \in [names : SUBSET Name, removals : SUBSET Name, own : [Job -> SUBSET Name]]
  /\ folder.removals \subseteq folder.names
  /\ \A j \in Job :
       /\ job[j].readonly \in BOOLEAN
       /\ job[j].at \in 0..Len(document.text)
       /\ IsOption(job[j].running)
       /\ job[j].step = "write" => Len(job[j].buffer) < WriteSize
       /\ job[j].step \in {"write", "flush"} =>
            job[j].asked # << >> \/ job[j].running # << >>
       /\ \A i \in DOMAIN job[j].asked : Len(job[j].asked[i]) <= WriteSize
       /\ IsOption(temp[j])
       /\ job[j].step \in {"write", "flush", "close", "move"} => temp[j] # << >>

(* A save gives the file all the bytes it has encoded, whatever buffers    *)
(* they went through, at once and never in part; and these are the text of *)
(* the document unless another save or load was under way beside it.       *)
FileWhole ==
  [][\A j \in Job :
       Move(j) /\ job'[j].step = "stat" =>
         /\ file'.bytes = job[j].bytes
         /\ seen.alone => file'.bytes = FileText(document.text)]_vars

(* From the time its temporary file is made to the time that replaces the  *)
(* document's file, a save has that file for itself: it is there, no other *)
(* save writes it, and none that has failed, and asked for a removal that  *)
(* nobody waits for, is going to remove it.                                *)
TempIsOwn ==
  /\ TypeOK
  /\ \A j \in Job :
       job[j].step \in {"open", "write", "flush", "close", "move"} =>
         /\ folder.own[j] # {}
         /\ folder.own[j] \subseteq folder.names \ folder.removals
         /\ \A k \in Job \ {j} : folder.own[k] \cap folder.own[j] = {}

(* A document that counts as not modified holds what its file got from it  *)
(* or gave to it, although a load shows chunks of the file in the document *)
(* before it is known to succeed, and an undo brings an old revision back. *)
(* This holds until the first edit that follows an undo or is merged in    *)
(* front of the edit before it; what happens then is UnmodifiedIsText.     *)
UnmodifiedIsShared ==
  seen.alone /\ Active = {} /\ ~Modified(document) /\ seen.edits # "branched" =>
    FileText(document.text) = FileText(seen.bytes)

(* When a save or load has ended, in whatever way, the document is as read *)
(* only as it was, or as the file that was loaded.                         *)
ReadonlyRestored ==
  seen.alone /\ Active = {} => document.readonly = seen.readonly

(* A document does not stay in the state CHECKING, in which no window      *)
(* checks its file any more, with nothing under way that would end it.     *)
CheckingEnds == document.obsolete = "CHECKING" => check \/ Active # {}

-----------------------------------------------------------------------------
(* What the sources say, and the code does not do                          *)

(* What the user is told by the state of the tab, "Modified" or "Not       *)
(* modified": the same without the condition on the edits.                 *)
UnmodifiedIsText ==
  seen.alone /\ Active = {} /\ ~Modified(document) =>
    FileText(document.text) = FileText(seen.bytes)

(* What saveInternal says of its catch clause: "When error is occurred, we *)
(* should remove temporary file".  A save that leaves its temporary file   *)
(* without having renamed it has at least asked for the removal.           *)
FailedRemoves ==
  [][\A j \in Job :
       folder.own[j] # {} /\ folder'.own[j] = {} =>
         folder.own[j] \cap folder'.names \subseteq folder'.removals]_vars

(* What the steps of saveInternal promise: a save writes its lines, and is *)
(* not turned away by a write of its own.                                  *)
NeverBusy == \A j \in Job : job[j].running = << >> \/ job[j].asked = << >>
=============================================================================
