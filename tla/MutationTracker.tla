--------------------------- MODULE MutationTracker ---------------------------
(***************************************************************************)
(* TextMutationObserver::Tracker, through which scripts learn of edits.    *)
(* It observes a buffer and merges the edits of a stretch of script into   *)
(* one record, delivered by a micro task: how many characters at the head  *)
(* and at the tail of the text no edit touched, and how much the length    *)
(* changed.  While a document is loaded its tracker is disconnected        *)
(* (simple_mutation_observer.js).                                          *)
(***************************************************************************)
EXTENDS TextOps

CONSTANTS
  Char,      \* the characters of texts
  MaxLength  \* bound: no insertion makes the text longer than this

ASSUME MaxLengthAssumption == MaxLength \in Nat

VARIABLES
  text,      \* the text of the buffer
  base,      \* history: the text when the summary was reset
  connected, \* the document is observed
  head,      \* head_count_
  tail,      \* tail_count_
  delta,     \* delta_
  mutated,   \* number_of_mutations_ > 0
  scheduled  \* is_scheduled_: a micro task will run the callback

summary == <<base, head, tail, delta, mutated>>
trackerVars == <<text, connected, summary, scheduled>>

TrackerTypeOK ==
  /\ text \in Seq(Char) /\ base \in Seq(Char)
  /\ connected \in BOOLEAN /\ mutated \in BOOLEAN /\ scheduled \in BOOLEAN
  /\ head \in Nat /\ tail \in Nat /\ delta \in Int

-----------------------------------------------------------------------------
Least(m, n) == IF m <= n THEN m ELSE n

(* A record over the text t.                                               *)
ResetSummary(t) ==
  /\ base' = t
  /\ head' = Len(t)
  /\ tail' = Len(t)
  /\ delta' = 0
  /\ mutated' = FALSE

TrackerInit ==
  /\ text \in UNION {[1..n -> Char] : n \in 0..MaxLength}
  /\ base = text
  /\ connected = TRUE
  /\ head = Len(text)
  /\ tail = Len(text)
  /\ delta = 0
  /\ mutated = FALSE
  /\ scheduled = FALSE

(* Mutant of Record: the tail is counted from the start of the edit.       *)
RecordFromStart(p, inserted, deleted) ==
  IF connected
  THEN /\ scheduled' = TRUE
       /\ mutated' = TRUE
       /\ delta' = delta + inserted - deleted
       /\ head' = Least(head, p)
       /\ tail' = Least(tail, Len(text) + inserted - deleted - p)
       /\ base' = base
  ELSE UNCHANGED <<summary, scheduled>>

(* DidInsertBefore and DidDeleteAt: an edit at p that put this many        *)
(* characters in or took them away.                                        *)
Record(p, inserted, deleted) ==
  IF connected
  THEN /\ scheduled' = TRUE
       /\ mutated' = TRUE
       /\ delta' = delta + inserted - deleted
       /\ head' = Least(head, p)
       /\ tail' = Least(tail, Len(text) - deleted - p)
       /\ base' = base
  ELSE UNCHANGED <<summary, scheduled>>

(* Buffer::InsertBefore.                                                   *)
InsertBefore(p, s) ==
  /\ p \in 0..Len(text)
  /\ s # << >>
  /\ Len(text) + Len(s) <= MaxLength
  /\ text' = Inserted(text, p, s)
  /\ Record(p, Len(s), 0)
  /\ connected' = connected

(* Buffer::Delete.                                                         *)
Delete(start, end) ==
  /\ start \in 0..Len(text) /\ end \in 0..Len(text)
  /\ start < end
  /\ text' = Removed(text, start, end)
  /\ Record(start, 0, end - start)
  /\ connected' = connected

(* The micro task: the record is taken and handed to the script.           *)
RunCallback ==
  /\ scheduled
  /\ scheduled' = FALSE
  /\ IF mutated THEN ResetSummary(text) ELSE UNCHANGED summary
  /\ UNCHANGED <<text, connected>>

(* BEFORELOAD: the tracker is destroyed, and its micro task finds a null   *)
(* weak pointer.                                                           *)
Disconnect ==
  /\ connected
  /\ connected' = FALSE
  /\ scheduled' = FALSE
  /\ UNCHANGED <<text, summary>>

(* LOAD: another tracker is made.                                          *)
Observe ==
  /\ ~connected
  /\ connected' = TRUE
  /\ scheduled' = FALSE
  /\ ResetSummary(text)
  /\ text' = text

TrackerNext ==
  \/ \E p \in 0..Len(text), c \in Char : InsertBefore(p, <<c>>)
  \/ \E start, end \in 0..Len(text) : Delete(start, end)
  \/ RunCallback
  \/ Disconnect
  \/ Observe

TrackerSpec == TrackerInit /\ [][TrackerNext]_trackerVars

-----------------------------------------------------------------------------
(* What a record with this head, tail and delta says of the text b before  *)
(* and t after the edits: the characters at the head and at the tail are   *)
(* those of b, the two do not overlap, the lengths differ by delta.        *)
Describes(t, b, h, k, d, edited) ==
  /\ Len(t) = Len(b) + d
  /\ h <= Len(t) /\ h <= Len(b)
  /\ k <= Len(t) /\ k <= Len(b)
  /\ edited => h + k <= Len(t) /\ h + k <= Len(b)
  /\ \A i \in 1..h : t[i] = b[i]
  /\ \A i \in 1..k : t[(Len(t) - k) + i] = b[(Len(b) - k) + i]
  /\ edited \/ t = b

(* Whatever edits a record merges, it describes them all, so the tokenizer *)
(* may keep what it knows of the head and of the tail; and as long as the  *)
(* record is not taken a micro task is on the way to take it.              *)
SummaryDescribesEdits ==
  connected =>
    /\ Describes(text, base, head, tail, delta, mutated)
    /\ mutated => scheduled
=============================================================================
