--------------------------- MODULE DocumentEdits ---------------------------
(***************************************************************************)
(* A matcha-core Document under edits, undo and redo (document.rs): the    *)
(* text, its undo tree, the change log an observer drains, and a           *)
(* diagnostic that rides every commit.                                     *)
(*                                                                         *)
(* The observer is what a language client is: it keeps the text it synced, *)
(* and at a drain it replays the log onto it when the log starts there, or *)
(* else takes the whole text.                                              *)
(***************************************************************************)
EXTENDS UndoHistory

CONSTANTS
  LoadedLength,   \* the characters of the file as loaded
  GroupingHints,  \* the hints a host edits with
  Limits,         \* the undo limits a host sets; NoLimit is none
  CHANGE_LOG_CAP,
  Observed,       \* whether the host observes the changes and publishes diagnostics
  MaxBatch,       \* bound: edits of one batch, 1 or 2
  MaxOps,         \* bound: edits of all batches together
  MaxRevision,    \* bound: commits, each step of an undo or redo included
  MaxSettings,    \* bound: limits set, saves, observer switches and diagnostics together
  MaxEffort       \* bound: edits and settings together

ASSUME DocumentAssumption ==
  /\ LoadedLength \in Nat
  /\ GroupingHints \subseteq Hints /\ Limits \subseteq Nat \cup {NoLimit}
  /\ Observed \in BOOLEAN /\ MaxBatch \in 1..2 /\ CHANGE_LOG_CAP \in Nat
  /\ MaxOps \in Nat /\ MaxRevision \in Nat /\ MaxSettings \in Nat /\ MaxEffort \in Nat

VARIABLES
  text,       \* Document::buffer
  revision,   \* and its revision
  history,    \* Document::history
  changes,    \* Document::changes: on, the revision the chain starts from, its entries
  squiggle,   \* a diagnostic's range, the character it was put on, and whether that character
              \* has been there ever since
  mirror,     \* the observer's text and the revision it is of
  standing,   \* a history: the text each node was last left with
  saved,      \* a history: the node and the text at the last save
  written,    \* characters inserted so far, which the next ones differ from
  settings    \* counted against MaxSettings

vars == <<text, revision, history, changes, squiggle, mirror, standing, saved, written, settings>>

NoRevision == -1
NoSquiggle == [char |-> 0, start |-> 0, stop |-> 0, alive |-> FALSE]

\* The file as loaded.
Loaded == [n \in 1..LoadedLength |-> n]

Init ==
  /\ text = Loaded /\ revision = 0 /\ history = NewHistory
  /\ changes = [on |-> FALSE, from |-> NoRevision, entries |-> <<>>]
  /\ squiggle = NoSquiggle
  /\ mirror = [text |-> Loaded, revision |-> 0]
  /\ standing = [n \in {0} |-> Loaded]
  /\ saved = [node |-> 0, text |-> Loaded]
  /\ written = 0 /\ settings = 0

Now == [text |-> text, revision |-> revision, changes |-> changes, squiggle |-> squiggle]

Becomes(c) ==
  /\ text' = c.text /\ revision' = c.revision /\ changes' = c.changes /\ squiggle' = c.squiggle

----------------------------------------------------------------------------
\* A defect: a full log goes on from where it starts.
LoggedOnward(log, before, ops) ==
  IF log.from = NoRevision THEN log
  ELSE IF Len(log.entries) >= CHANGE_LOG_CAP THEN [log EXCEPT !.entries = <<>>]
  ELSE [log EXCEPT !.entries = Append(@, [before |-> before, ops |-> Reverse(ops)])]

\* ChangeLog::record, of a normalized batch. A full log breaks until it is drained.
Logged(log, before, ops) ==
  IF log.from = NoRevision THEN log
  ELSE IF Len(log.entries) >= CHANGE_LOG_CAP
  THEN [log EXCEPT !.entries = <<>>, !.from = NoRevision]
  ELSE [log EXCEPT !.entries = Append(@, [before |-> before, ops |-> Reverse(ops)])]

\* The diagnostic's range after a commit.
Moved(s, patch, newText) ==
  LET r == NeverGrowing(patch, s)
  IN [s EXCEPT !.start = r.start, !.stop = r.stop, !.alive = @ /\ Contains(newText, s.char)]

\* One commit of batch ops. An overlap is an error that leaves everything as it was.
Commit(c, ops) ==
  LET norm == Normalized(c.text, ops)
      then == Applied(c.text, norm)
  IN IF ~Disjoint(norm) THEN c
     ELSE [text |-> then, revision |-> c.revision + 1,
           changes |-> Logged(c.changes, c.text, norm),
           squiggle |-> Moved(c.squiggle, PatchOf(norm), then)]

----------------------------------------------------------------------------
\* How many edits of all batches together there may be.
Room == IF MaxEffort - settings < MaxOps THEN MaxEffort - settings ELSE MaxOps

\* The batches a host edits with: of one op or two. Every op that inserts writes a new character.
\* Typing inserts and deleting does not.
OpsFor(hint, char) ==
  {op \in {EditOp(start, stop, t) : start \in 0..Len(text), stop \in 0..Len(text),
                                    t \in IF hint.op = "Type" THEN {<<char>>}
                                          ELSE IF hint.op = "Delete" THEN {<<>>}
                                          ELSE {<<>>, <<char>>}} : op.start <= op.stop}

\* A range handed over backwards, and past the end.
Wild(op) == EditOp(op.stop + 1, op.start, op.text)

\* Batches of two are handed over out of order: in order they come to the same.
Batches(hint) ==
  LET first == OpsFor(hint, LoadedLength + written + 1)
      second == OpsFor(hint, LoadedLength + written + 2)
  IN {<<op>> : op \in first} \cup
     {<<Wild(op)>> : op \in {op \in first : op.stop = Len(text)}} \cup
     IF written + 2 > Room \/ MaxBatch < 2 THEN {}
     ELSE {pair \in first \X second : pair[2].start <= pair[1].start}

\* Document::edit_grouped. A batch that changes nothing records nothing.
Edit(ops, hint) ==
  LET norm == Normalized(text, ops) IN
  /\ norm # <<>> /\ Disjoint(norm)
  /\ Becomes(Commit(Now, ops))
  /\ history' = Recorded(history, Step(norm, InverseOps(text, norm)), hint)
  /\ standing' = [n \in DOMAIN history'.nodes |->
                    IF n = history'.current THEN text' ELSE standing[n]]
  /\ written' = written + Len(ops)
  /\ UNCHANGED <<mirror, saved, settings>>

\* Document::undo and Document::redo: one commit for each step of the unit. With nothing to undo
\* or redo they only seal the open unit.
Undo ==
  /\ CanUndo(history)
  /\ Becomes(FoldLeft(Commit, Now, UndoBatches(history)))
  /\ history' = Undone(history)
  /\ UNCHANGED <<mirror, standing, saved, written, settings>>

Redo ==
  /\ CanRedo(history)
  /\ Becomes(FoldLeft(Commit, Now, RedoBatches(history)))
  /\ history' = Redone(history)
  /\ UNCHANGED <<mirror, standing, saved, written, settings>>

\* Document::reset_gesture, of every caret move.
MoveCaret ==
  /\ history.open /\ history' = Sealed(history)
  /\ UNCHANGED <<text, revision, changes, squiggle, mirror, standing, saved, written, settings>>

\* Document::select_redo_branch
SelectRedoBranch(child) ==
  /\ child \in Children(history, history.current)
  /\ history' = Steered(history, child)
  /\ UNCHANGED <<text, revision, changes, squiggle, mirror, standing, saved, written, settings>>

Setting == settings < MaxSettings /\ settings + written < MaxEffort /\ settings' = settings + 1

\* Document::mark_saved
MarkSaved ==
  /\ Setting
  /\ history' = MarkedSaved(history)
  /\ saved' = [node |-> history.current, text |-> text]
  /\ UNCHANGED <<text, revision, changes, squiggle, mirror, standing, written>>

\* Document::set_undo_limit
SetUndoLimit(limit) ==
  /\ Setting /\ limit # history.maxUndo
  /\ history' = Limited(history, limit)
  /\ standing' = [n \in DOMAIN history'.nodes |-> standing[n]]
  /\ UNCHANGED <<text, revision, changes, squiggle, mirror, saved, written>>

\* Document::observe_changes
ObserveChanges(on) ==
  /\ Setting
  /\ changes' = [on |-> on, from |-> IF on THEN revision ELSE NoRevision, entries |-> <<>>]
  /\ UNCHANGED <<text, revision, history, squiggle, mirror, standing, saved, written>>

\* An entry of the log, applied op by op as a language server would.
Replayed(t, entry) == FoldLeft(Spliced, t, entry.ops)

\* Document::drain_changes, and the observer's use of it.
DrainChanges ==
  /\ mirror.revision # revision \/ changes.entries # <<>> \/ (changes.on /\ changes.from # revision)
  /\ changes' = [changes EXCEPT !.entries = <<>>, !.from = IF changes.on THEN revision ELSE @]
  /\ mirror' = [revision |-> revision,
                text |-> IF changes.from = mirror.revision
                         THEN FoldLeft(Replayed, mirror.text, changes.entries) ELSE text]
  /\ UNCHANGED <<text, revision, history, squiggle, standing, saved, written, settings>>

\* Document::set_diagnostics, once in a behaviour: on the character after start.
Diagnose(start) ==
  /\ Setting
  /\ squiggle = NoSquiggle /\ start < Len(text)
  /\ squiggle' = [char |-> text[start + 1], start |-> start, stop |-> start + 1, alive |-> TRUE]
  /\ UNCHANGED <<text, revision, history, changes, mirror, standing, saved, written>>

Next ==
  \/ /\ revision < MaxRevision
     /\ \E hint \in GroupingHints : \E ops \in Batches(hint) :
          Len(ops) <= MaxBatch /\ written + Len(ops) <= Room /\ Edit(ops, hint)
  \/ /\ revision < MaxRevision
     /\ Undo \/ Redo
  \/ MoveCaret
  \/ \E child \in DOMAIN history.nodes : SelectRedoBranch(child)
  \/ MarkSaved
  \/ \E limit \in Limits : SetUndoLimit(limit)
  \/ /\ Observed
     /\ \/ \E on \in BOOLEAN : ObserveChanges(on)
        \/ DrainChanges
        \/ \E start \in 0..Len(text) : Diagnose(start)

Spec == Init /\ [][Next]_vars
----------------------------------------------------------------------------
\* Every variable has its type; the history is a tree its current node and preferences lie in.
TypeOK ==
  /\ revision \in Nat /\ history.current \in DOMAIN history.nodes
  /\ DOMAIN standing = DOMAIN history.nodes
  /\ \A n \in DOMAIN history.nodes :
       LET node == history.nodes[n] IN
       /\ IF n = history.root THEN node.parent = NoNode ELSE node.parent \in DOMAIN history.nodes
       /\ node.preferred \in Children(history, n) \cup {NoNode}
       /\ Children(history, n) # {} => node.preferred # NoNode
  /\ changes.from \in 0..revision \cup {NoRevision} /\ Len(changes.entries) <= CHANGE_LOG_CAP
  /\ squiggle.start <= squiggle.stop /\ squiggle.stop <= Len(text)

\* "An inverse can never drift from what was applied": after any edits, merges, undos, redos and
\* jumps between branches, the text is the one its node was left with.
UndoIsExact == text = standing[history.current]

\* "Undoing back to a save point reads clean, and a divergent edit made after an undo reads dirty":
\* the document is clean exactly at the node it was saved at with the text that was saved.
CleanIsSaved ==
  ~IsDirty(history) <=> history.current = saved.node /\ text = saved.text

\* "With no branch navigation the tree reproduces classic linear undo": wherever undo goes back to,
\* redo comes forward again along the line it left.
RedoRetracesUndo ==
  \A n \in 1..UndoDepth(history) :
    history.nodes[ToCurrent(history)[n]].preferred = ToCurrent(history)[n + 1]

\* The history holds what was, back and forth.
HistoryIsExact == UndoIsExact /\ RedoRetracesUndo

\* A new edit never leaves more units than the limit, and when it drops some, it drops no more than
\* it must.
EditsKeepTheLimit ==
  [][history'.altSeq # history.altSeq /\ history.maxUndo # NoLimit =>
       /\ UndoDepth(history') <= history.maxUndo
       /\ history'.root # history.root => UndoDepth(history') = history.maxUndo]_vars

\* A log that starts at the revision the observer is at, op by op, leads its text through every
\* commit's "before" to the document's, undo and redo and the cap included.
LogReplays ==
  changes.from = mirror.revision =>
    /\ FoldLeft(Replayed, mirror.text, changes.entries) = text
    /\ \A n \in DOMAIN changes.entries :
         changes.entries[n].before =
           FoldLeft(Replayed, mirror.text, SubSeq(changes.entries, 1, n - 1))

\* "Squiggles stay glued to their code": as long as the character it was put on is there, a
\* diagnostic covers it, whatever batches, undos and redos moved it.
SquiggleCovers ==
  squiggle.alive =>
    \E p \in squiggle.start..(squiggle.stop - 1) : text[p + 1] = squiggle.char

\* What rides a commit ends up where the text did, drained or mapped.
CommitsAreFollowed == LogReplays /\ SquiggleCovers
=============================================================================
