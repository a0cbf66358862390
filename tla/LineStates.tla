----------------------------- MODULE LineStates -----------------------------
(***************************************************************************)
(* The line-state highlight cache of matcha-core (highlight/line_state.rs, *)
(* highlight/dirty_ranges.rs) and the tokenizer of whole segments.         *)
(*                                                                         *)
(* A row's colours and its end state follow from its text and the state it *)
(* starts from.  Lines stand for a grammar: one opens a comment, one       *)
(* closes it, and one, or a long one, keeps the state it is given.         *)
(* A state is a theme and what is open; spans are the start state and the  *)
(* line they were computed from.  <<>> stands for nothing stored.          *)
(*                                                                         *)
(* A cache is a record: rows (n_lines), dirty, aim, start and cells (the   *)
(* window), and pins (the checkpoints, as a function from rows).  Rows     *)
(* count from 0, cells from 1.                                             *)
(***************************************************************************)
EXTENDS Integers, SequencesExt

CONSTANTS Stride,      \* HIGHLIGHT_CHECKPOINT_STRIDE
          Slack,       \* HIGHLIGHT_WINDOW_SLACK
          MaxWindow,   \* HIGHLIGHT_MAX_WINDOW_ROWS
          Budget       \* HIGHLIGHT_MAX_LINES_PER_CALL

ASSUME LineStatesAssumption ==
  /\ Stride \in Nat \ {0}
  /\ Slack \in Nat
  /\ MaxWindow \in Nat \ {0}
  /\ Budget \in Nat \ {0}

None == <<>>
EmptyCell == [spans |-> None, state |-> None]
LowerOf(a, b) == IF a < b THEN a ELSE b
UpperOf(a, b) == IF a < b THEN b ELSE a

Lines == {"open", "close", "text", "long"}
Fresh(theme) == <<theme, "code">>

\* tokenize_line: the spans of a line and its end state.
TokenizedLine(state, line) ==
  [spans |-> <<state, line>>,
   state |-> <<state[1], CASE line = "open" -> "comment"
                           [] line = "close" -> "code"
                           [] OTHER -> state[2]>>]

\* Rope::line: a row past the end reads as an empty line.
LineAt(lines, row) == IF row < Len(lines) THEN lines[row + 1] ELSE "text"

\* What a line by line pass over the whole text stores after each row: the reference.
TrueCells(lines, theme) ==
  LET True[i \in 0..Len(lines)] ==
        IF i = 0 THEN [spans |-> None, state |-> Fresh(theme)]
        ELSE TokenizedLine(True[i - 1].state, lines[i])
  IN True

TrueAfter(lines, theme, row) == TrueCells(lines, theme)[row + 1]

----------------------------------------------------------------------------
\* padded_highlight_window, as <<first row, end>>.
PaddedWindow(aim, rows) ==
  LET from == UpperOf(0, aim[1] - Slack) IN
  <<from, UpperOf(from, LowerOf(LowerOf(aim[2] + Slack, from + MaxWindow), rows))>>

NewCache(rows) ==
  LET len == LowerOf(2 * Slack, rows) IN
  [rows |-> rows, dirty |-> 0..rows - 1, aim |-> <<0, len>>,
   start |-> 0, cells |-> [i \in 1..len |-> EmptyCell], pins |-> None]

WindowEnd(c) == c.start + Len(c.cells)
InWindow(c, row) == row \in c.start..WindowEnd(c) - 1
CellAt(c, row) == c.cells[row - c.start + 1]
ShownIn(c) == c.start..LowerOf(WindowEnd(c), c.rows) - 1

SetWindow(c, aim) ==
  LET win == PaddedWindow(aim, c.rows)
      Kept(row) == IF InWindow(c, row) THEN CellAt(c, row) ELSE EmptyCell
  IN IF win = <<c.start, WindowEnd(c)>>
     THEN [c EXCEPT !.aim = aim]
     ELSE [c EXCEPT !.aim = aim, !.start = win[1],
                    !.cells = [i \in 1..win[2] - win[1] |-> Kept(win[1] + i - 1)]]

SetTheme(c) ==
  [c EXCEPT !.cells = [i \in DOMAIN c.cells |-> [spans |-> c.cells[i].spans, state |-> None]],
            !.pins = None, !.dirty = 0..c.rows - 1]

----------------------------------------------------------------------------
(* The checkpoints and the stored states. *)

StoredAfter(c, row) ==
  IF InWindow(c, row) /\ row < c.rows /\ CellAt(c, row).state # None
  THEN CellAt(c, row).state
  ELSE IF row \in DOMAIN c.pins THEN c.pins[row] ELSE None

\* Checkpoints::set_stride: the pins strictly within a stride behind row go.
SetStride(pins, row, state) ==
  (row :> state) @@ Restrict(pins, {r \in DOMAIN pins : r <= UpperOf(0, row - Stride) \/ r > row})

Retain(c, row, cell) ==
  [c EXCEPT
     !.cells = IF InWindow(c, row) /\ row < c.rows
               THEN [c.cells EXCEPT ![row - c.start + 1] = cell] ELSE c.cells,
     !.pins  = IF (row + 1) % Stride = 0 THEN SetStride(c.pins, row, cell.state)
               ELSE IF row \in DOMAIN c.pins THEN [c.pins EXCEPT ![row] = cell.state]
               ELSE c.pins]

KeepResume(c, row, state) ==
  IF row < 0 \/ StoredAfter(c, row) # None THEN c
  ELSE [c EXCEPT !.pins = (row :> state) @@ c.pins]

FirstDirty(c) == IF c.dirty = {} THEN c.rows ELSE Min(c.dirty)
Gaps(c) == {row \in ShownIn(c) : row < FirstDirty(c) /\ CellAt(c, row).spans = None}

\* A defect: rows of the window waiting for a refill are forgotten once nothing is dirty.
IsPendingDirty(c) == c.dirty # {}

\* Cache::pending is not None.
IsPending(c) == c.dirty # {} \/ Gaps(c) # {}

----------------------------------------------------------------------------
(* Cache::tokenize_until, a step at a time: w holds the cache, the rows    *)
(* tokenized so far, the row the walk stands behind and its end state.     *)

\* start_state_for: the nearest stored state before row, or the document's top.
From(w, theme, row) ==
  LET stored == {r \in 0..row - 1 : StoredAfter(w.cache, r) # None} IN
  IF stored = {} THEN [w EXCEPT !.at = -1, !.state = Fresh(theme)]
  ELSE [w EXCEPT !.at = Max(stored), !.state = StoredAfter(w.cache, Max(stored))]

Stepped(w, cell) ==
  [cache |-> Retain(w.cache, w.at + 1, cell), work |-> w.work + 1, at |-> w.at + 1, state |-> cell.state]

Advanced(w, lines) == Stepped(w, TokenizedLine(w.state, LineAt(lines, w.at + 1)))

Stopped(w) == [w EXCEPT !.cache = KeepResume(w.cache, w.at, w.state)]

RECURSIVE WarmUp(_, _, _)
WarmUp(w, lines, to) ==
  IF w.at + 1 >= to THEN w
  ELSE IF w.work = Budget THEN Stopped(w)
  ELSE WarmUp(Advanced(w, lines), lines, to)

\* The row behind which w stands leaves the dirty rows; the one after it joins them unless
\* its stored state, old, is the one just computed.
Consumed(w, old) ==
  [w EXCEPT !.cache.dirty =
     (@ \ {w.at}) \cup (IF old = w.state \/ w.at + 1 >= w.cache.rows THEN {} ELSE {w.at + 1})]

RECURSIVE DirtyWalk(_, _, _, _), Cascade(_, _, _, _), CascadeOn(_, _, _, _, _)

Cascade(w, lines, theme, target) ==
  IF w.work = Budget THEN Stopped(w)
  ELSE CascadeOn(Advanced(w, lines), StoredAfter(w.cache, w.at + 1), lines, theme, target)

CascadeOn(w, old, lines, theme, target) ==
  IF old # w.state /\ w.at + 1 < w.cache.rows /\ w.at + 1 <= target
  THEN Cascade(Consumed(w, old), lines, theme, target)
  ELSE DirtyWalk(Consumed(w, old), lines, theme, target)

CascadeFrom(w, first, lines, theme, target) ==
  IF w.at + 1 < first THEN w ELSE Cascade(w, lines, theme, target)

DirtyWalk(w, lines, theme, target) ==
  IF w.work = Budget \/ w.cache.dirty = {} \/ FirstDirty(w.cache) > target THEN w
  ELSE CascadeFrom(WarmUp(From(w, theme, FirstDirty(w.cache)), lines, FirstDirty(w.cache)),
                   FirstDirty(w.cache), lines, theme, target)

RECURSIVE Refill(_, _, _), Fill(_, _, _, _)

Fill(w, end, lines, theme) ==
  IF w.at + 1 >= end THEN Refill(w, lines, theme)
  ELSE IF w.work = Budget THEN Stopped(w)
  ELSE IF CellAt(w.cache, w.at + 1).spans # None /\ StoredAfter(w.cache, w.at + 1) # None
  THEN Fill([w EXCEPT !.at = w.at + 1, !.state = StoredAfter(w.cache, w.at + 1)], end, lines, theme)
  ELSE Fill(Advanced(w, lines), end, lines, theme)

FillFrom(w, gap, lines, theme) ==
  IF w.at + 1 < gap THEN w
  ELSE Fill(w, LowerOf(LowerOf(WindowEnd(w.cache), w.cache.rows), FirstDirty(w.cache)), lines, theme)

Refill(w, lines, theme) ==
  IF w.work = Budget \/ Gaps(w.cache) = {} THEN w
  ELSE FillFrom(WarmUp(From(w, theme, Min(Gaps(w.cache))), lines, Min(Gaps(w.cache))),
                Min(Gaps(w.cache)), lines, theme)

Walking(c, theme) == [cache |-> c, work |-> 0, at |-> -1, state |-> Fresh(theme)]

TokenizeUntil(c, lines, theme, target) ==
  Refill(DirtyWalk(Walking(c, theme), lines, theme, target), lines, theme).cache

----------------------------------------------------------------------------
(* A commit: splices is a sequence of [at, old, new], rows that became     *)
(* others, ascending and apart.                                            *)

Shift(splices, row) ==
  LET Counted(sum, s) == IF s.at + s.old <= row THEN sum + s.new - s.old ELSE sum
  IN FoldLeft(Counted, 0, splices)

IsEdited(splices, row) == \E j \in DOMAIN splices :
  row \in splices[j].at..splices[j].at + splices[j].old - 1

\* Checkpoints::shift.
ShiftedPins(pins, splices) ==
  LET kept == {r \in DOMAIN pins : ~IsEdited(splices, r)}
      Source(row) == CHOOSE r \in kept : r + Shift(splices, r) = row
  IN [row \in {r + Shift(splices, r) : r \in kept} |-> pins[Source(row)]]

RunsOf(rows) ==
  {run \in rows \X rows : /\ run[1] - 1 \notin rows
                         /\ run[2] + 1 \notin rows
                         /\ run[1]..run[2] \subseteq rows}

NewRows(splices, j) ==
  LET from == splices[j].at + Shift(splices, splices[j].at) IN from..from + splices[j].new - 1

\* DirtyRanges::apply_splices: whole runs move by the edits above their two ends.
ShiftedDirty(dirty, splices) ==
  LET Moved(run) == run[1] + Shift(splices, run[1])..run[2] + Shift(splices, run[2] + 1)
  IN UNION ({Moved(run) : run \in RunsOf(dirty)} \cup {NewRows(splices, j) : j \in DOMAIN splices})

\* The state an edit's last new row is compared with: what is stored after its last old row.
Probe(c, splice) == StoredAfter(c, splice.at + splice.old - 1)

\* Retention::shift_window, of a cache whose checkpoints have moved already: a row without a state
\* in the window is probed among those.
ShiftedWindow(c, splices) ==
  LET from == c.start + Shift(splices, c.start)
      kept == {row \in c.start..WindowEnd(c) - 1 : ~IsEdited(splices, row)}
      New(row) == row + Shift(splices, row)
      probed == {j \in DOMAIN splices : Probe(c, splices[j]) # None}
      rows == {from} \cup {New(row) : row \in kept} \cup {Max(NewRows(splices, j)) : j \in probed}
      len == LowerOf(Max(rows) + 1 - from, MaxWindow)
      Cell(row) ==
        IF \E old \in kept : New(old) = row
        THEN CellAt(c, CHOOSE old \in kept : New(old) = row) ELSE EmptyCell
      Probed(row, cell) ==
        IF cell.state = None /\ \E j \in probed : Max(NewRows(splices, j)) = row
        THEN [cell EXCEPT !.state =
                Probe(c, splices[CHOOSE j \in probed : Max(NewRows(splices, j)) = row])]
        ELSE cell
  IN [c EXCEPT !.start = from,
               !.cells = [i \in 1..len |-> Probed(from + i - 1, Cell(from + i - 1))]]

\* Cache::on_commit_patch.
OnCommit(c, splices) ==
  [ShiftedWindow([c EXCEPT !.pins = ShiftedPins(@, splices)], splices) EXCEPT
     !.dirty = ShiftedDirty(@, splices),
     !.rows = @ + Shift(splices, @)]
=============================================================================
