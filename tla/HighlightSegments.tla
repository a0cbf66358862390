------------------------- MODULE HighlightSegments -------------------------
(***************************************************************************)
(* Segments of a document tokenized apart from its cache, and their        *)
(* absorption (highlight/line_state.rs: tokenize_segment, Cache::absorb).  *)
(*                                                                         *)
(* A segment is a record: rows and win as <<first row, end>>, fresh        *)
(* (whether it started from the document's top state), pins, the end       *)
(* state, and cells for the rows of win.                                   *)
(***************************************************************************)
EXTENDS LineStates

\* The cells of rows from..to-1, as a function from rows, when row from starts in state.
CellsFrom(lines, state, from, to) ==
  LET Cell[row \in from..to - 1] ==
        TokenizedLine(IF row = from THEN state ELSE Cell[row - 1].state, lines[row + 1])
  IN Cell

OnStride(row) == (row + 1) % Stride = 0

Clipped(win, rows) ==
  LET from == UpperOf(win[1], rows[1])
      to == LowerOf(win[2], rows[2])
  IN IF from < to THEN <<from, to>> ELSE <<rows[1], rows[1]>>

\* The segment that cells, a function from all its rows, makes.
SegmentOf(cells, rows, fresh, start, win) ==
  [rows |-> rows, fresh |-> fresh,
   pins |-> [row \in {r \in rows[1]..rows[2] - 1 : OnStride(r)} |-> cells[row].state],
   end  |-> IF rows[1] < rows[2] THEN cells[rows[2] - 1].state ELSE start,
   win  |-> win, cells |-> [row \in win[1]..win[2] - 1 |-> cells[row]]]

FreshSegment(lines, theme, rows, spansFor) ==
  SegmentOf(CellsFrom(lines, Fresh(theme), rows[1], rows[2]), rows, TRUE, Fresh(theme),
            Clipped(spansFor, rows))

\* The first stride row where a corrected run and the old segment agree, or the last row.
CutOf(cells, old) ==
  LET agreed == {r \in DOMAIN old.pins : old.pins[r] = cells[r].state} IN
  IF agreed = {} THEN old.rows[2] - 1 ELSE Min(agreed)

\* What the run makes of the rows up to cut, and the old segment of those after it.
Spliced(seg, old, cut) ==
  [seg EXCEPT
     !.pins  = [row \in DOMAIN seg.pins |-> IF row <= cut THEN seg.pins[row] ELSE old.pins[row]],
     !.cells = [row \in DOMAIN seg.cells |-> IF row <= cut THEN seg.cells[row] ELSE old.cells[row]],
     !.end   = IF cut < old.rows[2] - 1 THEN old.end ELSE seg.end]

CorrectedFrom(cells, state, old) ==
  Spliced(SegmentOf(cells, old.rows, FALSE, state, old.win), old, CutOf(cells, old))

\* A segment run again from the state it should have started in, against its old result.
Corrected(lines, state, old) ==
  CorrectedFrom(CellsFrom(lines, state, old.rows[1], old.rows[2]), state, old)

----------------------------------------------------------------------------
(* Cache::absorb. *)

RECURSIVE WithPins(_, _, _)
WithPins(pins, new, rows) ==
  IF rows = {} THEN pins
  ELSE WithPins(SetStride(pins, Min(rows), new[Min(rows)]), new, rows \ {Min(rows)})

Absorbed(c, row, seg) ==
  IF row \in DOMAIN seg.cells /\ row < c.rows THEN seg.cells[row]
  ELSE IF row >= seg.rows[1] /\ row < seg.rows[2] THEN EmptyCell
  ELSE CellAt(c, row)

AbsorbVerified(c, seg) ==
  [c EXCEPT !.pins  = WithPins(@, seg.pins, DOMAIN seg.pins),
            !.cells = [i \in DOMAIN c.cells |-> Absorbed(c, c.start + i - 1, seg)],
            !.dirty = @ \ (seg.rows[1]..seg.rows[2] - 1)]

\* Only dirty rows of the window take what a guess makes of them.
AbsorbGuess(c, seg) ==
  LET Taken(row) == IF row \in DOMAIN seg.cells /\ row \in c.dirty /\ row < c.rows
                    THEN seg.cells[row] ELSE CellAt(c, row)
  IN [c EXCEPT !.cells = [i \in DOMAIN c.cells |-> Taken(c.start + i - 1)]]
=============================================================================
