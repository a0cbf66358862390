------------------------------ MODULE FoldMaps ------------------------------
(***************************************************************************)
(* Code folding of matcha-core (fold_map.rs, and the gap rules of          *)
(* row_layout.rs).                                                         *)
(*                                                                         *)
(* A FoldSet is a set of offsets, those of the folded pairs' openers.  A   *)
(* FoldMap is what a set, the brackets and the text make of it: the rows   *)
(* hidden by block folds, the gaps of inline ones, and the number of rows. *)
(* The code keeps both on delta-gap trees; here they hold absolute rows    *)
(* and offsets.  No line is indented, so a fold's last row renders whole.  *)
(***************************************************************************)
EXTENDS Brackets

\* pair_has_interior, gap_left_edge, gap_hides_caret
HasInterior(open, close) == close > open + 1
GapLeftEdge(open) == open + 1
GapHides(open, close, off) == off > GapLeftEdge(open) /\ off < close

\* The openers that can be folded (foldable_partner, with the rule above).
Foldable(bs) == {p[1] : p \in {q \in Bonds(bs) : HasInterior(q[1], q[2])}}

\* FoldSet::apply_patch, by OffsetSet's: one edit moves what is behind it as a whole.
MovedFolds(folds, patch) ==
  LET e == patch[1]
      Through(os) == {MapOffset(patch, o, "Right") : o \in os}
  IN IF Len(patch) > 1 THEN Through(folds)
     ELSE {o \in folds : o < e.oldStart}
            \cup Through({o \in folds : e.oldStart <= o /\ o <= e.oldStop})
            \cup {o + e.newStop - e.oldStop : o \in {f \in folds : f > e.oldStop}}

----------------------------------------------------------------------------
SameRow(text, a, b) == Row(text, a) = Row(text, b)

\* The pairs of folds, <<opener, closer>>.
PairsOf(folds, bs) == {p \in Bonds(bs) : p[1] \in folds}

\* root_regions: outermost first, and none that starts on a row another one hides.
RootBlocks(blocks) ==
  LET Outer(a, b) == a.header < b.header \/ (a.header = b.header /\ a.last > b.last)
      Root(roots, b) ==
        IF roots = <<>> \/ b.header > Last(roots).last THEN Append(roots, b) ELSE roots
  IN FoldLeft(Root, <<>>, SetToSortSeq(blocks, Outer))

\* root_inline
RootInline(inline) ==
  LET Inside(f, g) == g.row = f.row /\ g.open < f.open /\ f.close < g.close
      Root(roots, f) == IF roots = <<>> \/ ~Inside(f, Last(roots)) THEN Append(roots, f) ELSE roots
  IN FoldLeft(Root, <<>>, SetToSortSeq(inline, LAMBDA f, g : f.open < g.open))

\* What the folded pairs make of text: those over lines are blocks, the rest inline.
MapOfPairs(pairs, text) ==
  [blocks |-> RootBlocks({[header |-> Row(text, p[1]), last |-> Row(text, p[2])] :
                            p \in {q \in pairs : ~SameRow(text, q[1], q[2])}}),
   inline |-> RootInline({[row |-> Row(text, p[1]), open |-> p[1], close |-> p[2]] :
                            p \in {q \in pairs : SameRow(text, q[1], q[2]) /\ HasInterior(q[1], q[2])}}),
   rows   |-> RowCount(text)]

\* FoldMap::new
NewFoldMap(folds, bs, text) == MapOfPairs(PairsOf(folds, bs), text)

EmptyFoldMap == [blocks |-> <<>>, inline |-> <<>>, rows |-> 0]

\* inline_overlaps
InlineOverlaps(map, start, stop) ==
  LET upTo == SelectSeq(map.inline, LAMBDA f : f.open <= stop)
  IN upTo # <<>> /\ Last(upTo).close >= start

\* shift_inline: past the one edit as a whole, or each end by itself.
ShiftedInline(map, patch, delta) ==
  LET e == patch[1]
      grown == (e.newStop - e.newStart) - (e.oldStop - e.oldStart)
  IN [n \in DOMAIN map.inline |->
        LET f == map.inline[n] IN
        IF Len(patch) = 1 /\ ~InlineOverlaps(map, e.oldStart, e.oldStop)
        THEN IF f.open < e.oldStart THEN f
             ELSE [row |-> f.row + delta, open |-> f.open + grown, close |-> f.close + grown]
        ELSE [f EXCEPT !.open = MapOffset(patch, @, "Right"), !.close = MapOffset(patch, @, "Right")]]

\* The rows that a change of delta lines by edit e moves.
Below(map, e, text) == {n \in DOMAIN map.blocks : map.blocks[n].last > Row(text, e.newStart)}

\* Whether apply_patch shifts the map: not when the lines changed by several edits, at an inline
\* fold, or from before a block fold into it.
CanShift(map, patch, text) ==
  LET e == patch[1]
      delta == RowCount(text) - map.rows
  IN delta # 0 =>
       /\ Len(patch) = 1 /\ ~InlineOverlaps(map, e.oldStart, e.oldStop)
       /\ Below(map, e, text) # {} =>
            map.blocks[Min(Below(map, e, text))].header >= Row(text, e.newStop) - delta

\* FoldMap::apply_patch of a map that can be shifted. text is the new one.
ShiftedMap(map, patch, text) ==
  LET delta == RowCount(text) - map.rows
      below == IF delta = 0 THEN {} ELSE Below(map, patch[1], text)
  IN [blocks |-> [n \in DOMAIN map.blocks |->
                    IF n \in below THEN [header |-> map.blocks[n].header + delta,
                                         last   |-> map.blocks[n].last + delta]
                    ELSE map.blocks[n]],
      inline |-> ShiftedInline(map, patch, delta),
      rows   |-> RowCount(text)]

----------------------------------------------------------------------------
\* is_folded, and renders: the last row of a block fold renders behind its header.
BlockHides(map, row) ==
  {n \in DOMAIN map.blocks : map.blocks[n].header < row /\ row < map.blocks[n].last}
Renders(map, text, off) == BlockHides(map, Row(text, off)) = {}

\* inline_fold_before, and whether it hides a caret.
InlineHides(map, off) ==
  LET ahead == SelectSeq(map.inline, LAMBDA f : f.open < off)
  IN ahead # <<>> /\ GapHides(Last(ahead).open, Last(ahead).close, off)

Visible(map, text, off) == Renders(map, text, off) /\ ~InlineHides(map, off)

\* entry_edge_if_hidden, or off itself.
EntryEdge(map, text, off) ==
  IF ~Renders(map, text, off)
  THEN LineStop(text, map.blocks[Min(BlockHides(map, Row(text, off)))].header)
  ELSE IF InlineHides(map, off)
  THEN GapLeftEdge(Last(SelectSeq(map.inline, LAMBDA f : f.open < off)).open)
  ELSE off

----------------------------------------------------------------------------
\* expand_folds_touched: the folds a committed patch leaves closed. A fold that holds or touches an
\* end of an edit opens when its hidden text was reached.
Ends(patch) == UNION {{patch[n].newStart, patch[n].newStop} : n \in DOMAIN patch}

\* The pairs, of folded ones, that hold or touch an end: from the outermost around the first end.
Touched(pairs, ends) ==
  LET first == Min(ends \cup {p[1] : p \in AroundOrAt(pairs, Min(ends))})
  IN {p \in pairs : p[1] \in first..Max(ends) /\ \E e \in ends : p[1] <= e /\ e <= p[2] + 1}

\* The pairs that open, of those touched: inline ones that an edit starts in, and all over lines
\* when an end is hidden.
Opening(pairs, patch, text, hidden) ==
  {p \in pairs : IF SameRow(text, p[1], p[2])
                 THEN \E n \in DOMAIN patch : p[1] < patch[n].newStart /\ patch[n].newStart <= p[2]
                 ELSE hidden}

SomeHidden(map, text, ends) == \E e \in ends : ~Renders(map, text, e)

KeptBut(folds, pairs, patch, text, ends) ==
  folds \ {p[1] : p \in Opening(pairs, patch, text, SomeHidden(MapOfPairs(pairs, text), text, ends))}

\* A defect: only an edit that ends in hidden text opens a fold.
KeptClosedAtStops(folds, bs, patch, text) ==
  IF folds = {} THEN folds
  ELSE LET stops == {patch[n].newStop : n \in DOMAIN patch}
       IN KeptBut(folds, Touched(PairsOf(folds, bs), stops), patch, text, stops)

KeptClosed(folds, bs, patch, text) ==
  IF folds = {} THEN folds
  ELSE KeptBut(folds, Touched(PairsOf(folds, bs), Ends(patch)), patch, text, Ends(patch))

\* unfold_to_reveal: open the innermost pair around off until it can be seen.
Peeled(open, pairs, text, off) ==
  LET hiding == {p \in pairs : p[1] < off /\ off < p[2]}
  IN IF hiding = {} \/ Visible(MapOfPairs(pairs, text), text, off) THEN open
     ELSE open \ {p[1] : p \in {q \in hiding : \A r \in hiding : q[2] - q[1] <= r[2] - r[1]}}

Revealed(folds, bs, text, off) ==
  LET peel[n \in 0..Cardinality(folds)] ==
        IF n = 0 THEN folds ELSE Peeled(peel[n - 1], PairsOf(peel[n - 1], bs), text, off)
  IN peel[Cardinality(folds)]
=============================================================================
