------------------------------ MODULE Brackets ------------------------------
(***************************************************************************)
(* Bracket matching of matcha-core (bracket.rs, bracket_tree.rs).          *)
(*                                                                         *)
(* The tree's items are a sequence of brackets in text order, each an      *)
(* offset and a character; the tree's balance is left out, and what a      *)
(* query reads from cached subtree summaries is read from summaries of     *)
(* whatever runs the sequence is cut into.  Two kinds of bracket stand     *)
(* for the three, one string delimiter for strings and char literals, and  *)
(* a one-character marker for a line comment.                              *)
(***************************************************************************)
EXTENDS Transaction

CONSTANT BulkAfter   \* the edits of a batch above which a neutral one is shifted in bulk: 64

ASSUME BracketsAssumption == BulkAfter \in Nat

LineEnd == "\n"
Delimiter == "'"
Escape == "\\"
Marker == "#"

IsOpener(ch) == ch \in {"(", "{"}
IsCloser(ch) == ch \in {")", "}"}
IsBracket(ch) == IsOpener(ch) \/ IsCloser(ch)
Pairs(o, c) == <<o, c>> \in {<<"(", ")">>, <<"{", "}">>}

None == -1

\* Buffer::offset_to_point(..).row, and where a row starts and ends.
Row(text, off) == Cardinality({i \in 1..off : text[i] = LineEnd})
RowCount(text) == Row(text, Len(text)) + 1
LineStart(text, row) == Min({off \in 0..Len(text) : Row(text, off) = row})
LineStop(text, row) == Max({off \in 0..Len(text) : Row(text, off) = row})

----------------------------------------------------------------------------
\* A defect: a string goes on past the end of its line.
SkippedAcross(state, ch) ==
  CASE ch = LineEnd /\ state # "Str" -> "Code"
    [] state = "Code" /\ ch = Marker -> "LineComment"
    [] state = "Code" /\ ch = Delimiter -> "Str"
    [] state = "Str" /\ ch = Escape -> "Escaped"
    [] state = "Str" /\ ch = Delimiter -> "Code"
    [] state = "Escaped" -> "Str"
    [] OTHER -> state

\* SkipContext::step: the state after ch. All states but Code skip brackets.
Skipped(state, ch) ==
  CASE ch = LineEnd -> "Code"
    [] state = "Code" /\ ch = Marker -> "LineComment"
    [] state = "Code" /\ ch = Delimiter -> "Str"
    [] state = "Str" /\ ch = Escape -> "Escaped"
    [] state = "Str" /\ ch = Delimiter -> "Code"
    [] state = "Escaped" -> "Str"
    [] OTHER -> state

\* tree_from_text_with over text from its start, which must be a line's when aware; at is the
\* offset of the text's start.
ScanFrom(text, at, aware) ==
  LET Seen(s, ch) ==
        [state |-> IF aware THEN Skipped(s.state, ch) ELSE "Code",
         found |-> IF s.state = "Code" /\ IsBracket(ch)
                   THEN Append(s.found, [at |-> s.at, ch |-> ch]) ELSE s.found,
         at    |-> s.at + 1]
  IN FoldLeft(Seen, [state |-> "Code", found |-> <<>>, at |-> at], text).found

\* Brackets::match_text_with
Scan(text, aware) == ScanFrom(text, 0, aware)

Before(bs, off) == SelectSeq(bs, LAMBDA b : b.at < off)
From(bs, off) == SelectSeq(bs, LAMBDA b : b.at >= off)

----------------------------------------------------------------------------
\* ShapeSummary: the closers still seeking an opener to the left, and the open openers.
NoShape == [pending |-> <<>>, stack |-> <<>>]

\* A closer meets the stack: it closes the top, or is dropped, or stays pending.
Met(shape, c) ==
  IF shape.stack = <<>> THEN [shape EXCEPT !.pending = Append(@, c)]
  ELSE IF Pairs(Last(shape.stack).ch, c.ch) THEN [shape EXCEPT !.stack = Front(@)]
  ELSE shape

\* ShapeSummary::add_summary
Combined(l, r) ==
  LET met == FoldLeft(Met, l, r.pending) IN [met EXCEPT !.stack = @ \o r.stack]

ItemShape(b) ==
  IF IsOpener(b.ch) THEN [NoShape EXCEPT !.stack = <<b>>] ELSE [NoShape EXCEPT !.pending = <<b>>]

Shape(bs) == FoldLeft(LAMBDA s, b : Combined(s, ItemShape(b)), NoShape, bs)

\* enclosing_openers
EnclosingOpeners(bs, off) == Shape(Before(bs, off)).stack

\* closer_partner
CloserPartner(bs, b) ==
  LET stack == EnclosingOpeners(bs, b.at)
  IN IF stack # <<>> /\ Pairs(Last(stack).ch, b.ch) THEN Last(stack).at ELSE None

\* opener_partner, over the suffix handed over in the summaries of runs. Its local stack is on top
\* of the opener: the closer that empties it is the partner.
OpenerPartner(bs, b, runs) ==
  LET Close(s, c) ==
        IF s.partner # None \/ ~Pairs(Last(s.stack).ch, c.ch) THEN s
        ELSE [stack |-> Front(s.stack), partner |-> IF Len(s.stack) = 1 THEN c.at ELSE None]
      Over(s, shape) ==
        LET closed == FoldLeft(Close, s, shape.pending)
        IN [closed EXCEPT !.stack = @ \o shape.stack]
  IN IF Contains(Shape(bs).stack, b) THEN None
     ELSE FoldLeft(Over, [stack |-> <<b>>, partner |-> None], runs).partner

\* The summaries of the suffix after b, cut in two.
Runs(bs, b, cut) == <<Shape(Before(From(bs, b.at + 1), cut)), Shape(From(bs, Max({cut, b.at + 1})))>>

\* partner
PartnerIn(bs, b, cut) ==
  IF IsOpener(b.ch) THEN OpenerPartner(bs, b, Runs(bs, b, cut)) ELSE CloserPartner(bs, b)

\* derive_all: every bond of the whole sequence in one sweep, as <<opener, closer>> offsets.
Bonds(bs) ==
  LET Swept(s, b) ==
        IF IsOpener(b.ch) THEN [s EXCEPT !.stack = Append(@, b)]
        ELSE IF s.stack # <<>> /\ Pairs(Last(s.stack).ch, b.ch)
        THEN [stack |-> Front(s.stack), bonds |-> s.bonds \cup {<<Last(s.stack).at, b.at>>}]
        ELSE s
  IN FoldLeft(Swept, [stack |-> <<>>, bonds |-> {}], bs).bonds

\* enclosing_pairs by descent: the openers around off that have a partner.
EnclosingPairs(bs, off) ==
  {<<b.at, OpenerPartner(bs, b, Runs(bs, b, off))>> : b \in ToSet(EnclosingOpeners(bs, off))}
    \ {<<b.at, None>> : b \in ToSet(bs)}

\* What the descents answer, read off the bonds: the pairs around off, and those around or at it
\* (enclosing_pairs, enclosing_or_touching_pairs).
Around(bonds, off) == {p \in bonds : p[1] < off /\ off <= p[2]}
AroundOrAt(bonds, off) == {p \in bonds : p[1] <= off /\ off <= p[2] + 1}

----------------------------------------------------------------------------
\* What apply_edit rescans: a run of the new text and the length of what it replaces.
Region(start, stop, oldLen) == [start |-> start, stop |-> stop, oldLen |-> oldLen]

EditRegions(patch) ==
  [n \in DOMAIN patch |->
     Region(patch[n].newStart, patch[n].newStop, patch[n].oldStop - patch[n].oldStart)]

\* line_aligned_regions: whole lines, merged where they touch.
NextLine(text, off) ==
  IF Row(text, off) + 1 < RowCount(text) THEN LineStart(text, Row(text, off) + 1) ELSE Len(text)

WidenedEdit(e, text) ==
  [start |-> LineStart(text, Row(text, e.newStart)), stop |-> NextLine(text, e.newStop),
   delta |-> (e.newStop - e.newStart) - (e.oldStop - e.oldStart)]

JoinedLines(rs, w) ==
  IF rs # <<>> /\ w.start <= Last(rs).stop
  THEN Append(Front(rs), [Last(rs) EXCEPT !.stop = Max({@, w.stop}), !.delta = @ + w.delta])
  ELSE Append(rs, w)

BeforeEdit(w) == Region(w.start, w.stop, Max({w.stop - w.start - w.delta, 0}))

LineRegions(patch, text) ==
  MapSeq(FoldLeft(LAMBDA rs, e : JoinedLines(rs, WidenedEdit(e, text)), <<>>, patch), BeforeEdit)

Shifted(bs, delta) == [n \in DOMAIN bs |-> [bs[n] EXCEPT !.at = @ + delta]]

\* One region's splice: the items before it, the rescan, the items behind it moved along.
SplicedItems(bs, r, text, aware) ==
  Before(bs, r.start) \o ScanFrom(Slice(text, r.start, r.stop), r.start, aware)
    \o Shifted(From(bs, r.start + r.oldLen), r.stop - r.start - r.oldLen)

\* is_structure_neutral, and bulk_shift for more than BulkAfter edits.
IsNeutral(bs, patch, text) ==
  \A n \in DOMAIN patch :
    /\ \A i \in (patch[n].newStart + 1)..patch[n].newStop : ~IsBracket(text[i])
    /\ \A b \in ToSet(bs) : b.at \notin patch[n].oldStart..(patch[n].oldStop - 1)
BulkShifted(bs, patch) == [n \in DOMAIN bs |-> [bs[n] EXCEPT !.at = MapOffset(patch, @, "Right")]]

NoWindow == [start |-> 0, stop |-> 0]

\* The openers to check again: from the outermost one around the first region.
Window(bs, regions) ==
  LET around == EnclosingOpeners(bs, regions[1].start)
  IN [start |-> IF around = <<>> THEN regions[1].start ELSE around[1].at,
      stop  |-> Last(regions).stop + 1]

\* apply_edit of the committed patch: the brackets of text, and the window.
RematchedIn(bs, regions, text, aware) ==
  LET Has(items, start, stop) == \E b \in ToSet(items) : b.at \in start..(stop - 1)
      Swap(s, r, next) ==
        [bs |-> next,
         structural |-> s.structural \/ Has(s.bs, r.start, r.start + r.oldLen)
                                     \/ Has(next, r.start, r.stop)]
      Checked(done) ==
        [bs |-> done.bs, window |-> IF done.structural THEN Window(bs, regions) ELSE NoWindow]
  IN Checked(FoldLeft(LAMBDA s, r : Swap(s, r, SplicedItems(s.bs, r, text, aware)),
                   [bs |-> bs, structural |-> FALSE], regions))

Rematched(bs, patch, text, aware) ==
  IF ~aware /\ Len(patch) > BulkAfter /\ IsNeutral(bs, patch, text)
  THEN [bs |-> BulkShifted(bs, patch), window |-> NoWindow]
  ELSE RematchedIn(bs, IF aware THEN LineRegions(patch, text) ELSE EditRegions(patch), text, aware)
=============================================================================
