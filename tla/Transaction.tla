---------------------------- MODULE Transaction ----------------------------
(***************************************************************************)
(* The transaction engine of matcha-core (transaction.rs) and the patches  *)
(* positions ride (patch.rs): how a batch of edits is normalized, applied  *)
(* back to front, inverted, and what it does to an offset.                 *)
(*                                                                         *)
(* A text is a sequence of characters.  The models never write one twice,  *)
(* so that a character that survives an edit can be told by its value.     *)
(* Characters are one byte: the clipping to character boundaries and the   *)
(* folding of line ends are left out, and so is the bound on the length.   *)
(***************************************************************************)
EXTENDS Integers, SequencesExt

\* seq with f of each of its elements.
MapSeq(seq, f(_)) == [n \in DOMAIN seq |-> f(seq[n])]

\* EditOp
EditOp(start, stop, text) == [start |-> start, stop |-> stop, text |-> text]

\* The characters of text in start..stop, as a byte range slices it.
Slice(text, start, stop) == SubSeq(text, start + 1, stop)

\* An op's range within the text.
Clipped(text, op) ==
  EditOp(Min({op.start, op.stop, Len(text)}), Min({Max({op.start, op.stop}), Len(text)}), op.text)

Changing(op) == op.start < op.stop \/ op.text # <<>>

\* apply() steps 1 and 2: what changes nothing is dropped, the rest sorted by start, ties in the
\* caller's order.
Normalized(text, ops) ==
  LET norm == [i \in DOMAIN ops |-> Clipped(text, ops[i])]
      kept == {i \in DOMAIN ops : Changing(norm[i])}
      Before(i, j) == norm[i].start < norm[j].start \/ (norm[i].start = norm[j].start /\ i < j)
      order == CHOOSE at \in [1..Cardinality(kept) -> kept] :
                 \A n \in DOMAIN at : \A m \in 1..(n - 1) : Before(at[m], at[n])
  IN [n \in DOMAIN order |-> norm[order[n]]]

\* apply() step 3: touching is allowed, overlap is not.
Disjoint(ops) == \A n \in 1..(Len(ops) - 1) : ops[n].stop <= ops[n + 1].start

\* Buffer::splice
Spliced(text, op) == Slice(text, 0, op.start) \o op.text \o Slice(text, op.stop, Len(text))

\* Buffer::edit_many, for a normalized batch.
Applied(text, ops) == FoldLeft(Spliced, text, Reverse(ops))

Growth(op) == Len(op.text) - (op.stop - op.start)

\* Where op n of a normalized batch ends up: the ops before it have shifted it.
NewStart(ops, n) == FoldLeft(LAMBDA at, op : at + Growth(op), ops[n].start, SubSeq(ops, 1, n - 1))

\* apply() step 4: the inverse ops, in the coordinates of the text after the batch.
InverseOps(text, ops) ==
  [n \in DOMAIN ops |->
     EditOp(NewStart(ops, n), NewStart(ops, n) + Len(ops[n].text),
            Slice(text, ops[n].start, ops[n].stop))]

\* apply() step 4: the patch. An edit is the old range and the range it became.
PatchOf(ops) ==
  [n \in DOMAIN ops |->
     [oldStart |-> ops[n].start, oldStop |-> ops[n].stop,
      newStart |-> NewStart(ops, n), newStop |-> NewStart(ops, n) + Len(ops[n].text)]]

----------------------------------------------------------------------------
Biases == {"Left", "Right"}

\* map_within: p lies in the old range of e. The prefix the new text covers keeps its offset, and
\* the rest of what was deleted is clamped to the end of the new text.
MapWithin(e, p, bias) ==
  CASE p = e.oldStart -> IF bias = "Right" THEN e.newStop ELSE e.newStart
    [] p > e.oldStart /\ p < e.oldStop -> Min({e.newStart + p - e.oldStart, e.newStop})
    [] OTHER -> e.newStop

\* Patch::map_offset: the first edit that does not end before p has the say.
MapOffset(patch, p, bias) ==
  LET ended == {n \in DOMAIN patch : patch[n].oldStop < p}
      last  == Cardinality(ended)
      shift == IF ended = {} THEN 0 ELSE patch[last].newStop - patch[last].oldStop
  IN IF last < Len(patch) /\ p >= patch[last + 1].oldStart
     THEN MapWithin(patch[last + 1], p, bias)
     ELSE p + shift

\* A range that both biases kept from growing: DecorationStore::apply_patch for a range under
\* Stickiness::NeverGrows. It may collapse, never invert.
NeverGrowing(patch, r) ==
  LET stop == MapOffset(patch, r.stop, "Left")
  IN [start |-> Min({MapOffset(patch, r.start, "Right"), stop}), stop |-> stop]
=============================================================================
