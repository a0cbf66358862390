----------------------------- MODULE Selections -----------------------------
(***************************************************************************)
(* The selections of matcha-core (selection.rs), as a sequence kept sorted *)
(* and merged.  A selection knows when it was made (its id) and whether    *)
(* its head is its start; the goal column is left out.                     *)
(***************************************************************************)
EXTENDS Transaction

Selection(id, start, stop, reversed) ==
  [id |-> id, start |-> start, stop |-> stop, reversed |-> reversed]

Caret(id, off) == Selection(id, off, off, FALSE)

Spanning(id, anchor, head) ==
  Selection(id, Min({anchor, head}), Max({anchor, head}), head < anchor)

HeadOf(s) == IF s.reversed THEN s.start ELSE s.stop
IsCaret(s) == s.start = s.stop

\* should_merge, for b not before a.
ShouldMerge(a, b) ==
  \/ b.start < a.stop
  \/ a.start = b.start
  \/ b.start = a.stop /\ (IsCaret(a) \/ IsCaret(b))

\* Two that merge: the newer one's identity and direction.
MergedPair(a, b) ==
  LET newer == IF b.id > a.id THEN b ELSE a
  IN Selection(newer.id, Min({a.start, b.start}), Max({a.stop, b.stop}), newer.reversed)

\* normalize
Normal(sels) ==
  LET Ahead(i, j) ==
        \/ sels[i].start < sels[j].start
        \/ sels[i].start = sels[j].start /\ sels[i].stop < sels[j].stop
        \/ sels[i].start = sels[j].start /\ sels[i].stop = sels[j].stop /\ i < j
      order == SetToSortSeq(DOMAIN sels, Ahead)
      Joined(done, i) ==
        IF done # <<>> /\ ShouldMerge(Last(done), sels[i])
        THEN Append(Front(done), MergedPair(Last(done), sels[i]))
        ELSE Append(done, sels[i])
  IN FoldLeft(Joined, <<>>, order)

Newest(sels) == CHOOSE s \in ToSet(sels) : \A t \in ToSet(sels) : t.id <= s.id
NextId(sels) == Newest(sels).id + 1

\* map_each, with what f makes of each.
MapEach(sels, f(_)) == Normal([n \in DOMAIN sels |-> f(sels[n])])

\* add_selection, add_caret
Added(sels, anchor, head) == Normal(Append(sels, Spanning(NextId(sels), anchor, head)))

\* rebase: a caret stays one, behind what is inserted at it; a range takes in what is at its ends.
Rebased(sels, patch) ==
  LET Moved(s) ==
        LET start == MapOffset(patch, s.start, IF IsCaret(s) THEN "Right" ELSE "Left")
            stop  == MapOffset(patch, s.stop, "Right")
        IN [s EXCEPT !.start = Min({start, stop}), !.stop = Max({start, stop})]
  IN MapEach(sels, Moved)
=============================================================================
