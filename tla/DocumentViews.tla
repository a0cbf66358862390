--------------------------- MODULE DocumentViews ---------------------------
(***************************************************************************)
(* What a matcha-core Document derives from its text and keeps in step     *)
(* with it (document.rs): the brackets, the folds, the cached fold map and *)
(* the selections, under edits, undo, redo and the gestures that fold.     *)
(*                                                                         *)
(* Every commit moves the views through rebase_views.  An edit then drops  *)
(* the folds it broke, in the window the brackets name, and shifts the     *)
(* cached map if nothing was folded or unfolded; undo and redo check all   *)
(* folds and leave the cache stale.                                        *)
(***************************************************************************)
EXTENDS FoldMaps, Selections, UndoHistory

CONSTANTS
  Files,       \* the texts a document is loaded with
  Inserts,     \* what edits insert
  Lexings,     \* whether strings and comments are told apart, as the host sets it up
  MaxBatch,    \* bound: edits of one batch, 1 or 2
  MaxEdits,    \* bound: batches
  MaxGestures  \* bound: undos, redos, fold gestures, and caret placements and jumps, which come
               \* before the first edit

ASSUME ViewsAssumption ==
  /\ Lexings \subseteq BOOLEAN /\ MaxBatch \in 1..2
  /\ MaxEdits \in Nat /\ MaxGestures \in Nat

VARIABLES
  text,      \* Document::buffer
  brackets,  \* Document::brackets
  aware,     \* whether bracket_config is active
  folds,     \* Document::folds
  cache,     \* Document::fold_cache: whether its key is the current one, and the map; and a history:
             \* whether no blocks met when it was built, and it was only shifted by plain text since
  sels,      \* Document::selections
  history,   \* Document::history
  lately,    \* a history: the patch of a commit, until the next gesture
  budget     \* what is left of the bounds

vars == <<text, brackets, aware, folds, cache, sels, history, lately, budget>>

Init ==
  /\ text \in Files /\ aware \in Lexings
  /\ brackets = Scan(text, aware)
  /\ folds = {}
  /\ cache = [fresh |-> FALSE, plain |-> TRUE, map |-> EmptyFoldMap]
  /\ sels = <<Caret(0, 0)>>
  /\ history = NewHistory
  /\ lately = <<>>
  /\ budget = [edits |-> MaxEdits, gestures |-> MaxGestures]

Spend(what) == budget[what] > 0 /\ budget' = [budget EXCEPT ![what] = @ - 1]

Stale(c) == [fresh |-> FALSE, plain |-> TRUE, map |-> EmptyFoldMap]

Views == [text |-> text, brackets |-> brackets, folds |-> folds, sels |-> sels, window |-> NoWindow,
          patch |-> <<>>, touched |-> FALSE]

\* rebase_views: the views of the text after the patch, by the brackets rematched and the folds
\* moved; a fold that hides an end of an edit opens.
Opened(views, moved, kept) == [views EXCEPT !.folds = kept, !.touched = kept # moved]

RebasedViews(v, then, patch, matched, moved) ==
  Opened([text |-> then, brackets |-> matched.bs, folds |-> moved, sels |-> Rebased(v.sels, patch),
          window |-> matched.window, patch |-> patch, touched |-> FALSE],
         moved, KeptClosed(moved, matched.bs, patch, then))

RebasedBy(v, then, patch) ==
  RebasedViews(v, then, patch, Rematched(v.brackets, patch, then, aware), MovedFolds(v.folds, patch))

Rebasing(v, ops) == RebasedBy(v, Applied(v.text, ops), PatchOf(ops))

\* reconcile_folds and reconcile_folds_in: of the folds in among, those that can be folded stay.
Reconciled(v, among) == v.folds \ (among \ Foldable(v.brackets))

----------------------------------------------------------------------------
\* One edit anywhere, or the same text typed at two carets, as apply normalizes them.
Offsets == 0..Len(text)
Ops == {op \in {EditOp(r[1], r[2], t) : r \in {q \in Offsets \X Offsets : q[1] <= q[2]}, t \in Inserts} :
          Changing(op)}
Typed == {<<EditOp(r[1], r[1], t), EditOp(r[2], r[2], t)>> :
            r \in {q \in Offsets \X Offsets : q[1] < q[2]}, t \in Inserts \ {<<>>}}
Batches == {<<op>> : op \in Ops} \cup (IF MaxBatch > 1 THEN Typed ELSE {})

\* Whether a batch writes or removes a bracket character.
TouchesBrackets(ops) ==
  \E n \in DOMAIN ops : \E ch \in ToSet(ops[n].text) \cup ToSet(Slice(text, ops[n].start, ops[n].stop)) :
    IsBracket(ch)

\* A defect: the cached map is shifted though a fold opened or was dropped.
CacheAfterBlindly(v, kept, plain) ==
  IF cache.fresh /\ CanShift(cache.map, v.patch, v.text)
  THEN [cache EXCEPT !.plain = @ /\ plain, !.map = ShiftedMap(@, v.patch, v.text)] ELSE Stale(cache)

\* The cached fold map after an edit, whose folds are kept in the end.
CacheAfter(v, kept, plain) ==
  IF cache.fresh /\ ~v.touched /\ kept = v.folds /\ CanShift(cache.map, v.patch, v.text)
  THEN [cache EXCEPT !.plain = @ /\ plain, !.map = ShiftedMap(@, v.patch, v.text)] ELSE Stale(cache)

\* What is left of the folds after a batch that touches brackets: those of the window are checked.
KeptFolds(v, touching) ==
  IF touching /\ v.window # NoWindow THEN Reconciled(v, v.window.start..(v.window.stop - 1)) ELSE v.folds

Landed(v, kept) ==
  /\ text' = v.text /\ brackets' = v.brackets /\ folds' = kept
  /\ lately' = v.patch
  /\ UNCHANGED aware

EditTo(v, kept, plain) ==
  /\ Landed(v, kept)
  /\ sels' = v.sels
  /\ cache' = CacheAfter(v, kept, plain)

\* Document::edit_grouped, of a normalized batch that changes something.
Edit(norm) ==
  /\ Spend("edits")
  /\ \E v \in {Rebasing(Views, norm)} :
       EditTo(v, KeptFolds(v, TouchesBrackets(norm)), ~TouchesBrackets(norm))
  /\ history' = Recorded(history, Step(norm, InverseOps(text, norm)), Discrete)

\* Document::undo and redo: every step rebased, all folds checked, and the caret at the change.
Replay(batches, by) ==
  /\ Spend("gestures")
  /\ \E v \in {FoldLeft(Rebasing, Views, batches)} :
       /\ Landed(v, Reconciled(v, v.folds))
       /\ sels' = <<Caret(0, IF by = "Undo" THEN v.patch[1].newStart ELSE Last(v.patch).newStop)>>
  /\ cache' = Stale(cache)

Undo == CanUndo(history) /\ Replay(UndoBatches(history), "Undo") /\ history' = Undone(history)
Redo == CanRedo(history) /\ Replay(RedoBatches(history), "Redo") /\ history' = Redone(history)

----------------------------------------------------------------------------
\* reset_transient, of every gesture.
Gesture ==
  /\ Spend("gestures")
  /\ history' = Sealed(history)
  /\ lately' = <<>>
  /\ UNCHANGED <<text, brackets, aware>>

Map == NewFoldMap(folds, brackets, text)

\* Document::add_caret, where text is drawn.
PlaceCaret(off) ==
  /\ Gesture /\ Visible(Map, text, off)
  /\ sels' = Added(sels, off, off)
  /\ UNCHANGED <<folds, cache>>

Closer(open) == CHOOSE off \in 0..Len(text) : <<open, off>> \in Bonds(brackets)

\* toggle_fold_opener: the carets that folding open hides.
Ejected(open, closed) ==
  LET close == Closer(open)
      map   == NewFoldMap(closed, brackets, text)
      Hidden(s) == IF SameRow(text, open, close) THEN GapHides(open, close, HeadOf(s))
                   ELSE open < HeadOf(s) /\ HeadOf(s) < close /\ ~Renders(map, text, HeadOf(s))
      entry == IF SameRow(text, open, close) THEN GapLeftEdge(open)
               ELSE LineStop(text, Row(text, open))
  IN MapEach(sels, LAMBDA s : IF Hidden(s) THEN Caret(s.id, entry) ELSE s)

\* Document::toggle_fold_opener, of any opener that can be folded: a chip or chevron, or fold_all.
ToggleFoldOpener(open) ==
  /\ Gesture
  /\ open \in folds \cup Foldable(brackets)
  /\ folds' = IF open \in folds THEN folds \ {open} ELSE folds \cup {open}
  /\ sels' = IF open \in folds THEN sels
             ELSE Ejected(open, folds')
  /\ cache' = Stale(cache)

\* fold_opener_at: the innermost pair at or around the caret that is folded, or is not.
OpenersAt(caret, folded) ==
  LET bonds == Bonds(brackets)
      Target(p) == HasInterior(p[1], p[2]) /\ (p[1] \in folds <=> folded)
      Innermost(ps) == {p[1] : p \in {q \in ps : \A r \in ps : q[2] - q[1] <= r[2] - r[1]}}
      near == {p \in AroundOrAt(bonds, caret) \ Around(bonds, caret) : Target(p)}
  IN IF near # {} THEN Innermost(near)
     ELSE Innermost({p \in Around(bonds, caret) : Target(p)})

\* Document::fold_at_carets, with eject_hidden_carets.
FoldAtCarets(unfold) ==
  LET openers == UNION {OpenersAt(HeadOf(s), unfold) : s \in ToSet(sels)}
  IN /\ Gesture
     /\ openers # {}
     /\ folds' = IF unfold THEN folds \ openers ELSE folds \cup openers
     /\ sels' = LET map == NewFoldMap(folds', brackets, text)
                    Edge(s) == EntryEdge(map, text, HeadOf(s))
                IN IF folds' = {} THEN sels
                   ELSE MapEach(sels, LAMBDA s : IF Edge(s) = HeadOf(s) THEN s ELSE Caret(s.id, Edge(s)))
     /\ cache' = Stale(cache)

\* Document::jump_to, of a range whose folds open first.
JumpTo(start, stop) ==
  /\ Gesture
  /\ sels' = <<Spanning(0, start, stop)>>
  /\ folds' = Revealed(Revealed(folds, brackets, text, start), brackets, text, stop)
  /\ cache' = IF folds' = folds THEN cache ELSE Stale(cache)

\* Whether a folded block starts on the row where another one ends.
Meeting ==
  \E p \in PairsOf(folds, brackets), q \in PairsOf(folds, brackets) :
    p[2] < q[1] /\ SameRow(text, p[2], q[1]) /\ ~SameRow(text, p[1], p[2])

\* Document::fold_map, of every frame and caret move.
EnsureFoldMap ==
  /\ ~cache.fresh
  /\ cache' = [fresh |-> TRUE, plain |-> ~Meeting, map |-> Map]
  /\ UNCHANGED <<text, brackets, aware, folds, sels, history, lately, budget>>

\* Carets are placed before the first edit.
Placing ==
  /\ budget.edits = MaxEdits /\ budget.gestures > 0
  /\ \/ \E off \in 0..Len(text) : PlaceCaret(off)
     \/ \E start \in 0..Len(text), stop \in 0..Len(text) :
          folds # {} /\ start <= stop /\ JumpTo(start, stop)

Next ==
  \/ budget.edits > 0 /\ \E norm \in Batches : Edit(norm)
  \/ Undo
  \/ Redo
  \/ Placing
  \/ budget.gestures > 0 /\ \E open \in Offsets : ToggleFoldOpener(open)
  \/ budget.gestures > 0 /\ \E unfold \in BOOLEAN : FoldAtCarets(unfold)
  \/ EnsureFoldMap

Spec == Init /\ [][Next]_vars
----------------------------------------------------------------------------
\* "Always internally consistent": the spliced brackets are those of the text, an opener and a closer
\* find each other by descents as one sweep over the whole text pairs them, and so do the pairs
\* around a caret.
BracketsAreScanned ==
  LET bonds == Bonds(brackets)
      cut   == IF brackets = <<>> THEN 0 ELSE brackets[Len(brackets) \div 2 + 1].at
      Bond(b, partner) == IF IsOpener(b.ch) THEN <<b.at, partner>> ELSE <<partner, b.at>>
  IN /\ brackets = Scan(text, aware)
     /\ bonds = UNION {{Bond(b, PartnerIn(brackets, b, cut)), Bond(b, None)} : b \in ToSet(brackets)}
                  \ {Bond(b, None) : b \in ToSet(brackets)}
     /\ \A s \in ToSet(sels) : EnclosingPairs(brackets, HeadOf(s)) = Around(bonds, HeadOf(s))

\* "A fold survives iff its opener is still a live, foldable open bracket": the window that an edit
\* checks has every fold the edit broke. Where strings are told apart, a quote may break others.
FoldsAreLive == ~aware => folds \subseteq Foldable(brackets)

\* What is derived from the text alone follows it through every edit.
ViewsFollowTheText == BracketsAreScanned /\ FoldsAreLive

\* The cached fold map, shifted through edits, is the one that the folds, the brackets and the text
\* make now, as long as the edits are of plain text, lines included, and no blocks meet on a row.
PlainEditsKeepTheMap == ~aware /\ cache.fresh /\ cache.plain /\ ~Meeting => cache.map = Map

\* "Must DEEP-EQUAL a from-scratch build after EVERY edit": so does every other edit.
CachedMapIsFresh == cache.fresh => cache.map = Map

\* "An edit must never change text the user cannot see": after an edit, an undo or a redo, its ends
\* render, and no pair on one line is closed over the start of one.
EditsAreSeen ==
  \A n \in DOMAIN lately :
    /\ Renders(Map, text, lately[n].newStart) /\ Renders(Map, text, lately[n].newStop)
    /\ \A f \in ToSet(Map.inline) : lately[n].newStart \notin (f.open + 1)..f.close

\* "It never sits on collapsed text": a fold ejects every caret it hides, and a jump puts it where
\* it can be seen.
CaretsAreSeen == lately = <<>> => \A s \in ToSet(sels) : Visible(Map, text, HeadOf(s))

\* Nothing is changed, and no caret left, where the user cannot see it.
ChangesAreSeen == EditsAreSeen /\ CaretsAreSeen
=============================================================================
