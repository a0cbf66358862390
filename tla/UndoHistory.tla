---------------------------- MODULE UndoHistory ----------------------------
(***************************************************************************)
(* The undo tree of matcha-core (history.rs), as functions of a history.   *)
(*                                                                         *)
(* nodes maps the id of a node to the undo unit that leads to it from its  *)
(* parent: its steps, each in both directions, oldest first.  Ids grow and *)
(* are never used again, so a node's children are told by their parent and *)
(* ordered by their ids, and dropping nodes renumbers none of the others   *)
(* (the code rebuilds a dense arena; the order of the children is the      *)
(* same).  The root is the state no undo goes behind.                      *)
(***************************************************************************)
EXTENDS Transaction

NoNode  == -1
NoLimit == -1

\* OpClass, and the class of a root, which nothing merges into.
Classes == {"Type", "Delete", "Other"}
Hints == [op : Classes, sealBefore : BOOLEAN, sealAfter : BOOLEAN]

\* GroupingHint::mergeable and GroupingHint::discrete
Mergeable(class) == [op |-> class, sealBefore |-> FALSE, sealAfter |-> FALSE]
Discrete == [op |-> "Other", sealBefore |-> TRUE, sealAfter |-> TRUE]

Node(parent, steps, op, before, after) ==
  [parent |-> parent, preferred |-> NoNode, steps |-> steps, op |-> op,
   altBefore |-> before, altAfter |-> after]

\* A root has no unit: History::new, and what rebuild_from leaves of the new base.
RootOf(node) == [Node(NoNode, <<>>, "Root", 0, 0) EXCEPT !.preferred = node.preferred]

NewHistory ==
  [nodes |-> [n \in {0} |-> RootOf([preferred |-> NoNode])], root |-> 0, current |-> 0,
   open |-> FALSE, alt |-> 0, altSeq |-> 0, savedAlt |-> 0, maxUndo |-> NoLimit]

\* The nodes from the root to n.
LineTo(h, n) ==
  LET line[m \in DOMAIN h.nodes] ==
        IF m = h.root THEN <<m>> ELSE Append(line[h.nodes[m].parent], m)
  IN line[n]

ToCurrent(h) == LineTo(h, h.current)

Children(h, n) == {m \in DOMAIN h.nodes : h.nodes[m].parent = n}

\* undo_depth, can_undo, can_redo
UndoDepth(h) == Len(ToCurrent(h)) - 1
CanUndo(h) == h.current # h.root
CanRedo(h) == h.nodes[h.current].preferred # NoNode

\* is_dirty, mark_saved, seal
IsDirty(h) == h.alt # h.savedAlt
MarkedSaved(h) == [h EXCEPT !.savedAlt = h.alt]
Sealed(h) == [h EXCEPT !.open = FALSE]

KeptUnder(h, base) == {n \in DOMAIN h.nodes : Contains(LineTo(h, n), base)}

\* rebuild_from: what hangs off base stays, and base is the root.
RebuiltFrom(h, base) ==
  [h EXCEPT !.root = base,
            !.nodes = [n \in KeptUnder(h, base) |->
                         IF n = base THEN RootOf(h.nodes[n]) ELSE h.nodes[n]]]

\* A defect: one unit too many stays.
PrunedLate(h) ==
  IF h.maxUndo = NoLimit \/ UndoDepth(h) <= h.maxUndo + 1 THEN h
  ELSE RebuiltFrom(h, ToCurrent(h)[UndoDepth(h) - h.maxUndo + 1])

\* prune_if_needed: exactly the limit's units stay on the line to the current node.
Pruned(h) ==
  IF h.maxUndo = NoLimit \/ UndoDepth(h) <= h.maxUndo THEN h
  ELSE RebuiltFrom(h, ToCurrent(h)[UndoDepth(h) - h.maxUndo + 1])

\* set_max_undo
Limited(h, limit) == Pruned([h EXCEPT !.maxUndo = limit])

Step(forward, inverse) == [forward |-> forward, inverse |-> inverse]

Merges(h, hint) ==
  /\ h.open /\ ~hint.sealBefore
  /\ hint.op # "Other" /\ h.nodes[h.current].op = hint.op

\* The tree once step is part of the current unit, which leads to version alt now.
Merged(h, step, alt) ==
  [h.nodes EXCEPT ![h.current].steps = Append(@, step), ![h.current].altAfter = alt]

\* The tree with step as a unit of its own under the current node, which prefers it from now on.
Grown(h, step, op, alt) ==
  [n \in DOMAIN h.nodes \cup {alt} |->
     IF n = alt THEN Node(h.current, <<step>>, op, h.alt, alt)
     ELSE IF n = h.current THEN [h.nodes[n] EXCEPT !.preferred = alt]
     ELSE h.nodes[n]]

\* record
Recorded(h, step, hint) ==
  LET alt    == h.altSeq + 1
      placed == IF Merges(h, hint) THEN [h EXCEPT !.nodes = Merged(h, step, alt)]
                ELSE [h EXCEPT !.nodes = Grown(h, step, hint.op, alt), !.current = alt]
  IN Pruned([placed EXCEPT !.open = ~hint.sealAfter, !.alt = alt, !.altSeq = alt])

\* A defect: a merged unit is undone oldest step first.
UndoBatchesInOrder(h) ==
  [n \in DOMAIN h.nodes[h.current].steps |-> h.nodes[h.current].steps[n].inverse]

\* undo and redo, with the batches they replay. Both close the open unit.
UndoBatches(h) == [n \in DOMAIN h.nodes[h.current].steps |->
                     Reverse(h.nodes[h.current].steps)[n].inverse]

\* A defect: the version is the one the parent led to, which a new base no longer has.
UndoneToParent(h) ==
  [h EXCEPT !.current = h.nodes[h.current].parent,
            !.alt = h.nodes[h.nodes[h.current].parent].altAfter, !.open = FALSE]

Undone(h) ==
  [h EXCEPT !.current = h.nodes[h.current].parent, !.alt = h.nodes[h.current].altBefore,
            !.open = FALSE]

Redoing(h) == h.nodes[h.nodes[h.current].preferred]
RedoBatches(h) == [n \in DOMAIN Redoing(h).steps |-> Redoing(h).steps[n].forward]
Redone(h) ==
  [h EXCEPT !.current = h.nodes[h.current].preferred, !.alt = Redoing(h).altAfter, !.open = FALSE]

\* select_redo_branch
Steered(h, child) == [h EXCEPT !.nodes[h.current].preferred = child]
=============================================================================
