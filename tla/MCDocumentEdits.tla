-------------------------- MODULE MCDocumentEdits --------------------------
(***************************************************************************)
(* Grouping hints and undo limits for model checking DocumentEdits.        *)
(***************************************************************************)
EXTENDS DocumentEdits

\* What the verbs hand over: typing, backspacing, typing over an auto-closed pair, and the rest.
VerbHints ==
  {Mergeable("Type"), Mergeable("Delete"), Discrete,
   [op |-> "Type", sealBefore |-> TRUE, sealAfter |-> FALSE]}

SomeLimits == {NoLimit, 0, 1}
=============================================================================
