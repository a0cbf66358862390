--------------------------- MODULE MCFindMatches ---------------------------
(* A small find: a cap of two, windows of twice the needle, and a query of  *)
(* each kind, one of which overlaps itself.                                 *)
EXTENDS FindMatches

\* Every short text, and two that take more than one window.
SmallTexts ==
  UNION {[1..n -> {"a", ".", "nl"}] : n \in 0..MaxLen}
    \cup {<<".", ".", ".", "a", "a">>, <<"a", ".", "a", "a", "a", "nl">>}
SmallQueries ==
  {NoQuery, Literal(<<"a">>), Literal(<<"a", "a">>), Literal(<<"a", ".">>),
   WholeWord, Pattern, Unfinished}
SmallInserts == {<<>>, <<"a">>}
=============================================================================
