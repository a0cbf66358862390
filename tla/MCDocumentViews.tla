-------------------------- MODULE MCDocumentViews --------------------------
(***************************************************************************)
(* Texts for model checking DocumentViews.                                 *)
(***************************************************************************)
EXTENDS DocumentViews

\* A block with a row to hide, two blocks that meet on a line, and nested inline pairs.
RowFile    == <<"(", "\n", "a", "\n", ")">>
ChainFile  == <<"(", "\n", ")", "{", "\n", "}">>
NestedFile == <<"(", "{", "a", "}", ")">>
SomeFiles == {RowFile, ChainFile, NestedFile}

\* Nothing, a line, a bracket and a quote, which is plain text where strings are not told apart.
SomeInserts == {<<>>, <<"\n">>, <<"(">>, <<"'">>}
=============================================================================
