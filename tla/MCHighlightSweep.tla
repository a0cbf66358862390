-------------------------- MODULE MCHighlightSweep --------------------------
(***************************************************************************)
(* Texts for model checking HighlightSweep: one below and one at the size  *)
(* from which the pool is used.                                            *)
(***************************************************************************)
EXTENDS HighlightSweep

SomeTexts == {<<"text", "close", "open", "text">>, <<"long", "text", "text", "text">>}
LongAndShort == {<<"text">>, <<"text", "text", "text", "text">>}

\* Opening a comment, and a line more than there was.
SomePuts == {<<"open">>, <<"text", "text">>}
=============================================================================
