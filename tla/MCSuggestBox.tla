---------------------------- MODULE MCSuggestBox ----------------------------
(***************************************************************************)
(* A small instance of SuggestBox: two terms, a short text, and answers    *)
(* with no, one or two titles.                                             *)
(***************************************************************************)
EXTENDS SuggestBox

CONSTANTS water, climate

MCAnswerLists == {<<>>, <<water>>, <<climate, water>>}
=============================================================================
