---------------------------- MODULE MCHidExecutor ----------------------------
(* Texts: a letter twice, a digit, and a character without a key.             *)
EXTENDS HidExecutor

MCTexts == {<<"a", "a">>, <<"1">>, <<"none">>}
=============================================================================
