----------------------------- MODULE MCRoutines -----------------------------
(* Statements with none to two placeholders, parameters with and without     *)
(* quotes and a "?"; more samples than it takes for P99 not to be the last.  *)
EXTENDS Routines

MCChars == {"?", "'", ";", "x", "y", "z", "7"}
MCSqls == {<<"x">>, <<"?">>, <<"x", "?", "y", "?">>, <<"?", "x", "?">>}
MCParams == {[str |-> FALSE, text |-> <<"7">>]}
            \cup [str : {TRUE}, text : {<<>>, <<"z">>, <<"'">>, <<"z", "'">>, <<"'", "'">>, <<"?">>}]
=============================================================================
