------------------------------- MODULE MCMain -------------------------------
(* Two districts of one order each, of which one waits for its Delivery in   *)
(* the second: one Delivery empties it.                                      *)
EXTENDS Main

MCDistricts == 1..2
MCLoaded == <<[c |-> 1, lines |-> <<<<1, 1>>, <<1, 1>>>>], [c |-> 1, lines |-> <<<<1, 1>>>>]>>
MCUndelivered == <<2, 1>>
MCBaskets == {<<<<1, 1>>>>}
MCRequests == {{"init"}, {"init", "check", "benchmark"}, {"check", "stats"}, {"benchmark"}}
=============================================================================
