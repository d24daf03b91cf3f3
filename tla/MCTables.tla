------------------------------ MODULE MCTables ------------------------------
(* Two workers, two districts, of which the second has an undelivered order:  *)
(* Deliveries meet in it, find the first one empty, or find what a NewOrder   *)
(* has just put there.  Stock is so low that the first order refills it, and  *)
(* an order may have the same item twice.                                     *)
EXTENDS Tables, TLC

MCBaskets == {<<<<1, 6>>>>, <<<<1, 2>>, <<1, 9>>>>}
MCLoaded == <<[c |-> 1, lines |-> <<<<1, 3>>>>], [c |-> 1, lines |-> <<<<1, 4>>>>]>>
MCUndelivered == <<0, 1>>

Symmetry == Permutations(Workers)
=============================================================================
