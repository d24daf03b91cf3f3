----------------------------- MODULE OrderBook -----------------------------
(***************************************************************************)
(* The database as the transactions of src/src/transaction are meant to     *)
(* change it, each in one step: a district is the sequence of its orders    *)
(* and how many of them are delivered, oldest first; a customer is what he  *)
(* paid.  Everything else in the tables follows from these.                 *)
(*                                                                          *)
(* Once a Delivery went on outside of its transaction (`torn`) the order of *)
(* deliveries is void, that of the orders is not.                           *)
(***************************************************************************)
EXTENDS Naturals, Sequences

CONSTANTS
  Districts,   \* districts of the warehouse
  Customers,   \* customers of a district
  Baskets,     \* order lines an order may have: a sequence of <<item, quantity>>
  Amounts,     \* amounts of a Payment
  Loaded,      \* the orders of a district when the benchmark starts
  Undelivered  \* per district: how many of them wait for a Delivery

VARIABLES
  book,        \* per district: its orders; d_next_o_id is Len(book[d]) + 1
  delivered,   \* per district: orders delivered; new_orders is the rest
  paid,        \* per customer: the sum and the number of his payments
  torn         \* a Delivery went on after its transaction was gone

vars == <<book, delivered, paid, torn>>

Orders == [c : Customers, lines : Baskets]

Init ==
  /\ book = [d \in Districts |-> Loaded]
  /\ delivered = [d \in Districts |-> Len(Loaded) - Undelivered[d]]
  /\ paid = [k \in Districts \X Customers |-> [sum |-> 0, number |-> 0]]
  /\ torn = FALSE

NewOrder(d, order) ==
  /\ book' = [book EXCEPT ![d] = Append(@, order)]
  /\ UNCHANGED <<delivered, paid, torn>>

Payment(k, amount) ==
  /\ paid' = [paid EXCEPT ![k] = [sum |-> @.sum + amount, number |-> @.number + 1]]
  /\ UNCHANGED <<book, delivered, torn>>

\* The oldest order of each district in S; one that has none is left out,
\* and so is one whose MIN query failed.
Delivery(S) ==
  /\ \A d \in S : delivered[d] < Len(book[d])
  /\ delivered' = [d \in Districts |->
                     IF d \in S THEN delivered[d] + 1 ELSE delivered[d]]
  /\ UNCHANGED <<book, paid, torn>>

Tear ==
  /\ torn' = TRUE
  /\ UNCHANGED <<book, delivered, paid>>

TornDelivery ==
  /\ torn
  /\ delivered' \in [Districts -> Nat]
  /\ UNCHANGED <<book, paid, torn>>

Next ==
  \/ \E d \in Districts, order \in Orders : NewOrder(d, order)
  \/ \E k \in Districts \X Customers, amount \in Amounts : Payment(k, amount)
  \/ \E S \in SUBSET Districts : Delivery(S)
  \/ Tear
  \/ TornDelivery

Spec == Init /\ [][Next]_vars
=============================================================================
