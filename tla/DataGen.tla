------------------------------ MODULE DataGen ------------------------------
(***************************************************************************)
(* The rows that src/src/data_gen.rs generates for the files of --init, one *)
(* warehouse being like another, and what it draws for a Payment.  Columns  *)
(* that nothing refers to (names, addresses, taxes, texts) are left out.    *)
(* A random column is `draw`, the same in all of its rows.                  *)
(***************************************************************************)
EXTENDS Integers, FiniteSets

DISTRICTS_PER_WAREHOUSE == 10
CUSTOMERS_PER_DISTRICT  == 3000
ORDERS_PER_DISTRICT     == 3000
NEW_ORDERS_PER_DISTRICT == 900

Warehouse == [w_ytd |-> 300000]

District == [d_ytd |-> 30000, d_next_o_id |-> 3001]

\* draw \in 1..10
Order(o_id, draw) ==
  [o_id |-> o_id, o_carrier_id |-> IF o_id > 2100 THEN 0 ELSE draw, o_ol_cnt |-> 10]

Orders(draw) == {Order(o_id, draw) : o_id \in 1..ORDERS_PER_DISTRICT}

\* mutant: the last 900 ids counted from 2100.
NewOrdersFrom2100 == 2100..(2100 + NEW_ORDERS_PER_DISTRICT - 1)

NewOrders == 2101..(2101 + NEW_ORDERS_PER_DISTRICT - 1)

\* Lines that are not delivered are dated 1970.
OrderLine(o_id, ol_number) ==
  [ol_o_id |-> o_id, ol_number |-> ol_number, dated |-> o_id <= 2100]

OrderLines(o_id) == {OrderLine(o_id, n) : n \in 1..10}

\* Of the one row that every customer has.
History == [h_amount |-> 10]

\* mutant: the own warehouse is not left out of the list.
PaymentCustomerAnywhere(scale, w, d, dice, position, district) ==
  IF scale = 1 \/ dice[1] <= 85
  THEN <<w, IF dice[2] <= 15 THEN district ELSE d>>
  ELSE <<position, district>>

\* Whose customer pays in warehouse w and district d, from two dice of 1..100,
\* a position in the list of the other warehouses and a random district.
PaymentCustomer(scale, w, d, dice, position, district) ==
  IF scale = 1 \/ dice[1] <= 85
  THEN <<w, IF dice[2] <= 15 THEN district ELSE d>>
  ELSE <<IF position < w THEN position ELSE position + 1, district>>

\* Rows of a table: what check_table_counts and verify_counts expect; items and
\* stock are left out.
Expected(t, sf) ==
  CASE t = "warehouse"  -> sf
    [] t = "district"   -> sf * 10
    [] t = "customer"   -> sf * 10 * 3000
    [] t = "orders"     -> sf * 10 * 3000
    [] t = "order_line" -> sf * 10 * 3000 * 10
    [] t = "new_orders" -> sf * 10 * 900
    [] t = "history"    -> sf * 10 * 3000
=============================================================================
