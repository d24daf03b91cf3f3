------------------------------ MODULE Programs ------------------------------
(***************************************************************************)
(* The statements the five transactions execute, in order, as read from     *)
(* src/src/transaction/*.rs: what control flow and answers depend on, and   *)
(* not the SQL.  A program is a function from 1..n to statements.           *)
(***************************************************************************)
EXTENDS Naturals, Sequences

CONSTANTS
  OlCnt,       \* order lines of a NewOrder
  Districts    \* districts a Delivery goes through

ASSUME OlCntAssumption == OlCnt \in Nat \ {0}
ASSUME DistrictsAssumption == Districts \in Nat \ {0}

\* `op` says how the transaction treats the outcome:
\*   "begin"   an error is returned to the executor
\*   "select"  an error, or no row, leads to ROLLBACK and Ok(false)
\*   "min"     an error, no row or NULL skips the district (Delivery)
\*   "report"  an error, or no row, is Ok(false) without ROLLBACK
\*   "write"   an error leads to ROLLBACK; a query answer is tolerated
\*   "commit"  as "write", and otherwise Ok(true)
Ops == {"begin", "select", "min", "report", "write", "commit"}

\* `cols` is the number of columns selected and `reads` the highest column
\* of its row the code indexes, counted from 1: rows[0][reads - 1].
Statement == [op : Ops, cols : Nat, reads : Nat]

Plain(op)           == [op |-> op, cols |-> 0, reads |-> 0]
Query(op, cols, n)  == [op |-> op, cols |-> cols, reads |-> n]

Begin  == Plain("begin")
Write  == Plain("write")
Commit == Plain("commit")

\* district; UPDATE district; customer, warehouse; INSERT orders, new_orders
OrderEntry == <<Begin, Query("select", 2, 2), Write, Query("select", 4, 4),
                Write, Write>>

\* item; stock; UPDATE stock; INSERT order_line
OrderLine == <<Query("select", 3, 3), Query("select", 6, 6), Write, Write>>

NewOrder ==
  [i \in 1..(7 + 4 * OlCnt) |->
     IF i <= 6 THEN OrderEntry[i]
     ELSE IF i = 7 + 4 * OlCnt THEN Commit
     ELSE OrderLine[((i - 7) % 4) + 1]]

\* warehouse and district, each read and updated; customer; history
Payment ==
  <<Begin, Query("select", 7, 1), Write, Query("select", 7, 1), Write,
    Query("select", 18, 18), Write, Write, Commit>>

\* oldest new_order; DELETE it; UPDATE orders, order_line; o_c_id; SUM;
\* UPDATE customer
DeliveryRound ==
  <<Query("min", 1, 0), Write, Write, Write, Query("select", 1, 1),
    Query("select", 1, 1), Write>>

Delivery ==
  [i \in 1..(2 + 7 * Districts) |->
     IF i = 1 THEN Begin
     ELSE IF i = 2 + 7 * Districts THEN Commit
     ELSE DeliveryRound[((i - 2) % 7) + 1]]

\* mutant: the MIN query of the next district is skipped too
NextRoundBehindMin(i) == i + 8

\* `continue` in Delivery: from the MIN query to that of the next district.
NextRound(i) == i + 7

\* SELECT * FROM orders has the 8 columns of the table.
OrderStatus == <<Query("report", 8, 0)>>
StockLevel  == <<Query("report", 1, 0)>>

Types == {"NewOrder", "Payment", "Delivery", "OrderStatus", "StockLevel"}
ReadOnly == {"OrderStatus", "StockLevel"}

Program(type) ==
  CASE type = "NewOrder"    -> NewOrder
    [] type = "Payment"     -> Payment
    [] type = "Delivery"    -> Delivery
    [] type = "OrderStatus" -> OrderStatus
    [] type = "StockLevel"  -> StockLevel

Last(type) ==
  CASE type = "NewOrder" -> 7 + 4 * OlCnt
    [] type = "Payment"  -> 9
    [] type = "Delivery" -> 2 + 7 * Districts
    [] OTHER             -> 1

Writes(type) == {i \in 1..Last(type) : Program(type)[i].op = "write"}

\* What must be durable together or not at all: the whole transaction, or in
\* Delivery the round of one district.
Units(type) ==
  IF type = "Delivery"
  THEN {{i \in Writes(type) : (i - 2) \div 7 = d} : d \in 0..(Districts - 1)}
  ELSE {Writes(type)}
=============================================================================
