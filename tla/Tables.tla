------------------------------- MODULE Tables -------------------------------
(***************************************************************************)
(* The three writing transactions of src/src/transaction with the values    *)
(* they read and write, on tables they share: one statement is one step,    *)
(* the workers interleave.  A SELECT of columns that no statement uses      *)
(* (names, taxes, prices) is left out; module Transactions has it.          *)
(*                                                                          *)
(* The server is external: a transaction works on the snapshot of its BEGIN *)
(* and must be the only one to write a row, among those that run and those  *)
(* that have committed since; otherwise, or whenever it likes, the server   *)
(* refuses the statement.  Outside of a transaction a statement commits by  *)
(* itself.  There is one warehouse: remote stock and remote customers of    *)
(* another warehouse are rows of these tables like any other.               *)
(***************************************************************************)
EXTENDS Integers, Sequences, FiniteSetsExt, Functions

CONSTANTS
  Workers,      \* connections
  NumDistricts, \* Delivery goes through all of them
  Customers,    \* customers of a district
  Items,        \* items in stock
  Baskets,      \* order lines a NewOrder may draw: sequences of <<item, quantity>>
  Amounts,      \* amounts a Payment may draw
  Loaded,       \* the orders of a district in the loaded database
  Undelivered,  \* per district: how many of them are in new_orders
  InitStock,    \* s_quantity of every item
  MaxAttempts   \* bound on the attempts of all workers

Districts == 1..NumDistricts
Orders    == [c : Customers, lines : Baskets]

ASSUME NumDistrictsAssumption == NumDistricts \in Nat \ {0}
ASSUME CustomersAssumption == Customers \subseteq Nat /\ IsFiniteSet(Customers)
ASSUME ItemsAssumption == Items \subseteq Nat /\ IsFiniteSet(Items)

\* No order is without lines.
Lines == Seq(Items \X (1..10)) \ {<<>>}

ASSUME BasketsAssumption == Baskets \subseteq Lines
ASSUME LoadedAssumption == Loaded \in Seq([c : Customers, lines : Lines])
ASSUME UndeliveredAssumption == Undelivered \in [Districts -> 0..Len(Loaded)]
ASSUME AmountsAssumption == Amounts \subseteq Nat
ASSUME InitStockAssumption == InitStock \in 10..100
ASSUME MaxAttemptsAssumption == MaxAttempts \in Nat

VARIABLES
  db,        \* the committed rows: a function from keys to rows
  open,      \* per worker: its session is in a transaction
  view,      \* per worker: the rows its transaction sees
  wrote,     \* per worker: the keys its transaction has written
  stale,     \* per worker: the keys others have committed since its BEGIN
  at,        \* per worker: the statement that comes next
  my,        \* per worker: what the attempt drew, and read so far
  attempts,  \* attempts begun
  torn       \* (history) a Delivery went on after its transaction was gone

serverVars == <<db, open, view, wrote, stale>>
vars == <<serverVars, at, my, attempts, torn>>

---------------------------------------------------------------------------
(* Rows.  Indexes are not unique, so the key of an inserted row carries     *)
(* the attempt that inserted it, 0 for the loaded ones; the columns of the  *)
(* key that a table does not have are 0.                                    *)

Key(table, d, id, n, by) == <<table, d, id, n, by>>

WarehouseKey      == Key("warehouse", 0, 0, 0, 0)
DistrictKey(d)    == Key("district", d, 0, 0, 0)
CustomerKey(d, c) == Key("customer", d, c, 0, 0)
StockKey(i)       == Key("stock", 0, i, 0, 0)

OrderKey(d, o, by)     == Key("orders", d, o, 0, by)
NewOrderKey(d, o, by)  == Key("new_orders", d, o, 0, by)
LineKey(d, o, n, by)   == Key("order_line", d, o, n, by)
HistoryKey(d, c, by)   == Key("history", d, c, 0, by)

\* The keys of the rows of a table that belong to order o of district d.
OfOrder(rows, table, d, o) ==
  {k \in DOMAIN rows : k[1] = table /\ k[2] = d /\ k[3] = o}

OfDistrict(rows, table, d) == {k \in DOMAIN rows : k[1] = table /\ k[2] = d}

\* Money and counts are those since the load.
NewCustomer == [balance |-> 0, ytd |-> 0, payments |-> 0, deliveries |-> 0]

Order(c, cnt, carrier) == [c |-> c, cnt |-> cnt, carrier |-> carrier]
Line(item, quantity, dated) == [item |-> item, amount |-> quantity, dated |-> dated]

Oldest(d) == Len(Loaded) - Undelivered[d] + 1

InitKeys ==
  {WarehouseKey}
  \cup {DistrictKey(d) : d \in Districts}
  \cup {CustomerKey(d, c) : d \in Districts, c \in Customers}
  \cup {StockKey(i) : i \in Items}
  \cup {OrderKey(d, o, 0) : d \in Districts, o \in 1..Len(Loaded)}
  \cup (UNION {{NewOrderKey(d, o, 0) : o \in Oldest(d)..Len(Loaded)} : d \in Districts})
  \cup (UNION {{LineKey(d, o, n, 0) : d \in Districts, n \in DOMAIN Loaded[o].lines} :
                 o \in 1..Len(Loaded)})

InitRow(k) ==
  CASE k[1] = "warehouse"  -> [ytd |-> 0]
    [] k[1] = "district"   -> [next |-> Len(Loaded) + 1, ytd |-> 0]
    [] k[1] = "customer"   -> NewCustomer
    [] k[1] = "stock"      -> [quantity |-> InitStock, ytd |-> 0, orders |-> 0]
    [] k[1] = "orders"     -> Order(Loaded[k[3]].c, Len(Loaded[k[3]].lines),
                                    IF k[3] < Oldest(k[2]) THEN 1 ELSE 0)
    [] k[1] = "new_orders" -> [o_id |-> k[3]]
    [] k[1] = "order_line" ->
         LET line == Loaded[k[3]].lines[k[4]]
         IN  Line(line[1], line[2], k[3] < Oldest(k[2]))

InitRows == [k \in InitKeys |-> InitRow(k)]

---------------------------------------------------------------------------
(* The server. *)

Sees(w) == IF open[w] THEN view[w] ELSE db

\* Rows that another running transaction has written.
Claimed(w) == UNION {wrote[v] : v \in {v \in Workers \ {w} : open[v]}}

\* The other transactions that run must not write what w commits.
MakesStale(w, K) ==
  stale' = [v \in Workers |-> IF v # w /\ open[v] THEN stale[v] \cup K ELSE stale[v]]

\* Worker w writes the keys in K and then sees `rows`.
Writes(w, K, rows) ==
  /\ K \cap (Claimed(w) \cup stale[w]) = {}
  /\ IF open[w]
     THEN /\ view' = [view EXCEPT ![w] = rows]
          /\ wrote' = [wrote EXCEPT ![w] = @ \cup K]
          /\ UNCHANGED <<db, stale>>
     ELSE /\ db' = rows
          /\ MakesStale(w, K)
          /\ UNCHANGED <<view, wrote>>
  /\ UNCHANGED open

\* `rows` with those of `new` inserted or updated.
With(rows, new) ==
  [k \in DOMAIN rows \cup DOMAIN new |-> IF k \in DOMAIN new THEN new[k] ELSE rows[k]]

PutsAll(w, new)   == Writes(w, DOMAIN new, With(Sees(w), new))
Puts(w, k, row)   == PutsAll(w, [x \in {k} |-> row])
Deletes(w, K)     == Writes(w, K, Restrict(Sees(w), DOMAIN Sees(w) \ K))
Reads             == UNCHANGED serverVars

\* The state of a session that is in no transaction.
Forgets(w) ==
  /\ open' = [open EXCEPT ![w] = FALSE]
  /\ view' = [view EXCEPT ![w] = <<>>]
  /\ wrote' = [wrote EXCEPT ![w] = {}]

Ends(w) ==
  /\ Forgets(w)
  /\ stale' = [stale EXCEPT ![w] = {}]
  /\ UNCHANGED db

Opens(w) ==
  /\ open' = [open EXCEPT ![w] = TRUE]
  /\ view' = [view EXCEPT ![w] = db]
  /\ UNCHANGED <<db, wrote, stale>>

\* What a transaction did not write is as others have left it.
Merged(w) ==
  [k \in (DOMAIN db \ wrote[w]) \cup (DOMAIN view[w] \cap wrote[w]) |->
     IF k \in wrote[w] THEN view[w][k] ELSE db[k]]

CommitsWork(w) ==
  /\ open[w]
  /\ db' = Merged(w)
  /\ stale' = [v \in Workers |->
                 IF v = w THEN {}
                 ELSE IF open[v] THEN stale[v] \cup wrote[w] ELSE stale[v]]
  /\ Forgets(w)

---------------------------------------------------------------------------
(* The transactions.  my[w] holds what the attempt drew: its number `id`,   *)
(* district `d`, customer `c` of district `cd`, order lines or amount; and  *)
(* what it read: the order id `o`, the line or district it is at, and the   *)
(* last row or sum.                                                         *)

Blank == [id |-> 0, d |-> 0, cd |-> 0, c |-> 0, lines |-> <<>>, amount |-> 0,
          o |-> 0, n |-> 0, seen |-> 0]

Draw(d, cd, c, lines, amount) ==
  [Blank EXCEPT !.d = d, !.cd = cd, !.c = c, !.lines = lines, !.amount = amount,
                !.n = 1, !.id = attempts + 1]

Item(w)     == my[w].lines[my[w].n][1]
Quantity(w) == my[w].lines[my[w].n][2]

GoesTo(w, place) == at' = [at EXCEPT ![w] = place]

\* The answer to a query goes to the field `o` or `seen` of my[w].
KeepsId(w, o)    == my' = [my EXCEPT ![w].o = o]
KeepsSeen(w, x)  == my' = [my EXCEPT ![w].seen = x]
KeepsAll         == UNCHANGED my

\* mutant: without BEGIN every statement commits by itself.
StartsWithoutBegin(w, draw, place) ==
  /\ at[w] = "idle"
  /\ attempts < MaxAttempts
  /\ attempts' = attempts + 1
  /\ my' = [my EXCEPT ![w] = draw]
  /\ GoesTo(w, place)
  /\ UNCHANGED <<serverVars, torn>>

Starts(w, draw, place) ==
  /\ at[w] = "idle"
  /\ attempts < MaxAttempts
  /\ attempts' = attempts + 1
  /\ Opens(w)
  /\ my' = [my EXCEPT ![w] = draw]
  /\ GoesTo(w, place)
  /\ UNCHANGED torn

At(w, place) == at[w] = place /\ UNCHANGED <<attempts, torn>>

Idles(w) ==
  /\ GoesTo(w, "idle")
  /\ my' = [my EXCEPT ![w] = Blank]

---------------------------------------------------------------------------
(* NewOrder. *)

BeginsNewOrder(w) ==
  \E d \in Districts, order \in Orders :
    Starts(w, Draw(d, d, order.c, order.lines, 0), "read_district")

ReadsDistrict(w) ==
  /\ At(w, "read_district")
  /\ Reads
  /\ KeepsId(w, Sees(w)[DistrictKey(my[w].d)].next)
  /\ GoesTo(w, "take_id")

TakesId(w) ==
  /\ At(w, "take_id")
  /\ LET k == DistrictKey(my[w].d)
     IN  Puts(w, k, [Sees(w)[k] EXCEPT !.next = @ + 1])
  /\ KeepsAll
  /\ GoesTo(w, "insert_order")

InsertsOrder(w) ==
  /\ At(w, "insert_order")
  /\ Puts(w, OrderKey(my[w].d, my[w].o, my[w].id),
               Order(my[w].c, Len(my[w].lines), -1))
  /\ KeepsAll
  /\ GoesTo(w, "insert_new_order")

InsertsNewOrder(w) ==
  /\ At(w, "insert_new_order")
  /\ Puts(w, NewOrderKey(my[w].d, my[w].o, my[w].id), [o_id |-> my[w].o])
  /\ KeepsAll
  /\ GoesTo(w, "read_stock")

ReadsStock(w) ==
  /\ At(w, "read_stock")
  /\ Reads
  /\ KeepsSeen(w, Sees(w)[StockKey(Item(w))])
  /\ GoesTo(w, "update_stock")

\* Refilled by 91 when fewer than 10 would be left.
Restocked(s, quantity) ==
  [s EXCEPT !.quantity = IF @ >= quantity + 10 THEN @ - quantity ELSE @ - quantity + 91,
            !.ytd = @ + quantity,
            !.orders = @ + 1]

\* The new values are those of the row read before.
UpdatesStock(w) ==
  /\ At(w, "update_stock")
  /\ Puts(w, StockKey(Item(w)), Restocked(my[w].seen, Quantity(w)))
  /\ KeepsAll
  /\ GoesTo(w, "insert_line")

\* mutant: the loop ends one line too early.
InsertsLineButLast(w) ==
  /\ At(w, "insert_line")
  /\ Puts(w, LineKey(my[w].d, my[w].o, my[w].n, my[w].id),
               Line(Item(w), Quantity(w), FALSE))
  /\ my' = [my EXCEPT ![w].n = @ + 1, ![w].seen = 0]
  /\ GoesTo(w, IF my[w].n + 1 < Len(my[w].lines) THEN "read_stock" ELSE "commit")

\* mutant: the stock rows of an order are read before the loop.
InsertsLineOfOldStock(w) ==
  /\ At(w, "insert_line")
  /\ Puts(w, LineKey(my[w].d, my[w].o, my[w].n, my[w].id),
               Line(Item(w), Quantity(w), FALSE))
  /\ my' = [my EXCEPT ![w].n = @ + 1]
  /\ GoesTo(w, IF my[w].n < Len(my[w].lines) THEN "update_stock" ELSE "commit")

InsertsLine(w) ==
  /\ At(w, "insert_line")
  /\ Puts(w, LineKey(my[w].d, my[w].o, my[w].n, my[w].id),
               Line(Item(w), Quantity(w), FALSE))
  /\ my' = [my EXCEPT ![w].n = @ + 1, ![w].seen = 0]
  /\ GoesTo(w, IF my[w].n < Len(my[w].lines) THEN "read_stock" ELSE "commit")

---------------------------------------------------------------------------
(* Payment. *)

BeginsPayment(w) ==
  \E d, cd \in Districts, c \in Customers, amount \in Amounts :
    Starts(w, Draw(d, cd, c, <<>>, amount), "update_warehouse")

UpdatesWarehouse(w) ==
  /\ At(w, "update_warehouse")
  /\ Puts(w, WarehouseKey, [Sees(w)[WarehouseKey] EXCEPT !.ytd = @ + my[w].amount])
  /\ KeepsAll
  /\ GoesTo(w, "update_district")

\* mutant: the customer's district takes the payment in.
UpdatesCustomersDistrict(w) ==
  /\ At(w, "update_district")
  /\ LET k == DistrictKey(my[w].cd)
     IN  Puts(w, k, [Sees(w)[k] EXCEPT !.ytd = @ + my[w].amount])
  /\ KeepsAll
  /\ GoesTo(w, "read_customer")

UpdatesDistrict(w) ==
  /\ At(w, "update_district")
  /\ LET k == DistrictKey(my[w].d)
     IN  Puts(w, k, [Sees(w)[k] EXCEPT !.ytd = @ + my[w].amount])
  /\ KeepsAll
  /\ GoesTo(w, "read_customer")

\* By number, or the middle one of those with a last name: some customer.
ReadsCustomer(w) ==
  /\ At(w, "read_customer")
  /\ Reads
  /\ KeepsSeen(w, Sees(w)[CustomerKey(my[w].cd, my[w].c)])
  /\ GoesTo(w, "update_customer")

\* Balance, sum and number of payments are absolute values computed from the
\* row read before; the number of deliveries is not written.
UpdatesCustomer(w) ==
  /\ At(w, "update_customer")
  /\ LET k    == CustomerKey(my[w].cd, my[w].c)
         seen == my[w].seen
     IN  Puts(w, k, [Sees(w)[k] EXCEPT !.balance = seen.balance - my[w].amount,
                                         !.ytd = seen.ytd + my[w].amount,
                                         !.payments = seen.payments + 1])
  /\ KeepsAll
  /\ GoesTo(w, "insert_history")

InsertsHistory(w) ==
  /\ At(w, "insert_history")
  /\ Puts(w, HistoryKey(my[w].cd, my[w].c, my[w].id), [d |-> my[w].d, amount |-> my[w].amount])
  /\ KeepsAll
  /\ GoesTo(w, "commit")

---------------------------------------------------------------------------
(* Delivery. *)

BeginsDelivery(w) == Starts(w, Draw(1, 0, 0, <<>>, 0), "find_oldest")

\* The next district, or COMMIT after the last.
NextDistrict(w) ==
  /\ my' = [my EXCEPT ![w].d = IF @ < NumDistricts THEN @ + 1 ELSE @,
                      ![w].o = 0, ![w].c = 0, ![w].seen = 0]
  /\ GoesTo(w, IF my[w].d < NumDistricts THEN "find_oldest" ELSE "commit")

\* mutant: the newest order instead of the oldest.
FindsNewest(w) ==
  /\ At(w, "find_oldest")
  /\ Reads
  /\ LET ids == {k[3] : k \in OfDistrict(Sees(w), "new_orders", my[w].d)}
     IN  \/ ids = {} /\ NextDistrict(w)
         \/ ids # {} /\ KeepsId(w, Max(ids)) /\ GoesTo(w, "delete_new_order")

\* MIN of an empty district is no integer.
FindsOldest(w) ==
  /\ At(w, "find_oldest")
  /\ Reads
  /\ LET ids == {k[3] : k \in OfDistrict(Sees(w), "new_orders", my[w].d)}
     IN  \/ ids = {} /\ NextDistrict(w)
         \/ ids # {} /\ KeepsId(w, Min(ids)) /\ GoesTo(w, "delete_new_order")

\* `continue` on an error of the MIN query, which may have been the abort of
\* the transaction.
SkipsDistrict(w) ==
  /\ at[w] = "find_oldest"
  /\ \/ Reads /\ UNCHANGED torn
     \/ open[w] /\ Ends(w) /\ torn' = TRUE
  /\ NextDistrict(w)
  /\ UNCHANGED attempts

DeletesNewOrder(w) ==
  /\ At(w, "delete_new_order")
  /\ Deletes(w, OfOrder(Sees(w), "new_orders", my[w].d, my[w].o))
  /\ KeepsAll
  /\ GoesTo(w, "update_order")

UpdatesOrder(w) ==
  /\ At(w, "update_order")
  /\ PutsAll(w, [k \in OfOrder(Sees(w), "orders", my[w].d, my[w].o) |->
                   [Sees(w)[k] EXCEPT !.carrier = 1]])
  /\ KeepsAll
  /\ GoesTo(w, "update_lines")

UpdatesLines(w) ==
  /\ At(w, "update_lines")
  /\ PutsAll(w, [k \in OfOrder(Sees(w), "order_line", my[w].d, my[w].o) |->
                   [Sees(w)[k] EXCEPT !.dated = TRUE]])
  /\ KeepsAll
  /\ GoesTo(w, "read_order")

ReadsOrder(w) ==
  /\ At(w, "read_order")
  /\ Reads
  /\ \E k \in OfOrder(Sees(w), "orders", my[w].d, my[w].o) :
       my' = [my EXCEPT ![w].c = Sees(w)[k].c]
  /\ GoesTo(w, "sum_amounts")

SumOfAmounts(rows, K) == MapThenSumSet(LAMBDA k : rows[k].amount, K)

SumsAmounts(w) ==
  /\ At(w, "sum_amounts")
  /\ Reads
  /\ KeepsSeen(w, SumOfAmounts(Sees(w), OfOrder(Sees(w), "order_line", my[w].d, my[w].o)))
  /\ GoesTo(w, "credit_customer")

CreditsCustomer(w) ==
  /\ At(w, "credit_customer")
  /\ LET k == CustomerKey(my[w].d, my[w].c)
     IN  Puts(w, k, [Sees(w)[k] EXCEPT !.balance = @ + my[w].seen,
                                         !.deliveries = @ + 1])
  /\ NextDistrict(w)

---------------------------------------------------------------------------
(* The end of an attempt. *)

\* Outside of a transaction COMMIT has nothing to commit.
Commits(w) ==
  /\ At(w, "commit")
  /\ \/ CommitsWork(w)
     \/ ~open[w] /\ Reads
  /\ Idles(w)

\* mutant: an early return without its ROLLBACK.
ReturnsAtOnce(w) ==
  /\ at[w] \notin {"idle", "find_oldest", "rollback"}
  /\ UNCHANGED <<attempts, torn>>
  /\ \/ Reads
     \/ open[w] /\ Ends(w)
  /\ Idles(w)

\* mutant: the error of a statement is ignored.
CommitsAnyway(w) ==
  /\ at[w] \notin {"idle", "find_oldest", "rollback", "commit"}
  /\ UNCHANGED <<attempts, torn>>
  /\ \/ Reads
     \/ open[w] /\ Ends(w)
  /\ KeepsAll
  /\ GoesTo(w, "commit")

\* Any other statement that comes back with an error, whether or not the
\* server has ended the transaction, is followed by ROLLBACK; so is a COMMIT
\* that was done and whose answer is lost.
Refused(w) ==
  /\ at[w] \notin {"idle", "find_oldest", "rollback"}
  /\ UNCHANGED <<attempts, torn>>
  /\ \/ Reads
     \/ open[w] /\ Ends(w)
     \/ at[w] = "commit" /\ CommitsWork(w)
  /\ KeepsAll
  /\ GoesTo(w, "rollback")

RollsBack(w) ==
  /\ At(w, "rollback")
  /\ Ends(w)
  /\ Idles(w)

---------------------------------------------------------------------------

Init ==
  /\ db = InitRows
  /\ open = [w \in Workers |-> FALSE]
  /\ view = [w \in Workers |-> <<>>]
  /\ wrote = [w \in Workers |-> {}]
  /\ stale = [w \in Workers |-> {}]
  /\ at = [w \in Workers |-> "idle"]
  /\ my = [w \in Workers |-> Blank]
  /\ attempts = 0
  /\ torn = FALSE

Step(w) ==
  \/ BeginsNewOrder(w) \/ ReadsDistrict(w) \/ TakesId(w) \/ InsertsOrder(w)
  \/ InsertsNewOrder(w) \/ ReadsStock(w) \/ UpdatesStock(w) \/ InsertsLine(w)
  \/ BeginsPayment(w) \/ UpdatesWarehouse(w) \/ UpdatesDistrict(w)
  \/ ReadsCustomer(w) \/ UpdatesCustomer(w) \/ InsertsHistory(w)
  \/ BeginsDelivery(w) \/ FindsOldest(w) \/ SkipsDistrict(w) \/ DeletesNewOrder(w)
  \/ UpdatesOrder(w) \/ UpdatesLines(w) \/ ReadsOrder(w) \/ SumsAmounts(w)
  \/ CreditsCustomer(w)
  \/ Commits(w) \/ Refused(w) \/ RollsBack(w)

\* Every attempt the bound allows is over.
Stops ==
  /\ attempts = MaxAttempts
  /\ \A w \in Workers : at[w] = "idle"
  /\ UNCHANGED vars

Next == (\E w \in Workers : Step(w)) \/ Stops

Spec == Init /\ [][Next]_vars
---------------------------------------------------------------------------
(* Properties of the committed rows: what TPC-C and the checks of           *)
(* checker.rs demand of a database at any time.                             *)

Rows == [ytd : Nat] \cup [next : Nat, ytd : Nat]
        \cup [balance : Int, ytd : Nat, payments : Nat, deliveries : Nat]
        \cup [quantity : Int, ytd : Nat, orders : Nat]
        \cup [c : Nat, cnt : Nat, carrier : -1..10]
        \cup [o_id : Nat]
        \cup [item : Nat, amount : Nat, dated : BOOLEAN]
        \cup [d : Districts, amount : Nat]

Places ==
  {"idle", "read_district", "take_id", "insert_order", "insert_new_order",
   "read_stock", "update_stock", "insert_line", "update_warehouse",
   "update_district", "read_customer", "update_customer", "insert_history",
   "find_oldest", "delete_new_order", "update_order", "update_lines",
   "read_order", "sum_amounts", "credit_customer", "commit", "rollback"}

\* Rows have the columns of their tables, and a session that is in no
\* transaction holds on to nothing.
TypeOK ==
  /\ \A k \in DOMAIN db : db[k] \in Rows
  /\ open \in [Workers -> BOOLEAN]
  /\ \A w \in Workers :
       /\ \A k \in DOMAIN view[w] : view[w][k] \in Rows
       /\ ~open[w] => view[w] = <<>> /\ wrote[w] = {} /\ stale[w] = {}
       /\ at[w] = "idle" => ~open[w]
  /\ at \in [Workers -> Places]
  /\ attempts \in 0..MaxAttempts
  /\ torn \in BOOLEAN

Ids(table, d) == {k[3] : k \in OfDistrict(db, table, d)}

\* The orders of a district are 1 .. d_next_o_id - 1, one row each: no id is
\* given twice or skipped, whoever reads d_next_o_id while another worker is
\* between reading and updating it, and whichever of them rolls back.
OrderIdsDense ==
  \A d \in Districts :
    /\ Ids("orders", d) = 1..(db[DistrictKey(d)].next - 1)
    /\ \A k, l \in OfDistrict(db, "orders", d) : k[3] = l[3] => k = l

\* An order is there with all of its lines, numbered from 1 to o_ol_cnt, and
\* with no others.
OrdersAreWhole ==
  \A d \in Districts :
    /\ \A k \in OfDistrict(db, "orders", d) :
         {l[4] : l \in OfOrder(db, "order_line", d, k[3])} = 1..db[k].cnt
    /\ Ids("order_line", d) \cup Ids("new_orders", d) \subseteq Ids("orders", d)
    /\ \A k, l \in OfDistrict(db, "order_line", d) :
         k[3] = l[3] /\ k[4] = l[4] => k = l

\* Delivered are exactly the oldest orders of a district: new_orders holds the
\* others, and carrier and delivery date are set in all of the former and in
\* none of the latter.  Two Deliveries never take the same order.
OldestDelivered ==
  ~torn =>
    \A d \in Districts :
      LET waiting == Ids("new_orders", d)
      IN  /\ \A o \in waiting, p \in Ids("orders", d) : p > o => p \in waiting
          /\ \A k \in OfDistrict(db, "orders", d) :
               k[3] \in waiting <=> db[k].carrier < 1
          /\ \A l \in OfDistrict(db, "order_line", d) :
               l[3] \in waiting <=> ~db[l].dated

\* What a customer got delivered since the load, in money.
DeliveredTo(d, c) ==
  {l \in OfDistrict(db, "order_line", d) :
     /\ l[3] >= Oldest(d)
     /\ db[l].dated
     /\ \E k \in OfOrder(db, "orders", d, l[3]) : db[k].c = c}

PaymentsOf(d, c) == OfOrder(db, "history", d, c)

\* No update of a customer is lost, though Payment writes values computed
\* from what it read and Delivery adds to the same balance: balance, sum and
\* number of payments and deliveries are those of history and order_line.
BalancesAddUp ==
  \A d \in Districts, c \in Customers :
    LET row == db[CustomerKey(d, c)]
    IN  /\ row.ytd = SumOfAmounts(db, PaymentsOf(d, c))
        /\ row.payments = Cardinality(PaymentsOf(d, c))
        /\ ~torn =>
             /\ row.balance = SumOfAmounts(db, DeliveredTo(d, c)) - row.ytd
             /\ row.deliveries = Cardinality({l[3] : l \in DeliveredTo(d, c)})

\* What the districts and the warehouse took in is what customers paid.
IncomeAddsUp ==
  LET history == {k \in DOMAIN db : k[1] = "history"}
  IN  /\ db[WarehouseKey].ytd = SumOfAmounts(db, history)
      /\ \A d \in Districts :
           db[DistrictKey(d)].ytd = SumOfAmounts(db, {k \in history : db[k].d = d})

\* No update of an item's stock is lost, though NewOrder writes values
\* computed from what it read, twice if an order has the item twice; and the
\* quantity stays between 10 and 100, whatever is ordered.
StockAddsUp ==
  \A i \in Items :
    LET row   == db[StockKey(i)]
        lines == {l \in DOMAIN db : l[1] = "order_line" /\ l[5] # 0 /\ db[l].item = i}
    IN  /\ row.orders = Cardinality(lines)
        /\ row.ytd = SumOfAmounts(db, lines)
        /\ (row.quantity + row.ytd - InitStock) % 91 = 0
        /\ row.quantity \in 10..100

---------------------------------------------------------------------------
(* The committed rows as an order book. *)

Missing == [c |-> 0, lines |-> <<>>]

TheOrder(d, o) ==
  LET keys    == OfOrder(db, "orders", d, o)
      k       == CHOOSE k \in keys : TRUE
      line(n) == LineKey(d, o, n, k[5])
  IN  IF Cardinality(keys) = 1 /\ \A n \in 1..db[k].cnt : line(n) \in DOMAIN db
      THEN [c |-> db[k].c,
            lines |-> [n \in 1..db[k].cnt |-> <<db[line(n)].item, db[line(n)].amount>>]]
      ELSE Missing

Book == INSTANCE OrderBook WITH
  book <- [d \in Districts |->
             [o \in 1..(db[DistrictKey(d)].next - 1) |-> TheOrder(d, o)]],
  delivered <- [d \in Districts |->
                  Cardinality({k \in OfDistrict(db, "orders", d) : db[k].carrier > 0})],
  paid <- [k \in Districts \X Customers |->
             LET row == db[CustomerKey(k[1], k[2])]
             IN  [sum |-> row.ytd, number |-> row.payments]]

\* However the statements of the workers interleave and fail, the committed
\* rows change as if one transaction ran after the other, each in one step.
ImplementsOrderBook == Book!Spec

---------------------------------------------------------------------------
(* The inductive invariant behind OrderIdsDense. *)

IsDistrict(row) ==
  row = [next |-> row.next, ytd |-> row.ytd] /\ row.next \in Nat \ {0}

HasDistricts(rows) ==
  \A d \in Districts : DistrictKey(d) \in DOMAIN rows /\ IsDistrict(rows[DistrictKey(d)])

NextId(rows, d) == rows[DistrictKey(d)].next

\* What the server promises: running transactions have written different rows,
\* none of which others have committed since, and see the others as they are.
IsSnapshot(w) ==
  /\ \A v \in Workers \ {w} : open[v] => wrote[v] \cap wrote[w] = {}
  /\ wrote[w] \cap stale[w] = {}
  /\ \A k \in (DOMAIN db \cup DOMAIN view[w]) \ (wrote[w] \cup stale[w]) :
       k \in DOMAIN view[w] /\ k \in DOMAIN db /\ view[w][k] = db[k]

\* The transaction of w has written no id of district d ...
Neutral(w, d) ==
  /\ DistrictKey(d) \in wrote[w] => NextId(view[w], d) = NextId(db, d)
  /\ \A k \in wrote[w] : k[1] = "orders" /\ k[2] = d => k \in DOMAIN view[w] /\ k \in DOMAIN db

\* ... has counted d_next_o_id up ...
Counts(w, d) ==
  DistrictKey(d) \in wrote[w] /\ NextId(view[w], d) = NextId(db, d) + 1

\* ... and has inserted the order of that id.
Adds(w, d) ==
  /\ Counts(w, d)
  /\ \E new \in wrote[w] :
       /\ new[1] = "orders" /\ new[2] = d /\ new[3] = NextId(db, d)
       /\ \A k \in wrote[w] : k[1] = "orders" /\ k[2] = d =>
            k \in DOMAIN view[w] /\ (k = new \/ k \in DOMAIN db)

IsDraw(m) ==
  m = [f \in {"id", "d", "cd", "c", "lines", "amount", "o", "n", "seen"} |-> m[f]]

BookShape(w) ==
  /\ IsDraw(my[w])
  /\ at[w] # "idle" => my[w].d \in Districts
  /\ at[w] \in {"read_district", "take_id", "insert_order"} => open[w]
  /\ at[w] = "idle" => ~open[w]
  /\ ~open[w] => wrote[w] = {} /\ stale[w] = {}
  /\ open[w] =>
       /\ HasDistricts(view[w]) /\ IsSnapshot(w)
       /\ at[w] \in {"read_district", "take_id"} => wrote[w] = {}
       /\ at[w] = "take_id" => my[w].o = NextId(view[w], my[w].d)
       /\ at[w] = "insert_order" =>
            /\ Counts(w, my[w].d) /\ my[w].o = NextId(db, my[w].d)
            /\ \A k \in wrote[w] : k[1] # "orders"
       /\ at[w] \notin {"insert_order", "rollback"} =>
            \A d \in Districts : Neutral(w, d) \/ Adds(w, d)
       /\ at[w] = "insert_order" =>
            \A d \in Districts \ {my[w].d} : Neutral(w, d)

\* One entry per worker.
Tabled ==
  /\ open \in [Workers -> BOOLEAN]
  /\ view = [w \in Workers |-> view[w]]
  /\ wrote = [w \in Workers |-> wrote[w]]
  /\ stale = [w \in Workers |-> stale[w]]
  /\ at = [w \in Workers |-> at[w]]
  /\ my = [w \in Workers |-> my[w]]

BookIInv ==
  Tabled /\ HasDistricts(db) /\ OrderIdsDense /\ \A w \in Workers : BookShape(w)
=============================================================================
