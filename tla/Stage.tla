------------------------------- MODULE Stage -------------------------------
(***************************************************************************)
(* What the stages of a run of the program (src/src/main.rs) share: the     *)
(* database, main's one connection to it, and how far the run is.           *)
(*                                                                          *)
(* The database is the order book of module OrderBook over tables that a    *)
(* run loads: `copies` is how often the file of a table was loaded.  A call *)
(* of the connection is one step; by module Session it gets the oldest      *)
(* answer that the connection owes, its own unless an earlier call timed    *)
(* out.  Only counts, smallest and largest ids are ever asked for.          *)
(***************************************************************************)
EXTENDS Integers, Sequences, FiniteSetsExt, Functions

CONSTANTS
  Districts, Customers, Baskets, Amounts, Loaded, Undelivered,  \* as in OrderBook
  MaxTxns,     \* bound on the transactions of benchmarks
  MaxFaults,   \* bound on the faults of main's connection
  MaxRuns      \* bound on the runs of the program

\* No order is without lines.
Lines == Seq(Nat \X Nat) \ {<<>>}

ASSUME StageAssumption ==
  /\ Cardinality(Districts) \in Nat \ {0}
  /\ Districts = 1..Cardinality(Districts)
  /\ IsFiniteSet(Customers)
  /\ Baskets \subseteq Lines
  /\ Loaded \in Seq([c : Customers, lines : Lines]) \ {<<>>}
  /\ Undelivered \in [Districts -> 0..Len(Loaded)]
  /\ {MaxTxns, MaxFaults, MaxRuns} \subseteq Nat

VARIABLES
  created,     \* tables that exist
  copies,      \* per table: how often its file was loaded
  book, delivered, paid, torn,  \* the order book
  txns,        \* transactions committed
  legacy,      \* the run was started with --legacy-protocol
  link,        \* "up" | "down"
  late,        \* answers the connection owes to calls that timed out
  lost,        \* (history) a call of the run timed out
  clean,       \* (history) no call of the run met a fault
  alone,       \* (history) no other run changed the database during the run
  faults,      \* faults that happened
  flags,       \* what the run was asked to do
  stage,       \* what it does, "off" when it has ended
  i,           \* the statement, table or district the stage is at
  seen,        \* answers to the questions about district i
  ok,          \* all_ok of the running check
  alarms,      \* checks that failed; all_passed says that there is none
  exit,        \* how the run ended: "ok" | "failed" | "killed", or "running"
  runs         \* runs begun

bookVars == <<book, delivered, paid, torn>>
dbVars   == <<created, copies, bookVars, txns>>
connVars == <<link, late, lost, clean, faults>>
mainVars == <<legacy, alone, flags, alarms, exit, runs>>
placeVars == <<stage, i, seen, ok>>
vars == <<dbVars, connVars, mainVars, placeVars>>

Book == INSTANCE OrderBook

---------------------------------------------------------------------------
(* Answers and what the cursor makes of them. *)

Command    == [kind |-> "command", n |-> 0]
Rows(n)    == [kind |-> "rows", n |-> n]
NoRows     == [kind |-> "none", n |-> 0]
Error(why) == [kind |-> why, n |-> 0]

\* The text protocol knows an abort by its first word and takes any other
\* error text for success, or for no rows.
Fails(r) == \/ r.kind \in {"abort", "timeout", "connection", "local"}
            \/ ~legacy /\ r.kind \in {"error", "exists"}

HasRow(r) == r.kind = "rows"

---------------------------------------------------------------------------
(* Calls.  r is the result that the caller goes on with. *)

\* The results a call may have whose own answer is `own`.
Results(own) ==
  {own} \cup Range(late)
  \cup {Error(why) : why \in {"abort", "error", "timeout", "connection", "local"}}

Fault ==
  /\ faults < MaxFaults
  /\ faults' = faults + 1
  /\ clean' = FALSE

NoFault == UNCHANGED <<faults, clean>>

Breaks == link' = "down" /\ late' = <<>> /\ UNCHANGED lost

\* The call gets the oldest answer that is owed.  After a time-out inside of a
\* frame it may also get a garbled one (ExecStream); these are left out here, as
\* no property speaks about runs in which a call timed out.
Receives(own, r) ==
  LET owed == Append(late, own)
  IN  /\ r = Head(owed)
      /\ late' = Tail(owed)
      /\ UNCHANGED <<link, lost>>

\* The server does what it is asked for and answers `own`.
Asks(own, r) ==
  /\ link = "up"
  /\ \/ NoFault /\ Receives(own, r)
     \/ /\ r = Error("timeout") /\ Fault
        /\ late' = Append(late, own) /\ lost' = TRUE /\ UNCHANGED link
     \/ r = Error("connection") /\ Fault /\ Breaks

\* It does not: it refuses the request, or never gets it.
Misses(r) ==
  \/ link = "up" /\ Fault /\ \E why \in {"abort", "error"} : Receives(Error(why), r)
  \/ link = "up" /\ r = Error("connection") /\ Fault /\ Breaks
  \/ link = "down" /\ r = Error("connection") /\ NoFault /\ UNCHANGED <<link, late, lost>>

\* A file of the program cannot be read or written.
NoFile(r) == r = Error("local") /\ Fault /\ UNCHANGED <<link, late, lost>>

---------------------------------------------------------------------------
(* The way through the stages. *)

Keeps == UNCHANGED <<legacy, alone, flags, runs>>

Ends(how) ==
  /\ stage' = "off"
  /\ exit' = how
  /\ i' = 1 /\ seen' = <<>> /\ ok' = TRUE
  /\ Keeps

GoesTo(place) ==
  /\ stage' = place
  /\ i' = 1 /\ seen' = <<>> /\ ok' = TRUE
  /\ UNCHANGED exit /\ Keeps

Stays(next) ==
  /\ i' = next
  /\ UNCHANGED <<stage, seen, ok, exit>> /\ Keeps

\* The stages a run was asked for, in the order of main.
FirstOf(stages, default) ==
  IF \E n \in DOMAIN stages : stages[n][1] \in flags
  THEN stages[Min({n \in DOMAIN stages : stages[n][1] \in flags})][2]
  ELSE default

Work == <<<<"init", "create">>, <<"check", "count">>, <<"stats", "stats">>,
          <<"benchmark", "benchmark">>>>

\* What follows the first n kinds of work; with none left main closes the
\* connection and returns.
Follows(n) ==
  LET place == FirstOf(SubSeq(Work, n + 1, Len(Work)), "off")
  IN  IF place = "off" THEN Ends("ok") ELSE GoesTo(place)

\* Statement by statement: the next of `total`, or on to another stage.
Continues(total, Finally) == IF i < total THEN Stays(i + 1) ELSE Finally

\* The row counts of the tables.
Tables == {"warehouse", "district", "item", "customer", "stock", "orders",
           "new_orders", "history", "order_line"}

\* Orders of district d with an id in S, as often as the files of the table
\* were loaded, or once if a NewOrder made them.
Times(t, o) == IF o <= Len(Loaded) THEN copies[t] ELSE 1

Waiting(d) == {o \in (delivered[d] + 1)..Len(book[d]) : Times("new_orders", o) > 0}
Ordered(d) == {o \in 1..Len(book[d]) : Times("orders", o) > 0}

NumWaiting(d) == SumFunction([o \in Waiting(d) |-> Times("new_orders", o)])
NumOrders(d)  == SumFunction([o \in Ordered(d) |-> Times("orders", o)])
NumLines(t, d) == SumFunction([o \in DOMAIN book[d] |-> Times(t, o) * Len(book[d][o].lines)])

Payments == SumFunction([k \in DOMAIN paid |-> paid[k].number])

\* Rows a file of table t has; items, customers and so on count as one.
FileRows(t) ==
  CASE t = "district"   -> Cardinality(Districts)
    [] t = "orders"     -> Cardinality(Districts) * Len(Loaded)
    [] t = "new_orders" -> SumFunction(Undelivered)
    [] t = "order_line" -> Cardinality(Districts)
                             * SumFunction([o \in DOMAIN Loaded |-> Len(Loaded[o].lines)])
    [] OTHER            -> 1

CountOf(t) ==
  CASE t = "orders"     -> SumFunction([d \in Districts |-> NumOrders(d)])
    [] t = "new_orders" -> SumFunction([d \in Districts |-> NumWaiting(d)])
    [] t = "order_line" -> SumFunction([d \in Districts |-> NumLines("order_line", d)])
    [] t = "history"    -> copies[t] + Payments
    [] OTHER            -> copies[t] * FileRows(t)

\* The answer to a question about table t, if there is one.
About(t, answer) == IF t \in created THEN answer ELSE Error("error")
=============================================================================
