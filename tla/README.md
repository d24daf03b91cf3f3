# A TLA+ model of TPCC-Tester

TPCC-Tester drives an RMDB server with the five TPC-C transactions: it loads
data, runs a benchmark with many connections, checks consistency and prints a
report.  The modules here model its control flow, that is what it sends, what it
makes of each answer or failure, and what it counts, and leave the SQL text, the
values in the rows and the wording out until a property needs them.  Paths are
relative to the repository; `src/src/` is the crate.

## 1. The system

| part | state | operations | talks to |
|---|---|---|---|
| Wire client (`connection/client.rs`, `protocol.rs`) | socket, payload buffer | `connect` with handshake, `exec_stream`, `ping`, `close` | server, by frames over TCP |
| Cursor (`connection/cursor.rs`) | a client | `execute`, `execute_update`, parameter substitution | wire client, legacy client |
| Transactions (`transaction/*.rs`) | none between attempts | `execute` of NewOrder, Payment, Delivery, OrderStatus, StockLevel | cursor |
| Executor (`executor.rs`) | shared counters, `cancelled` flag, result vectors; per worker: connection, iteration, type, `thread_data` | worker loop with retry and reconnect, Ctrl-C handler, progress reporter, join, report | transactions, wire client |
| Mix selection (`transaction/mod.rs`) | none | `select_transaction_type`, `weighted_choice` | executor |
| Legacy text protocol (`client.rs`, `cursor.rs`) | read buffer of 8192 bytes | `send_cmd`, `execute_legacy`, `parse_legacy_response` | server |
| Loader (`loader.rs`, `data_gen.rs`, `model.rs`) | CSV files, tables | `create_tables`, `create_indexes`, `load_all_data`, `verify_counts` | cursor |
| Consistency checker (`checker.rs`) | none | counts, district/orders, new_orders, order_line checks, statistics | cursor |
| Report, command line (`report.rs`, `main.rs`, `config.rs`) | none | print, parse, sequence of the stages | all |
| RMDB server (outside the repository) | per connection one session, the tables | answers requests in order | wire client |

How they interact: the executor spawns one task per worker; each owns its
connection, so one connection is used by one task and one call at a time.
Workers share only the four atomics of `SharedCounters`, the vector of results
behind a mutex, and the database.  The main task joins the workers, tells the
progress reporter to end, and then reads counters and results.

What is hard about it:

* **Failure in the middle of a call.**  No frame names its request.  A read that
  times out (300 s) or is refused leaves the rest of an answer in the socket, and
  the client keeps the connection.
* **Failure in the middle of a transaction.**  There are 40 early returns in the
  five transactions, each with its own copy of ROLLBACK or without one.
* **Retry.**  Every failure is retried without limit, on the same connection or on
  a new one depending on where the error surfaced.
* **Concurrency.**  Counters, vectors, the flag and the report are touched by
  `threads + 3` tasks with relaxed ordering.
* **Ctrl-C, panics, failed reconnects** remove workers at any time.

What makes each part correct:

* wire client: an answer belongs to the call that returns it; answers are whole;
  requests are not pipelined;
* transactions: all writes of an attempt become durable or none; success means
  durable; no transaction is left open; every failure leads back to the executor;
* executor: the report agrees with what happened, every transaction is counted
  once, an uninterrupted run commits its quota, Ctrl-C ends the run;
* transactions on shared rows: order ids without gaps, no update lost, oldest
  order first, the committed rows those of one transaction after the other;
* loader, checker, command line: a run that says that it is done has loaded the
  database, a check that passes means what it says, and one that fails too.

`PROJECT.json` lists the parts with their status and every hazard at its line.

## 2. Modules

```
              Session  (abstract: one connection)
             /   |    \
 implements /    |     \ implements, for short responses
   ExecStream    |      TextSession
  (frames)       |      (--legacy-protocol)
                 | its promise is what a call may do in
    Transactions, Stage

 Transactions --implements--> Executor      Tables --implements--> OrderBook
      | EXTENDS               (tasks,      (values of shared        ^ is the database of
   Programs                    counters)    rows, workers)          |
                                                                  Stage
   DataGen  Mix  SqlText                                         /     \
        \    |    /                                          Loader   Checker
         Routines   (pure functions)                             \     /
                                                                  Main
```

* **`Session`**: abstract.  A connection takes one call at a time; the answer to
  a call is its own until a call fails; afterwards the answer may be that of any
  earlier call, or one that nobody gave.
* **`ExecStream`**: the wire client of `client.rs`.  A response is a sequence of
  frames; a frame is cut in a front (header) and a back (payload) because
  `read_exact` consumes bytes before a time-out.  `ReadFront`, `TakeFrame`,
  `FinishCall`, `RejectFrame`, `BadHeader`, `TimeOut`, `Disconnected` are the ways
  through `read_frame` and the `match` of `exec_stream`.  `Flaws` abstracts the
  decoding functions to where they refuse a frame.  The server (`Serve`,
  `ServerCloses`) is external.  The four `Misread...` actions are what happens to the
  rest of a frame inside of which an earlier call gave up (`adrift`): the next call reads
  eight of its bytes, or of it and of what follows, as a header, which is refused
  only if a reserved field is not 0 or the length is above 1 MiB.  So the rest may be
  refused, wait for more bytes than ever come, or pass for any frame that the call
  expects, and use up any number of the units behind it.  An example: the payload of a
  RESULT_END with row count 16 is cut after three bytes; its rest `00 00 00 00 10` and
  the `00 00 00` that begin the next header are an empty COMMAND_OK.  Frames that no
  server sent have `req` 0.
* **`TextSession`**: the same for the text protocol: `send_cmd` and `ping` of
  `client.rs`.  A response is a number of pieces that arrive a few at a time, and a
  `Read` takes those that are there, at most `Buffer` of them, for the answer.
  `prompt` says that every response arrives at once and fits; the properties
  speak about such connections, the others are in the model too.
* **`Programs`**: the statements of the five transactions as data: how each treats
  its outcome, how many columns it selects and how many it indexes.
* **`Executor`**: `BenchmarkExecutor::run`.  `pc[w]` is a worker's place;
  `NextTransaction`/`LoopEnds` are the `for` loop, `StartAttempt`/`StopRetrying` the
  `loop`, `Committed`/`Aborted`/`Lost` the arms of the `match`.  An attempt is one
  step with any verdict, or a panic.  `JoinWorkers` and `Report` are the main task,
  `ProgressEnds` and `Interrupt` the other two.
* **`Transactions`** extends both: an attempt becomes a walk through its program,
  one action per kind of statement (`Begins`, `Selects`, `FindsOldest`, `DoesWrite`,
  `Reports`, `Commits`, `RollsBack`, and `Panics` for an index out of bounds).  A
  call of the connection is one step whose outcomes are those `Session` allows:
  an answer, a time-out that leaves the answer `late`, a broken connection, or,
  after a time-out, an earlier answer or something `Garbled`.  `db[w]` is what the server made of the
  attempt: writes in the open transaction (`work`) and writes that can no longer
  be undone (`durable`).  Outside of a transaction a statement commits itself, as
  the loader and the read-only transactions rely on.
* **`Tables`**: the same three writing transactions with the values they read and
  write, on rows that several workers share; one statement is one step, and each
  action is named after its statement (`ReadDistrict`, `TakeId`, `FindOldest`, ...).  A row is
  found by its key; because no index is unique, an inserted row's key carries the attempt
  that inserted it, so that doubles are seen.  Any statement may be refused, any
  answer be lost.  What the program takes for granted of the server is spelled out
  in its section on the server: snapshots, the first of two writers of a row wins.
* **`OrderBook`**: abstract.  What the transactions are meant to do to the database,
  in one step each: a district is the sequence of its orders and a number of
  delivered ones, a customer is what he paid.
* **`Stage`**, **`Loader`**, **`Checker`**, **`Main`**: runs of the program.  `Stage` has
  what they share: main's one connection, with one step per call; the answers it
  still owes; the tables as `OrderBook` over the number of `copies` of each file that
  were loaded; and the ways in which a stage goes on or ends the run.  `Loader` is
  `--init` statement by statement, `Checker` `--check` and `--stats` query by query, and
  `Main` connects, pings, goes from one to the next, is killed anywhere, and starts
  again on the database that the last run left.  Transactions of other runs fall
  between any two queries of a check.
* **`DataGen`**, **`Mix`**, **`SqlText`**: pure functions with the source's numbers:
  generated rows and the choice of a Payment's customer; the choice of a transaction type
  and percentiles; parameter substitution and the parser of text tables.  `Routines`
  runs them on one input per state and compares them with what they are for.
* **`MC...`**: constants for TLC.
* **`ExecStreamProofs`, `TextSessionProofs`, `TransactionsProofs`, `TablesProofs`,
  `LedgerProofs`, `MainProofs`, `RoutinesProofs`**: theorems, see section 4; **`Sums`**: the
  facts about sums over finite sets that they need.

## 3. Runs

| run | checks | distinct states |
|---|---|---|
| `exec_stream` | `TypeOK`, `AnswersOwnCall`, `AnswerIsOneResponse`, `SendsAlone`, `ImplementsSession` | 1.43 M |
| `text_session` | `TypeOK`, `AnswerIsWhole`, `PingLeavesNothing`, `ImplementsSession` | 9.86 M |
| `executor` | `ExecTypeOK`, `ReportAddsUp`, `QuotaMet`, `JoinedIsFinal`, `InterruptStops` | 141 k |
| `transactions` | `TypeOK`, `CountedIsDurable`, `AttemptIsAtomic`, `FailedLeavesNothing`, `NothingLeftOpen` | 799 k |
| `transactions_live` | `WorkersFinish`, `ImplementsFairExecutor` | 41.6 k |
| `tables` | `TypeOK`, `OrderIdsDense`, `OrdersAreWhole`, `OldestDelivered`, `BalancesAddUp`, `IncomeAddsUp`, `StockAddsUp`, `ImplementsOrderBook` | 45.6 k (half by symmetry) |
| `main` | `TypeOK`, `DoneMeansLoaded`, `PassMeansPristine`, `AlarmsMean`, `BenchmarkBeginsPristine` | 1.21 M |
| `routines` | `MixIsAsAsked`, `PercentilesAreClose`, `LoadIsConsistent`, `RemoteIsElsewhere`, `ParametersArrive`, `RowsAreRows` | 6.7 k inputs |
| `dead_is_replaced`, `one_outstanding`, `delivery_is_atomic`, `holes_are_there` | one property each, violated | small |

What they show.

* On a connection on which no call gave up, answers are attributed correctly and
  requests are never pipelined.  After a time-out between two frames attribution is
  lost, but an answer is still of one response.  After one inside of a frame, or a header
  that was refused, not even that holds: the frame checks of `exec_stream` do not
  notice a mixture that begins with a frame made of leftovers, and the caller goes on
  using the connection.  What is left then is that other answers are of one
  response, and that a query answer has as many rows as its end says.
* The text protocol keeps the same promise only while every response arrives at
  once and fits into the buffer; then a ping that returns Ok has left no
  transaction behind either, unless COMMIT was answered with an error text.
* The report adds up, unless a worker panicked, for every interleaving of
  workers that finish, fail, reconnect or give up and a Ctrl-C at any time.
* Unless a call timed out or Delivery skipped an error, Ok(true) means durable
  and complete, an attempt is atomic at every moment, and a failed attempt left
  nothing behind, except where the connection broke while COMMIT was answered:
  there the transaction may be done and is repeated.  No program leaves a
  transaction open.
* With finitely many faults every worker finishes, with two exceptions that the
  property names: a read-only transaction on a dead connection, and a connection
  on which a call timed out.
* Workers that interleave on the same rows lose no order id, no stock and no
  balance, and deliver orders in their order, although NewOrder and Payment write values
  that they computed from what they read: on a server that isolates them.  Once a
  Delivery goes on outside of its transaction (`torn`), which the code allows, the order
  of deliveries and the balances are void; ids, stock and income are not.
* A run with `--init` that ends well has loaded every table.  A check that passes
  has seen exactly the loaded database, also after an init that was killed or done
  twice; a benchmark behind a check in the same run begins on that database.  Both
  unless a call timed out or the text protocol hid an error.
* `AlarmsMean` says exactly what a failed check means: the row counts fail after any
  transaction, checks 2 and 3 fail when some district has no order waiting.
* The mix follows the weights to one draw, percentiles are within one sample, the
  generated files fit together and have the numbers that loader and checker
  expect, a Payment is remote in 15 of 100 cases, a parameter arrives as it was given
  unless an earlier one contains a "?", and text rows never shift between columns.

Four statements of the repository's own documents and messages do not hold; the
findings in `PROJECT.json` quote them:

* `DeliveryIsAtomic`: Delivery skips a district when its MIN query fails, also
  when the failure was the abort of the whole transaction, and goes on writing
  outside of any transaction.
* `DeadIsReplaced`: OrderStatus and StockLevel turn a connection error into
  "failed", so the executor never reconnects.
* `OneOutstanding`: after a time-out ROLLBACK and the next attempt are sent while
  the answer is outstanding.
* `HolesAreThere`: check 3 reports a hole in the queue of a district whose last waiting order
  was delivered.

Seven further differences between code and documents are listed without a run, because
they are about what is sent, not about a behaviour that goes wrong, or because a
passing property already states what does happen: ROLLBACK after
TRANSACTION_ABORT, retries with new parameters, the row counts after a benchmark,
a second init, the order of the steps of an init, absolute values in updates, and
error texts that the text protocol takes for success.

### Bounds

* `exec_stream`, `MaxCalls = 3` requests on a connection: two calls that give up, in the same or
  in different ways, and one that sees what they left.  A connection can be
  closed and opened again any number of times.  A misread frame in the middle of an answer
  uses up at least one unit of the stream, or one rest could pass for any number of rows.
  `MCResponses`: every well-formed shape with at most one row, a result that is aborted after a row, and each kind of flaw once.
* `text_session`, `Buffer = 2`, `MaxPieces = 3`, `MaxCalls = 3`: responses that fit, that
  fill the buffer and that exceed it; a ping and a call behind it.
* `executor`, `Workers = {w1, w2}`, `TxnPerThread = 2`: one worker commits,
  fails, reconnects or panics while the other has not connected, runs or is done.
  `MaxAborted = 1`: `total_aborted` saturates there; only the printed failure
  count depends on it.
* `transactions`, `Workers = {w1}`: workers meet only in the counters, the
  flag, the result vectors (all covered by `executor`) and in the database (`tables`).
  `TxnPerThread = 1`: one transaction of any type with all of its retries; faults, late
  answers and reconnects carry over from one attempt to the next as they would from one transaction
  to the next, and that a worker has several is `executor`'s subject.
  `MaxFaults = 3`, `MaxLate = 2`: enough for an abort, a failing ROLLBACK and a
  reconnect that fails, and for two answers outstanding at once.  `OlCnt = 2` and
  `Districts = 3` stand for 5 to 15 lines and 10 districts: there is a first, a
  middle or last and a next one.  The liveness run uses smaller ones (`MaxFaults = 2`, `MaxLate = 1`,
  one line, two districts).
* `tables`, two workers and `MaxAttempts = 2`: every pair of the three transactions meets in every
  interleaving of their statements, with any statement refused.  Two districts,
  one of them with an empty queue; one customer and one item, so that everything
  meets; baskets with one line and with the same item twice; a stock that the
  first order refills.
* `main`, `MaxRuns = 2`, `MaxFaults = 2`, `MaxTxns = 2`: an init that fails or is killed and the
  run that follows it, a second init, a check of what they left; one transaction
  before and one during a check.  The first district has one undelivered order
  more than the second, so that a Delivery empties one and not the other.
* `routines`: `Grain = 12` steps of a die, weights 0, 1 and 3, 1 to 250 samples (P99 is then
  not always the last), 1 to 3 warehouses with the real numbers of rows, up to three
  parameters, up to two rows cut off anywhere.

A `Returned` step stands for the program after `run` has returned, and `Stops` for the time after
the last run, so deadlock is checked in every run; a connection can always be
closed or opened again.

### Assumptions about the server

They are what the program relies on and cannot be read from its code: answers come in the
order of the requests; one transaction per connection, which ends before
TRANSACTION_ABORT is sent and with the connection; a statement outside of a
transaction commits by itself.  In `Tables` a transaction reads the snapshot
of its BEGIN and its own writes, and is refused a write of a row that another
running transaction has written or one has committed since.  A statement may be refused for no reason
too.  The repository never asks for an isolation level; without isolation (the mutant
that begins no transaction) `OrderIdsDense` and `BalancesAddUp` do not hold.

### Fairness

Workers, the progress reporter, the join and the report are weakly fair: tokio
polls a ready task, a call ends with an answer, an error or the 300 s time-out,
and `sleep(10 s)` ends.  Ctrl-C, faults and the server closing a connection are
not fair: they need not happen.  Faults are finitely many (`MaxFaults`), without
which no retry loop can be shown to end.  A server that keeps sending rows for
ever is excluded: the time-out is per read, not per call.

## 4. Proofs

TLAPS checks the following for every value of the constants, under the named
assumptions of the modules only: finite `Workers`, `MixTypes`, `Customers` and `Items`,
natural bounds, a response ends with its only final frame, `OlCnt` and `Districts`
positive, a district is loaded with orders and no order is without lines (`o_ol_cnt` is
5 to 15), known fault kinds, typed rows of the loaded database, and what `RoutinesProofs`
needs of statements and parameters (below).

* **`ExecStreamProofs`**: all safety properties of `exec_stream` and the
  refinement of `Session`.  `AnswersOwnCall` is not inductive: that the next frame is
  one's own depends on what is in the socket.  `IInv` adds that the stream is a
  sequence of responses of which only the first may be begun (`StreamShape`), that
  the running call holds META and rows of the response whose rest is next
  (`CallShape`), that the client knows where in a frame it is until a call gives up
  inside of one, and always behind a frame of a server that it has taken whole
  (`BoundaryKnown`, for `AnswerIsOneResponse`: no misread frame can come behind such a
  one), and that before a call gave up the stream holds the answer to the
  running call and nothing else (`InSync`).
* **`TextSessionProofs`**: all properties of `text_session`, the refinement of `Session`
  included.  `TextIInv` says where the one answer of a prompt connection
  is while its call waits: not begun, whole in `owed`, or whole in `stream`
  (`Whole`), which also remembers that a COMMIT reported as done has closed the
  transaction.  `TypeOK` is inductive by itself.
* **`TransactionsProofs`**, first of `Executor`: types, `QuotaMet`, `JoinedIsFinal`, `ReportAddsUp`.
  `ExecIInv` counts the
  iterations that are over as a set `Slots` of pairs of worker and iteration:
  `total_committed` is its cardinality as long as nobody interrupted, a worker that
  is done has all of its own, and main leaves the join only without running workers.
  `QuotaMet` is then the cardinality of a product.  The report needs `VectorShape`: what
  the vectors hold of a type is the sum over the workers of what each has pushed, and a
  worker that did not panic has pushed exactly what it counted.
  Then of `Transactions`: every step of the statement-level model is a step of
  `Executor` or leaves its variables alone, so the executor's safety theorems hold
  whatever statement fails in whatever way (`Implementation`,
  `QuotaHoldsOfTransactions`); `TypeOK`, in particular that a running attempt is at a
  statement of its program, also after `continue`; and `NothingLeftOpen`.  Its
  strengthening says that answers are outstanding only after a call gave up, that
  a dead link has no session in a transaction, and that an open transaction means a
  running attempt that is past BEGIN.  The lemma `CallShape` reduces a call to two
  cases while no call gave up: the server's own answer with its effect, or a broken
  connection with the transaction over.
  `AttemptIsAtomic`, `CountedIsDurable` and `FailedLeavesNothing` need a second
  invariant, `WorkIInv`, of what the open transaction holds at each statement: in NewOrder and
  Payment every write before it, in Delivery, for each district, either all writes before it or
  none, since a district without a waiting order is skipped (`WholeBefore`).  COMMIT
  turns that into whole units, and ROLLBACK, an abort or a broken connection into nothing.
* **`TablesProofs`**: `OrderIdsDense`, `TypeOK` and `OrdersAreWhole`, for any number of workers,
  orders, lines and items.  `BookIInv` states the
  server's promise for each running transaction (`IsSnapshot`: it wrote rows that no other running
  one wrote and none committed since, and sees all others as they are), and how far
  its own writes are: it has left the ids of a district alone (`Neutral`), has
  counted `d_next_o_id` up (`Counts`), or has inserted the order too (`Adds`).  That a
  COMMIT of one worker keeps the snapshots of the others is the lemma about a
  bystander; that it keeps the ids dense follows from `Adds`.
  On top of it stand `RowIInv`, the columns of every row and of what a worker has read and drawn
  so far, and `OrderIInv`, that an order is whole in the database and in every snapshot except for
  the one its own worker is about to complete, and how much of that one is there at each statement.
* **`LedgerProofs`**: `StockAddsUp`, `IncomeAddsUp`, `BalancesAddUp`, `OldestDelivered` and
  `ImplementsOrderBook`, for any number of workers, orders, lines and items.  Three more
  invariants, each on top of the ones before:
  `LedgerIInv`, that every counter column (stock taken, orders of an item, income of warehouse and
  districts, payments of a customer: the `Accounts`) is the sum over its entries, in the
  database, and in a snapshot up to the `Offset` of the statement its worker is at.  A
  worker that read an old value is caught by `BookIInv`: had another transaction written the row
  since, the server would refuse this one's update.  That a commit keeps the
  sums adds what the committing worker was ahead by, which is nothing at COMMIT;
  `ServeIInv`, what a Delivery knows: the row of `new_orders` it has deleted is still the
  oldest *committed* one of its district (`Took`; a Delivery that could have taken it too
  would have had to delete the same row, and new orders only come in behind), it has marked
  all rows of that order it is past, and no other rows, and it has not touched the districts
  to come (`Sight`).  That is why two Deliveries whose snapshots show the same queue never
  both commit.  Nothing is claimed once a Delivery has gone on outside of its
  transaction (`torn`), which is the hazard of the ignored errors;
  `CreditIInv`, that a customer is credited for what is delivered to it and for nothing else, again
  unless `torn`: in the database balance plus payments are what the lines of its delivered orders cost
  (`Owes`); the row that a Delivery has written is ahead of the committed one by the lines that it
  has marked, once it is past the five statements from the update of the order to the credit (`Credited`, `Due`),
  and what it has read for it - the order, its customer, the sum - is what the *committed*
  rows say (`Knows`), though it read them in a snapshot.  A commit moves the marked lines
  from `Due` to the delivered ones (`MergedGiven`); that none of them was
  delivered before is `Served` and `Took`, and that they are of other orders, so that
  `deliveries` counts up by the right number, too.  The Payment half
  (`CustomersPaid`) is from `LedgerIInv`.

  The refinement needs all but the last and `PlainIInv`: no transaction but a Delivery
  has written an order other than its own.  `BookOf`, `DeliveredOf` and `PaidOf` are the
  refinement mapping as functions of any rows, and `BookActions` says when two values of
  them are a step of `OrderBook`.  Every statement inside of a transaction, every abort and
  every rollback leaves them alone; a COMMIT of a NewOrder appends the one order it has
  inserted, whole, since its id is the next one (`NewOrderBooks`), that of a Payment adds
  the one history row and what `CustomersPaid` says follows (`PaysGrow`), and that of a Delivery
  marks one order in each district it took one of (`DeliveryBooks`), which leaves no more
  delivered orders than there are.  A statement of a Delivery that has lost its transaction is
  a `TornDelivery` (`LooseRefines`).
* **`Sums`**: sums over finite sets, and the fold the models use, element by element.  Induction
  cannot be used here, so the proofs go through the least size of a counterexample.
* **`MainProofs`**, for any number of districts, loaded orders, runs, faults, kills and
  transactions in between: `TypeOK`, `DoneMeansLoaded`, `PassMeansPristine`, `AlarmsMean`
  and `BenchmarkBeginsPristine`.  `LoadIInv` counts the LOADs that are done while the run is
  at one of them, and carries the result through every later stage, also through
  the answers of connections that gave up, which void it.  The other three rest on
  `CheckIInv`: as long as every answer is the run's own and nothing changes under it
  (`Sure`), an alarm of a check that is over or its absence, `all_ok` of the one that runs
  and the answers about the district it is at are *right* of the present database - in a
  run without a fault in both directions, in any other only a check that passes means
  something, since a failed call looks like a failed check.  `FailIInv` and `CleanIInv` are
  needed beside it, because the exit code 1 has other reasons too: a run that meets no
  fault fails by a check or not at all.  What is left is about one state: `CountsMean` and
  `QueueTells` show that sums of products (how often each file was loaded, times its rows,
  plus what the transactions added) match the files only if every factor is 1 and nothing
  was added.  Checks 1 and 3 do that alone; 2 and 4 add nothing on an undisturbed database.

* **`RoutinesProofs`**: five of the six properties of `routines`, for every input of the type of
  `input` and not only for those TLC enumerates.  There are no transitions to speak of; the work is in
  what the operators compute, by least counterexamples and, for folds, by their value on each
  beginning of 1..n (`FoldExists`, which also shows that the recursive function a fold
  chooses exists).
  `MixIsAsAsked`: the draws that choose an item are those between two partial sums
  of the weights, and the number of multiples in such an interval is its length to one
  (`HowMany`, `SharesOfWeights`).  `LoadIsConsistent`: the cardinalities of the generated sets.
  `RemoteIsElsewhere`: the positions other than the own warehouse's are counted through.
  `ParametersArrive` is two passes over one text: `PutFirst`, once per parameter, and the scanner of the
  server, once per character.  `Placed` says how they meet: after k
  parameters the query is what the server has already read as the first p tokens, followed by
  the rest of the statement untouched; the next parameter goes to the next `?` of that
  rest, because there is none in what is done (this is where a `?` in an earlier parameter would
  break it), and the server stands outside of a string there, because no two `?` are adjacent.
  A quoted literal is read as its text with the closing quote still open, since
  another quote might follow (`ReadsString`, `Stands`).

  The assumptions about the inputs are those that the code gives: probabilities are not negative and
  the scale is at least 1; the statements of the transactions have no quote and no two
  adjacent `?` (`SqlsAssumption`); a parameter that is not a string is a number, here one
  character that is not a quote (`ParamsAssumption`).

Only model-checked:

* liveness (`InterruptStops`, `WorkersFinish`, and the fair half of `ImplementsFairExecutor`):
  fairness and ENABLED are outside of the prover's reach;
* `RowsAreRows`: it speaks of the standard `SelectSeq`, which TLA+ defines by recursion over the
  sequence and of which the provers know nothing.  `routines` checks it for tables of
  up to two rows of two columns, cut off anywhere.

## 5. Not modelled

Abstracted on purpose: the wording of SQL and logs, latencies, memory, the byte layout
of frames (only that and where decoding may refuse one).

* **diagnose printout and option parsing** (`main.rs`, `config.rs`): the one changes no
  state, the other is declarative.
* **Report printing** (`report.rs`): formatting, except for `percentile`.
* **Names, addresses, dates, prices, CSV columns** (`data_gen.rs`, `model.rs`): no statement's
  outcome depends on them.
* **Rounding of f64** in `weighted_choice`: the model has integers; rounding can only move the
  boundary between two weights, or fall through to the first one.
* **Garbled answers in `Stage`**: after a time-out its calls get earlier answers one by one, not the
  garbled ones of `ExecStream`; no property of `main` speaks about runs in which a call timed out.
* **Wrong values after a desynchronised answer**: `Transactions` has the panic and the wrong
  outcome; which wrong number would be written back depends on the SQL of every pair of
  statements.
* **An init on a database with transactions**: `Main.Starts` leaves it out, since old and new
  orders would then have the same ids and `OrderBook` no longer describes the tables.
* **Several warehouses in `Tables`**: remote rows are rows like any other there; whether the
  right warehouse is chosen is in `Routines`.
* **The server**: external throughout.
