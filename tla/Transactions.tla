---------------------------- MODULE Transactions ----------------------------
(***************************************************************************)
(* The executor with its transactions statement by statement, each worker   *)
(* on a connection to the server: an attempt of Executor becomes a walk     *)
(* through a program of Programs (src/src/transaction/*.rs over             *)
(* src/src/connection/cursor.rs).                                           *)
(*                                                                          *)
(* A call of the connection is one step, and takes from module Session what *)
(* the wire client promises: the answer to a call is its own until a call   *)
(* of the connection fails, and a whole response, or an error, after that.  *)
(* The server is external, known by what the protocol says of its answers.  *)
(* A request that timed out has been processed by then, its answer is late. *)
(***************************************************************************)
EXTENDS Executor, Programs

CONSTANTS
  Faults,      \* the faults that may happen
  MaxFaults,   \* bound on their number
  MaxLate      \* bound on the answers a connection has outstanding

FaultKinds == {"abort", "error", "empty", "timeout", "drop", "refuse"}

ASSUME FaultsAssumption == Faults \subseteq FaultKinds /\ MaxFaults \in Nat
ASSUME MaxLateAssumption == MaxLate \in Nat
ASSUME MixAssumption == Mix \subseteq Types /\ Mix # {}

VARIABLES
  at,        \* per worker: the statement of its program that comes next
  rolling,   \* per worker: the ROLLBACK of the attempt comes next
  conn,      \* per worker: its connection
  db,        \* per worker: the server's session and what it made of the attempt
  acked,     \* per worker (history): writes the attempt got an answer for
  blind,     \* per worker (history): the attempt went on after an error
  faults     \* faults that happened

attemptVars == <<at, rolling, conn, db, acked, blind, faults>>
vars == <<execVars, attemptVars>>

\* What a call returns: an answer of the server, or why there is none.
Answer(kind, cols) == [kind |-> kind, cols |-> cols]
Failure(kind)      == [kind |-> kind, cols |-> 0]

Errors == {"abort", "error", "connection", "protocol", "timeout"}

\* conn[w]: `late` holds the answers that calls gave up waiting for, `lost`
\* (history) that there was such a call.
NewConn(link) == [link |-> link, late |-> <<>>, lost |-> FALSE]

\* db[w]: the session is in a transaction ("open") or every statement is its
\* own ("auto"); `work` are the writes of the open transaction and `durable`
\* those of the attempt that can no longer be undone.
NewSession == [session |-> "auto", work |-> {}, durable |-> {}]

Ended(d) == [d EXCEPT !.session = "auto", !.work = {}]

Init ==
  /\ ExecInit
  /\ at = [w \in Workers |-> 1]
  /\ rolling = [w \in Workers |-> FALSE]
  /\ conn = [w \in Workers |-> NewConn("none")]
  /\ db = [w \in Workers |-> NewSession]
  /\ acked = [w \in Workers |-> {}]
  /\ blind = [w \in Workers |-> FALSE]
  /\ faults = 0

---------------------------------------------------------------------------
(* The server: what it answers a statement, and what the statement does. *)

Served(answer, session, fault) ==
  [answer |-> answer, db |-> session, fault |-> fault]

\* d is the session and i the number of the statement.
Done(d, s, i) ==
  CASE s.op = "begin" ->
         {Served(Answer("command", 0), [d EXCEPT !.session = "open"], {})}
    [] s.op \in {"select", "report"} ->
         {Served(Answer("rows", s.cols), d, {})}
    [] s.op = "min" ->
         {Served(Answer(kind, 1), d, {}) : kind \in {"rows", "null", "none"}}
    [] s.op = "write" ->
         {Served(Answer("command", 0),
                 IF d.session = "open"
                 THEN [d EXCEPT !.work = @ \cup {i}]
                 ELSE [d EXCEPT !.durable = @ \cup {i}], {})}
    [] s.op = "commit" ->
         {Served(Answer("command", 0),
                 Ended([d EXCEPT !.durable = @ \cup d.work]), {})}

\* TRANSACTION_ABORT has rolled the transaction back, ERROR leaves it as it
\* is; a query may find nothing, and BEGIN in a transaction or COMMIT outside
\* of one may be refused.
NotDone(d, s) ==
  {Served(Answer("abort", 0), Ended(d), {"abort"}),
   Served(Answer("error", 0), d, {"error"})}
  \cup (IF s.op \in {"select", "report"}
        THEN {Served(Answer("none", s.cols), d, {"empty"})} ELSE {})
  \cup (IF (s.op = "begin" /\ d.session = "open") \/ (s.op = "commit" /\ d.session = "auto")
        THEN {Served(Answer("error", 0), d, {})} ELSE {})

\* ROLLBACK ends the transaction; without one it may be refused.
RolledBack(d) ==
  {Served(Answer("command", 0), Ended(d), {})}
  \cup (IF d.session = "auto" THEN {Served(Answer("error", 0), d, {})} ELSE {})

---------------------------------------------------------------------------
(* A call on connection c: what it returns and leaves behind. *)

Outcome(result, c, d, fault) ==
  [result |-> result, conn |-> c, db |-> d, fault |-> fault]

\* What a call makes of a frame or a response of which an earlier call has
\* read a part (ExecStream): an error, a wait for what never comes, or any
\* answer, with any columns, of which one and more than anybody reads will do.
Garbled ==
  {Failure("protocol"), Failure("timeout")}
  \cup {Answer(kind, 0) : kind \in {"command", "abort", "error"}}
  \cup {Answer(kind, n) : kind \in {"rows", "null", "none"}, n \in {1, 100}}

\* The call reads the oldest answer there is, which is its own if no other
\* call gave up, or something garbled, which may swallow any of what follows.
Reads(c, q, d, fault) ==
  {Outcome(Head(q), [c EXCEPT !.late = Tail(q)], d, fault)}
  \cup IF c.late = <<>> THEN {}
       ELSE {Outcome(g, [c EXCEPT !.late = SubSeq(q, k + 1, Len(q))], d, fault) :
               g \in Garbled, k \in 0..Len(q)}

\* The server gets the request and takes it to e; then the answer arrives,
\* or 300 seconds pass, or the connection breaks, and the session with it.
Answered(c, e) ==
  LET q == Append(c.late, e.answer)
  IN  Reads(c, q, e.db, e.fault)
      \cup {Outcome(Failure("timeout"),
                    [c EXCEPT !.late = q, !.lost = TRUE], e.db,
                    e.fault \cup {"timeout"}),
            Outcome(Failure("connection"),
                    [c EXCEPT !.late = <<>>, !.link = "dead"], Ended(e.db),
                    e.fault \cup {"drop"})}

\* The connection is found broken before the request reaches the server;
\* what had arrived of the answers can still be read.
Broken(c, d) ==
  {Outcome(Failure("connection"), [c EXCEPT !.link = "dead"], Ended(d), {"drop"})}

\* On a connection known to be broken nothing reaches the server.
Dead(c, d) ==
  {Outcome(Failure("connection"), c, d, {})}
  \cup IF c.late = <<>> THEN {} ELSE Reads(c, c.late, d, {})

Outcomes(c, d, served) ==
  IF c.link = "dead" THEN Dead(c, d)
  ELSE Broken(c, d) \cup UNION {Answered(c, e) : e \in served}

---------------------------------------------------------------------------
(* The transactions. *)

Current(w) == Program(txn[w])[at[w]]

AtStatement(w, op) ==
  /\ pc[w] = "attempt"
  /\ ~rolling[w]
  /\ Current(w).op = op

Charges(fault) ==
  /\ fault \subseteq Faults
  /\ faults + Cardinality(fault) <= MaxFaults
  /\ faults' = faults + Cardinality(fault)

\* One call of worker w comes out as x.
Happens(w, x) ==
  /\ Charges(x.fault)
  /\ Len(x.conn.late) <= MaxLate
  /\ conn' = [conn EXCEPT ![w] = x.conn]
  /\ db' = [db EXCEPT ![w] = x.db]

\* The RmdbClient is dropped; the server ends the session d.
Hangs(w, d) ==
  /\ conn' = [conn EXCEPT ![w].link = "none", ![w].late = <<>>]
  /\ db' = [db EXCEPT ![w] = Ended(d)]

\* cursor.execute or execute_update of the statement at hand.
Execute(w) ==
  Outcomes(conn[w], db[w], Done(db[w], Current(w), at[w]) \cup NotDone(db[w], Current(w)))

GoesTo(w, i) ==
  /\ at' = [at EXCEPT ![w] = i]
  /\ UNCHANGED <<rolling, execVars>>

GoesToRollback(w) ==
  /\ rolling' = [rolling EXCEPT ![w] = TRUE]
  /\ UNCHANGED <<at, execVars>>

Returns(w, v) == AttemptEnds(w, v) /\ UNCHANGED <<at, rolling>>

Failed(x) == x.result.kind \in Errors

\* QueryResult::is_empty: no row, or COMMAND_OK to a query.
NoRows(x) == x.result.kind \in {"none", "command"}

\* rows[0][reads - 1] of a row that answers another query.
OutOfRange(w, x) ==
  x.result.kind \in {"rows", "null"} /\ x.result.cols < Current(w).reads

\* mutant: the executor never reconnects
AnyError(x) == "error"

\* An error of BEGIN is the only one the executor sees.
Kind(x) == IF x.result.kind \in {"connection", "protocol"} THEN "lost" ELSE "error"

\* mutant: an error of BEGIN is ignored
BeginsAnyway(w) ==
  /\ AtStatement(w, "begin")
  /\ \E x \in Execute(w) : Happens(w, x) /\ GoesTo(w, at[w] + 1)
  /\ UNCHANGED <<acked, blind>>

Begins(w) ==
  /\ AtStatement(w, "begin")
  /\ \E x \in Execute(w) :
       /\ Happens(w, x)
       /\ \/ ~Failed(x) /\ GoesTo(w, at[w] + 1)
          \/ Failed(x) /\ Returns(w, Kind(x))
  /\ UNCHANGED <<acked, blind>>

\* mutant: the transaction returns without a ROLLBACK
SelectsOrReturns(w) ==
  /\ AtStatement(w, "select")
  /\ \E x \in Execute(w) :
       /\ ~OutOfRange(w, x)
       /\ Happens(w, x)
       /\ \/ (Failed(x) \/ NoRows(x)) /\ Returns(w, "failed")
          \/ ~(Failed(x) \/ NoRows(x)) /\ GoesTo(w, at[w] + 1)
  /\ UNCHANGED <<acked, blind>>

\* mutant: an error is taken for an answer without effect, as in Delivery
SelectsOrSkips(w) ==
  /\ AtStatement(w, "select")
  /\ \E x \in Execute(w) :
       /\ ~OutOfRange(w, x)
       /\ Happens(w, x)
       /\ \/ NoRows(x) /\ GoesToRollback(w)
          \/ ~NoRows(x) /\ GoesTo(w, at[w] + 1)
  /\ UNCHANGED <<acked, blind>>

Selects(w) ==
  /\ AtStatement(w, "select")
  /\ \E x \in Execute(w) :
       /\ ~OutOfRange(w, x)
       /\ Happens(w, x)
       /\ \/ (Failed(x) \/ NoRows(x)) /\ GoesToRollback(w)
          \/ ~(Failed(x) \/ NoRows(x)) /\ GoesTo(w, at[w] + 1)
  /\ UNCHANGED <<acked, blind>>

\* The row has no such column: index out of bounds.
Panics(w) ==
  /\ AtStatement(w, "select")
  /\ \E x \in Execute(w) : OutOfRange(w, x) /\ Charges(x.fault) /\ Hangs(w, x.db)
  /\ Panic(w)
  /\ UNCHANGED <<at, rolling, acked, blind>>

\* Only an integer in the first cell is an order; the cell of another query's
\* row may not be one.
FindsOldest(w) ==
  /\ AtStatement(w, "min")
  /\ \E x \in Execute(w) :
       /\ Happens(w, x)
       /\ \/ x.result.kind = "rows" /\ GoesTo(w, at[w] + 1)
          \/ (x.result.kind # "rows" \/ x.conn.lost) /\ GoesTo(w, NextRound(at[w]))
       /\ blind' = [blind EXCEPT ![w] = @ \/ Failed(x)]
  /\ UNCHANGED acked

\* mutant: an error of the statement is ignored
WritesAnyway(w) ==
  /\ AtStatement(w, "write")
  /\ \E x \in Execute(w) :
       /\ Happens(w, x)
       /\ GoesTo(w, at[w] + 1)
       /\ acked' = [acked EXCEPT ![w] = @ \cup {at[w]}]
  /\ UNCHANGED blind

DoesWrite(w) ==
  /\ AtStatement(w, "write")
  /\ \E x \in Execute(w) :
       /\ Happens(w, x)
       /\ \/ Failed(x) /\ GoesToRollback(w) /\ UNCHANGED acked
          \/ /\ ~Failed(x)
             /\ GoesTo(w, at[w] + 1)
             /\ acked' = [acked EXCEPT ![w] = @ \cup {at[w]}]
  /\ UNCHANGED blind

\* mutant: an error is retried inside the transaction
ReportsAgain(w) ==
  /\ AtStatement(w, "report")
  /\ \E x \in Execute(w) :
       /\ Happens(w, x)
       /\ \/ Failed(x) /\ GoesTo(w, at[w])
          \/ ~Failed(x) /\ Returns(w, IF NoRows(x) THEN "failed" ELSE "ok")
  /\ UNCHANGED <<acked, blind>>

\* Neither an error nor an empty answer leads to a ROLLBACK here.
Reports(w) ==
  /\ AtStatement(w, "report")
  /\ \E x \in Execute(w) :
       /\ Happens(w, x)
       /\ Returns(w, IF Failed(x) \/ NoRows(x) THEN "failed" ELSE "ok")
  /\ UNCHANGED <<acked, blind>>

Commits(w) ==
  /\ AtStatement(w, "commit")
  /\ \E x \in Execute(w) :
       /\ Happens(w, x)
       /\ \/ Failed(x) /\ GoesToRollback(w)
          \/ ~Failed(x) /\ Returns(w, "ok")
  /\ UNCHANGED <<acked, blind>>

\* What comes of ROLLBACK is not looked at.
RollsBack(w) ==
  /\ pc[w] = "attempt"
  /\ rolling[w]
  /\ \E x \in Outcomes(conn[w], db[w], RolledBack(db[w])) : Happens(w, x)
  /\ AttemptEnds(w, "failed")
  /\ rolling' = [rolling EXCEPT ![w] = FALSE]
  /\ UNCHANGED <<at, acked, blind>>

ProgramStep(w) ==
  \/ Begins(w) \/ Selects(w) \/ Panics(w) \/ FindsOldest(w) \/ DoesWrite(w)
  \/ Reports(w) \/ Commits(w) \/ RollsBack(w)

---------------------------------------------------------------------------
(* The executor's own steps, and what they do to connections. *)

\* A new connection replaces the old one, whose session the server ends.
Opens(w) ==
  /\ Connect(w) \/ Reconnect(w)
  /\ conn' = [conn EXCEPT ![w] = NewConn("up")]
  /\ db' = [db EXCEPT ![w] = Ended(@)]
  /\ UNCHANGED <<at, rolling, acked, blind, faults>>

OpenFails(w) ==
  /\ ConnectFails(w) \/ ReconnectFails(w)
  /\ Charges({"refuse"})
  /\ Hangs(w, db[w])
  /\ UNCHANGED <<at, rolling, acked, blind>>

\* The task ends and drops its cursor.
Finishes(w) ==
  /\ LoopEnds(w)
  /\ Hangs(w, db[w])
  /\ UNCHANGED <<at, rolling, acked, blind, faults>>

\* execute_transaction is called: its program from the beginning.
StartsAttempt(w) ==
  /\ StartAttempt(w)
  /\ at' = [at EXCEPT ![w] = 1]
  /\ db' = [db EXCEPT ![w].durable = {}]
  /\ acked' = [acked EXCEPT ![w] = {}]
  /\ blind' = [blind EXCEPT ![w] = FALSE]
  /\ UNCHANGED <<rolling, conn, faults>>

ExecutorStep(w) ==
  /\ \/ NextTransaction(w) \/ StopRetrying(w)
     \/ Committed(w) \/ Aborted(w) \/ Lost(w)
  /\ UNCHANGED attemptVars

Step(w) ==
  \/ ProgramStep(w) \/ Opens(w) \/ OpenFails(w) \/ Finishes(w)
  \/ StartsAttempt(w) \/ ExecutorStep(w)

OtherTasks == Others /\ UNCHANGED attemptVars

Next == (\E w \in Workers : Step(w)) \/ OtherTasks

Spec == Init /\ [][Next]_vars

\* As in Executor; faults are finitely many.
Fairness ==
  /\ \A w \in Workers : WF_vars(Step(w))
  /\ WF_vars(ProgressEnds /\ UNCHANGED attemptVars)
  /\ WF_vars(JoinWorkers /\ UNCHANGED attemptVars)
  /\ WF_vars(Report /\ UNCHANGED attemptVars)

FairSpec == Spec /\ Fairness

---------------------------------------------------------------------------
(* Properties. *)

Answers  == [kind : {"command", "rows", "null", "none", "abort", "error"}, cols : Nat]
Links    == {"none", "up", "dead"}
Conns    == [link : Links, late : Seq(Answers), lost : BOOLEAN]
Sessions == [session : {"auto", "open"}, work : SUBSET Nat, durable : SUBSET Nat]

TypeOK ==
  /\ ExecTypeOK
  /\ at \in [Workers -> Nat]
  /\ \A w \in Workers : pc[w] = "attempt" => at[w] \in 1..Last(txn[w])
  /\ rolling \in [Workers -> BOOLEAN]
  /\ conn \in [Workers -> Conns]
  /\ db \in [Workers -> Sessions]
  /\ acked \in [Workers -> SUBSET Nat]
  /\ blind \in [Workers -> BOOLEAN]
  /\ faults \in 0..MaxFaults

\* No call of the connection timed out and no error was ignored.
Sound(w) == ~conn[w].lost /\ ~blind[w]

\* What the executor counts as committed is durable, exactly as far as the
\* server acknowledged it: Ok(true) never stands for work that was rolled
\* back, skipped or left in an open transaction.
CountedIsDurable ==
  \A w \in Workers :
    pc[w] = "verdict" /\ verdict[w] = "ok" /\ Sound(w) =>
      /\ db[w].durable = acked[w]
      /\ txn[w] \in {"NewOrder", "Payment"} => acked[w] = Writes(txn[w])

\* At every moment, also when an attempt fails half-way, NewOrder and Payment
\* have all of their writes durable or none, and Delivery those of whole
\* districts.
AttemptIsAtomic ==
  \A w \in Workers : pc[w] \in {"attempt", "verdict"} /\ Sound(w) =>
    \A unit \in Units(txn[w]) : unit \cap db[w].durable \in {{}, unit}

\* An attempt that is reported as failed, and so will be repeated, left
\* nothing behind, unless the connection broke while its COMMIT was answered.
FailedLeavesNothing ==
  \A w \in Workers :
    pc[w] = "verdict" /\ verdict[w] # "ok" /\ Sound(w) /\ db[w].durable # {} =>
      conn[w].link = "dead" /\ Current(w).op = "commit"

\* No attempt begins in, or leaves behind, an open transaction: every way out
\* of a program passes COMMIT, ROLLBACK or the end of the session.
NothingLeftOpen ==
  \A w \in Workers :
    pc[w] \in {"verdict", "retry", "next"} /\ ~conn[w].lost =>
      db[w].session = "auto" /\ db[w].work = {}

\* Statement by statement, the executor does what Executor says, and every
\* attempt ends: no statement, ROLLBACK or error path keeps a worker from
\* coming back to the retry loop, where it sees Ctrl-C.
ImplementsExecutor == ExecSpec
ImplementsFairExecutor == ExecFairSpec

Over(w) == pc[w] \in Ends

\* A transaction that returns no connection error, on a dead connection.
Stuck(w) == conn[w].link = "dead" /\ txn[w] \in ReadOnly

\* With finitely many faults every worker gets through its transactions,
\* unless for ever it repeats a read-only one on a dead connection, or uses a
\* connection on which a call timed out: the retry loop and the reconnects
\* recover from everything else.
WorkersFinish ==
  \A w \in Workers : <>Over(w) \/ <>[](Stuck(w) \/ conn[w].lost)

\* A broken connection is not used for ever: executor.rs says that it is
\* rebuilt, whatever transaction found it broken.
DeadIsReplaced ==
  \A w \in Workers : conn[w].link = "dead" ~> conn[w].link # "dead" \/ Over(w)

\* The transactions send a request only on a connection with none outstanding.
OneOutstanding ==
  [][\A w \in Workers : ProgramStep(w) => conn[w].late = <<>>]_vars

\* When a Delivery is over, counted or not, what it did to a district is all
\* durable or all undone, even if it skipped another district.
DeliveryIsAtomic ==
  \A w \in Workers :
    pc[w] = "verdict" /\ txn[w] = "Delivery" /\ ~conn[w].lost =>
      \A unit \in Units("Delivery") : unit \cap db[w].durable \in {{}, unit}

---------------------------------------------------------------------------
(* The inductive invariant behind NothingLeftOpen. *)

\* Answers are outstanding only after a call gave up.
LateShape == \A w \in Workers : conn[w].late # <<>> => conn[w].lost

\* A transaction is open only between the BEGIN of an attempt and its end.
SessionShape ==
  \A w \in Workers :
    /\ db[w].session = "auto" => db[w].work = {}
    /\ conn[w].link = "dead" => db[w].session = "auto"
    /\ db[w].session = "open" /\ ~conn[w].lost =>
         /\ pc[w] = "attempt"
         /\ ~rolling[w] => Current(w).op \notin {"begin", "report"}

IInv == ExecIInv /\ TypeOK /\ LateShape /\ SessionShape

---------------------------------------------------------------------------
(* The inductive invariant behind the properties of an attempt's writes.    *)

\* Of each unit, `writes` has all statements or none.
Whole(type, writes) ==
  \A unit \in Units(type) : unit \cap writes \in {{}, unit}

\* The same before statement i: none of a unit or all that have come by then,
\* and all of them of a unit that is not over.
WholeBefore(type, i, writes) ==
  /\ writes \subseteq {j \in Writes(type) : j < i}
  /\ \A unit \in Units(type) :
       LET before == {j \in unit : j < i}
       IN  /\ unit \cap writes \in {{}, before}
           /\ before \notin {{}, unit} => unit \cap writes = before
  /\ type \in {"NewOrder", "Payment"} => writes = {j \in Writes(type) : j < i}

\* A running attempt holds what was acknowledged in its open transaction; one
\* that failed left nothing, or all of it when COMMIT broke the connection;
\* one that succeeded has made durable what was acknowledged.
WorkShape(w) ==
  Sound(w) =>
    /\ pc[w] = "attempt" /\ ~rolling[w] =>
         /\ db[w].durable = {} /\ db[w].work = acked[w]
         /\ Current(w).op \in {"begin", "report"} \/ db[w].session = "open"
         /\ WholeBefore(txn[w], at[w], acked[w])
    /\ \/ pc[w] = "attempt" /\ rolling[w]
       \/ pc[w] = "verdict" /\ verdict[w] # "ok"
       => \/ db[w].durable = {}
          \/ /\ Whole(txn[w], db[w].durable)
             /\ conn[w].link = "dead" /\ Current(w).op = "commit"
    /\ pc[w] = "verdict" /\ verdict[w] = "ok" =>
         /\ db[w].durable = acked[w] /\ Whole(txn[w], acked[w])
         /\ txn[w] \in {"NewOrder", "Payment"} => acked[w] = Writes(txn[w])

WorkIInv == IInv /\ \A w \in Workers : WorkShape(w)
=============================================================================
