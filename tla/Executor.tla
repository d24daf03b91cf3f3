------------------------------ MODULE Executor ------------------------------
(***************************************************************************)
(* BenchmarkExecutor::run (src/src/executor.rs): one task per worker, the   *)
(* progress reporter, the Ctrl-C handler and the main task that joins the   *)
(* workers and builds the report.  An attempt of a transaction is one step  *)
(* with any verdict; module Transactions says what happens inside it.       *)
(***************************************************************************)
EXTENDS Naturals, Sequences, FiniteSetsExt

CONSTANTS
  Workers,        \* config.threads tasks
  TxnPerThread,   \* config.transactions
  Mix,            \* the transaction types of positive probability
  MaxAborted      \* bound: total_aborted is counted up to here only

ASSUME WorkersAssumption == IsFiniteSet(Workers)
ASSUME MixFiniteAssumption == IsFiniteSet(Mix)
ASSUME TxnPerThreadAssumption == TxnPerThread \in Nat
ASSUME MaxAbortedAssumption == MaxAborted \in Nat

\* What execute_transaction returns: Ok(true), Ok(false), an Err of kind
\* Connection, Io or Protocol, any other Err.
Verdicts == {"ok", "failed", "lost", "error"}

\* Where a worker's task can end: its loop is over, no connection, a panic.
Ends == {"done", "gone", "panicked"}

VARIABLES
  pc,           \* per worker: its place in the task
  idx,          \* per worker: iterations of its loop that are over
  txn,          \* per worker: the transaction type it executes or executed
  verdict,      \* per worker: what the last attempt returned
  thread_data,  \* per worker: the types of the transactions it committed
  results,      \* thread_results: the vectors pushed, in order
  total_committed, total_aborted, new_order_count, cancelled,
  progress,     \* "running" | "ended"
  main,         \* "joining" | "draining" | "reported"
  report,       \* the BenchmarkResult
  interrupted   \* (history) Ctrl-C was received

counters == <<total_committed, total_aborted, new_order_count>>
loopVars == <<pc, idx, txn, verdict, thread_data, results, counters>>
runVars  == <<cancelled, progress, main, report, interrupted>>
execVars == <<loopVars, runVars>>

Places == {"connecting", "next", "retry", "attempt", "verdict", "reconnecting"}

NoReport == [transactions |-> 0, new_orders |-> 0, breakdown |-> [t \in Mix |-> 0]]

ExecInit ==
  /\ pc = [w \in Workers |-> "connecting"]
  /\ idx = [w \in Workers |-> 0]
  /\ txn \in [Workers -> Mix]
  /\ verdict = [w \in Workers |-> "ok"]
  /\ thread_data = [w \in Workers |-> <<>>]
  /\ results = <<>>
  /\ total_committed = 0
  /\ total_aborted = 0
  /\ new_order_count = 0
  /\ cancelled = FALSE
  /\ progress = "running"
  /\ main = "joining"
  /\ report = NoReport
  /\ interrupted = FALSE

---------------------------------------------------------------------------
(* A worker. *)

Goes(w, place) == pc' = [pc EXCEPT ![w] = place]

Connect(w) ==
  /\ pc[w] = "connecting"
  /\ Goes(w, "next")
  /\ UNCHANGED <<idx, txn, verdict, thread_data, results, counters, runVars>>

\* The task returns before it has anything to push.
ConnectFails(w) ==
  /\ pc[w] = "connecting"
  /\ Goes(w, "gone")
  /\ UNCHANGED <<idx, txn, verdict, thread_data, results, counters, runVars>>

\* mutant: 0..=txn_per_thread
NextOfOneMore(w) ==
  /\ pc[w] = "next"
  /\ idx[w] <= TxnPerThread
  /\ ~cancelled
  /\ \E type \in Mix : txn' = [txn EXCEPT ![w] = type]
  /\ Goes(w, "retry")
  /\ UNCHANGED <<idx, verdict, thread_data, results, counters, runVars>>

\* The head of the for loop.
NextTransaction(w) ==
  /\ pc[w] = "next"
  /\ idx[w] < TxnPerThread
  /\ ~cancelled
  /\ \E type \in Mix : txn' = [txn EXCEPT ![w] = type]
  /\ Goes(w, "retry")
  /\ UNCHANGED <<idx, verdict, thread_data, results, counters, runVars>>

\* The loop is over, or left because of Ctrl-C: the data is pushed.
LoopEnds(w) ==
  /\ pc[w] = "next"
  /\ idx[w] = TxnPerThread \/ cancelled
  /\ results' = Append(results, thread_data[w])
  /\ Goes(w, "done")
  /\ UNCHANGED <<idx, txn, verdict, thread_data, counters, runVars>>

\* mutant: only the for loop looks at the flag
StartRegardless(w) ==
  /\ pc[w] = "retry"
  /\ Goes(w, "attempt")
  /\ UNCHANGED <<idx, txn, verdict, thread_data, results, counters, runVars>>

\* The head of the retry loop.
StartAttempt(w) ==
  /\ pc[w] = "retry"
  /\ ~cancelled
  /\ Goes(w, "attempt")
  /\ UNCHANGED <<idx, txn, verdict, thread_data, results, counters, runVars>>

StopRetrying(w) ==
  /\ pc[w] = "retry"
  /\ cancelled
  /\ idx' = [idx EXCEPT ![w] = @ + 1]
  /\ Goes(w, "next")
  /\ UNCHANGED <<txn, verdict, thread_data, results, counters, runVars>>

\* execute_transaction returns.
AttemptEnds(w, v) ==
  /\ pc[w] = "attempt"
  /\ verdict' = [verdict EXCEPT ![w] = v]
  /\ Goes(w, "verdict")
  /\ UNCHANGED <<idx, txn, thread_data, results, counters, runVars>>

\* execute_transaction panics: the task and its thread_data are gone.
Panic(w) ==
  /\ pc[w] = "attempt"
  /\ Goes(w, "panicked")
  /\ thread_data' = [thread_data EXCEPT ![w] = <<>>]
  /\ UNCHANGED <<idx, txn, verdict, results, counters, runVars>>

Committed(w) ==
  /\ pc[w] = "verdict"
  /\ verdict[w] = "ok"
  /\ total_committed' = total_committed + 1
  /\ new_order_count' = new_order_count + (IF txn[w] = "NewOrder" THEN 1 ELSE 0)
  /\ thread_data' = [thread_data EXCEPT ![w] = Append(@, txn[w])]
  /\ idx' = [idx EXCEPT ![w] = @ + 1]
  /\ Goes(w, "next")
  /\ UNCHANGED <<txn, verdict, results, total_aborted, runVars>>

\* mutant: a failed transaction is given up
GivesUp(w) ==
  /\ pc[w] = "verdict"
  /\ verdict[w] \in {"failed", "error"}
  /\ total_aborted' = IF total_aborted < MaxAborted
                      THEN total_aborted + 1 ELSE total_aborted
  /\ idx' = [idx EXCEPT ![w] = @ + 1]
  /\ Goes(w, "next")
  /\ UNCHANGED <<txn, verdict, thread_data, results, total_committed,
                 new_order_count, runVars>>

\* Ok(false), and the errors that keep the connection.
Aborted(w) ==
  /\ pc[w] = "verdict"
  /\ verdict[w] \in {"failed", "error"}
  /\ total_aborted' = IF total_aborted < MaxAborted
                      THEN total_aborted + 1 ELSE total_aborted
  /\ Goes(w, "retry")
  /\ UNCHANGED <<idx, txn, verdict, thread_data, results, total_committed,
                 new_order_count, runVars>>

\* The errors that do not: the attempt is not counted.
Lost(w) ==
  /\ pc[w] = "verdict"
  /\ verdict[w] = "lost"
  /\ Goes(w, "reconnecting")
  /\ UNCHANGED <<idx, txn, verdict, thread_data, results, counters, runVars>>

Reconnect(w) ==
  /\ pc[w] = "reconnecting"
  /\ Goes(w, "retry")
  /\ UNCHANGED <<idx, txn, verdict, thread_data, results, counters, runVars>>

ReconnectFails(w) ==
  /\ pc[w] = "reconnecting"
  /\ results' = Append(results, thread_data[w])
  /\ Goes(w, "gone")
  /\ UNCHANGED <<idx, txn, verdict, thread_data, counters, runVars>>

Loop(w) ==
  \/ NextTransaction(w) \/ LoopEnds(w) \/ StartAttempt(w) \/ StopRetrying(w)
  \/ Committed(w) \/ Aborted(w) \/ Lost(w)

Attempt(w) == Panic(w) \/ \E v \in Verdicts : AttemptEnds(w, v)

WorkerStep(w) ==
  \/ Connect(w) \/ ConnectFails(w) \/ Loop(w) \/ Attempt(w)
  \/ Reconnect(w) \/ ReconnectFails(w)

---------------------------------------------------------------------------
(* The other tasks. *)

Interrupt ==
  /\ main # "reported"
  /\ ~interrupted
  /\ interrupted' = TRUE
  /\ cancelled' = TRUE
  /\ UNCHANGED <<loopVars, progress, main, report>>

\* The tick of the progress reporter that ends it; the others only log.
ProgressEnds ==
  /\ progress = "running"
  /\ cancelled
  /\ progress' = "ended"
  /\ UNCHANGED <<loopVars, cancelled, main, report, interrupted>>

\* mutant: the report is built when the first worker has been joined
JoinFirst ==
  /\ main = "joining"
  /\ \E w \in Workers : pc[w] \in Ends
  /\ cancelled' = TRUE
  /\ main' = "draining"
  /\ UNCHANGED <<loopVars, progress, report, interrupted>>

\* join_next returned None: every task ended.
JoinWorkers ==
  /\ main = "joining"
  /\ \A w \in Workers : pc[w] \in Ends
  /\ cancelled' = TRUE
  /\ main' = "draining"
  /\ UNCHANGED <<loopVars, progress, report, interrupted>>

\* The entries of type t in the vectors pushed.
Pushed(t) ==
  Cardinality({e \in (1..Len(results)) \X (1..TxnPerThread) :
                 e[2] <= Len(results[e[1]]) /\ results[e[1]][e[2]] = t})

Report ==
  /\ main = "draining"
  /\ progress = "ended"
  /\ report' = [transactions |-> total_committed,
                new_orders   |-> new_order_count,
                breakdown    |-> [t \in Mix |-> Pushed(t)]]
  /\ main' = "reported"
  /\ UNCHANGED <<loopVars, cancelled, progress, interrupted>>

\* run has returned.
Returned == main = "reported" /\ UNCHANGED execVars

Others == Interrupt \/ ProgressEnds \/ JoinWorkers \/ Report \/ Returned

ExecNext == (\E w \in Workers : WorkerStep(w)) \/ Others

ExecSpec == ExecInit /\ [][ExecNext]_execVars

\* Every task is scheduled, and a task that waits for a reply gets one or a
\* timeout; Ctrl-C need not come.
ExecFairness ==
  /\ \A w \in Workers : WF_execVars(WorkerStep(w))
  /\ WF_execVars(ProgressEnds)
  /\ WF_execVars(JoinWorkers)
  /\ WF_execVars(Report)

ExecFairSpec == ExecSpec /\ ExecFairness

---------------------------------------------------------------------------
(* Properties. *)

ExecTypeOK ==
  /\ pc \in [Workers -> Places \cup Ends]
  /\ idx \in [Workers -> 0..TxnPerThread]
  /\ txn \in [Workers -> Mix]
  /\ verdict \in [Workers -> Verdicts]
  /\ thread_data \in [Workers -> Seq(Mix)]
  /\ results \in Seq(Seq(Mix))
  /\ total_committed \in Nat
  /\ total_aborted \in 0..MaxAborted
  /\ new_order_count \in Nat
  /\ cancelled \in BOOLEAN
  /\ progress \in {"running", "ended"}
  /\ main \in {"joining", "draining", "reported"}
  /\ report \in [transactions : Nat, new_orders : Nat, breakdown : [Mix -> Nat]]
  /\ interrupted \in BOOLEAN

Listed(r) == MapThenSumSet(LAMBDA t : r.breakdown[t], Mix)

\* Unless a worker panicked, the transaction mix that is reported lists as many
\* transactions as the total it is a share of, and as many NewOrders as tpmC is
\* computed from: the counters and the vectors are filled by different tasks
\* at different times, and workers may leave early at any of them.
ReportAddsUp ==
  main = "reported" /\ (\A w \in Workers : pc[w] # "panicked") =>
    /\ Listed(report) = report.transactions
    /\ "NewOrder" \in Mix => report.breakdown["NewOrder"] = report.new_orders

\* A run that nobody interrupted and no worker left early commits each worker's
\* share exactly: every transaction is retried until it is counted, once.
QuotaMet ==
  main = "reported" /\ ~interrupted /\ (\A w \in Workers : pc[w] = "done") =>
    report.transactions = Cardinality(Workers) * TxnPerThread

\* What run reads after the join, with relaxed loads and under the mutex, is
\* final: nobody counts or pushes any more.
JoinedIsFinal == [][main # "joining" => UNCHANGED <<counters, results>>]_execVars

\* After Ctrl-C the run ends with a report, whatever the workers were doing.
InterruptStops == interrupted ~> main = "reported"

---------------------------------------------------------------------------
(* The inductive invariant behind QuotaMet and JoinedIsFinal. *)

\* A worker inside its loop has an iteration left.
LoopShape ==
  \A w \in Workers :
    pc[w] \in {"retry", "attempt", "verdict", "reconnecting"} =>
      idx[w] < TxnPerThread

\* main only goes on without running workers.
JoinShape ==
  /\ main # "joining" => \A w \in Workers : pc[w] \in Ends
  /\ cancelled => interrupted \/ main # "joining"

\* The iterations that are over, and what an uninterrupted run makes of them.
Slots == {s \in Workers \X (1..TxnPerThread) : s[2] <= idx[s[1]]}

CountShape ==
  /\ ~interrupted => total_committed = Cardinality(Slots)
  /\ ~interrupted => \A w \in Workers : pc[w] = "done" => idx[w] = TxnPerThread
  /\ main = "reported" => report.transactions = total_committed

ExecIInv == ExecTypeOK /\ LoopShape /\ JoinShape /\ CountShape

(* The inductive invariant behind ReportAddsUp, on top of ExecIInv. *)

\* The transactions with a type in M that are in the vectors pushed, and in the
\* vectors of the workers that still run.
PushedOf(M) ==
  {e \in (1..Len(results)) \X (1..TxnPerThread) :
     e[2] <= Len(results[e[1]]) /\ results[e[1]][e[2]] \in M}

KeptOf(M) ==
  {e \in Workers \X (1..TxnPerThread) :
     /\ pc[e[1]] \notin Ends
     /\ e[2] <= Len(thread_data[e[1]])
     /\ thread_data[e[1]][e[2]] \in M}

InVectors(M) == Cardinality(PushedOf(M)) + Cardinality(KeptOf(M))

\* A worker has no more transactions than iterations, and what was counted is in
\* some vector unless a panic took one away.
VectorShape ==
  /\ \A w \in Workers :
       /\ Len(thread_data[w]) <= idx[w]
       /\ pc[w] = "connecting" => thread_data[w] = <<>>
  /\ (\A w \in Workers : pc[w] # "panicked") =>
       total_committed = InVectors(Mix) /\ new_order_count = InVectors({"NewOrder"})
  /\ main = "reported" =>
       report = [transactions |-> total_committed, new_orders |-> new_order_count,
                 breakdown |-> [t \in Mix |-> Pushed(t)]]
=============================================================================
