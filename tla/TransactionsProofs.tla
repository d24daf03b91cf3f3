------------------------- MODULE TransactionsProofs -------------------------
(***************************************************************************)
(* For any set of workers and any number of transactions: the executor      *)
(* keeps ExecIInv, hence its report is final once the workers are joined,   *)
(* and an uninterrupted run whose workers all finish commits exactly their  *)
(* share.                                                                   *)
(*                                                                          *)
(* For any set of workers, any number of districts and order lines and any  *)
(* faults: the transactions, statement by statement, do what Executor says, *)
(* keep their types, and leave no transaction open on a connection that was *)
(* never out of step; and what an attempt wrote becomes durable as a whole  *)
(* or not at all, as long as no call of its connection timed out and        *)
(* Delivery skipped no error.                                               *)
(***************************************************************************)
EXTENDS Transactions, Sums, SequenceTheorems

---------------------------------------------------------------------------
(* Counting. *)

LEMMA PushedType ==
  ASSUME NEW t, results \in Seq(Seq(Mix))
  PROVE  Pushed(t) \in Nat
<1> DEFINE all == (1..Len(results)) \X (1..TxnPerThread)
           some == {e \in all : e[2] <= Len(results[e[1]]) /\ results[e[1]][e[2]] = t}
<1>1. IsFiniteSet(1..Len(results)) /\ IsFiniteSet(1..TxnPerThread)
  BY FS_Interval, TxnPerThreadAssumption
<1>2. IsFiniteSet(all)
  BY <1>1, FS_Product
<1>3. some \in SUBSET all
  OBVIOUS
<1>4. IsFiniteSet(some)
  <2> HIDE DEF all, some
  <2>1. QED
    BY <1>2, <1>3, FS_Subset
<1>5. Cardinality(some) \in Nat
  <2> HIDE DEF some
  <2>1. QED
    BY <1>4, FS_CardinalityType
<1>6. QED
  BY <1>5 DEF Pushed

LEMMA SlotsFinite == IsFiniteSet(Slots) /\ Cardinality(Slots) \in Nat
<1> DEFINE all == Workers \X (1..TxnPerThread)
<1>1. IsFiniteSet(1..TxnPerThread)
  BY FS_Interval, TxnPerThreadAssumption
<1>2. IsFiniteSet(all)
  BY <1>1, FS_Product, WorkersAssumption
<1>3. Slots \in SUBSET all
  BY DEF Slots
<1>4. IsFiniteSet(Slots)
  <2> HIDE DEF all
  <2>1. QED
    BY <1>2, <1>3, FS_Subset
<1>5. QED
  BY <1>4, FS_CardinalityType

\* The iteration that a commit ends is one more.
LEMMA SlotAdded ==
  ASSUME NEW w \in Workers, idx \in [Workers -> 0..TxnPerThread],
         idx[w] < TxnPerThread, idx' = [idx EXCEPT ![w] = @ + 1]
  PROVE  Cardinality(Slots') = Cardinality(Slots) + 1
<1> DEFINE new == <<w, idx[w] + 1>>
<1>1. idx[w] \in Nat /\ TxnPerThread \in Nat
  BY TxnPerThreadAssumption
<1>2. new \in Workers \X (1..TxnPerThread)
  BY <1>1
<1>3. \A s \in Workers \X (1..TxnPerThread) :
        s[2] <= idx'[s[1]] <=> s[2] <= idx[s[1]] \/ s = new
  <2>1. SUFFICES ASSUME NEW v \in Workers, NEW i \in 1..TxnPerThread
                 PROVE  i <= idx'[v] <=> i <= idx[v] \/ (v = w /\ i = idx[w] + 1)
    OBVIOUS
  <2>2. CASE v = w
    BY <1>1, <2>2
  <2>3. CASE v # w
    BY <2>3
  <2>4. QED
    BY <2>2, <2>3
<1>4. Slots' = Slots \cup {new} /\ new \notin Slots
  <2>1. ~(new[2] <= idx[new[1]])
    BY <1>1
  <2> HIDE DEF new
  <2>2. QED
    BY <1>2, <1>3, <2>1 DEF Slots
<1>5. QED
  <2> HIDE DEF new
  <2>1. QED
    BY <1>4, SlotsFinite, FS_AddElement
---------------------------------------------------------------------------
(* The invariant. *)

LEMMA ExecInvInit == ExecInit => ExecIInv
<1> SUFFICES ASSUME ExecInit PROVE ExecIInv
  OBVIOUS
<1>1. ExecTypeOK
  <2>1. <<>> \in Seq(Mix) /\ <<>> \in Seq(Seq(Mix))
    BY EmptySeq
  <2>2. thread_data \in [Workers -> Seq(Mix)] /\ results \in Seq(Seq(Mix))
    BY <2>1 DEF ExecInit
  <2>3. idx \in [Workers -> 0..TxnPerThread] /\ total_aborted \in 0..MaxAborted
    BY TxnPerThreadAssumption, MaxAbortedAssumption DEF ExecInit
  <2>4. report \in [transactions : Nat, new_orders : Nat, breakdown : [Mix -> Nat]]
    BY DEF ExecInit, NoReport
  <2>5. QED
    BY <2>2, <2>3, <2>4 DEF ExecInit, ExecTypeOK, Verdicts, Places
<1>2. LoopShape /\ JoinShape
  BY DEF ExecInit, LoopShape, JoinShape
<1>3. CountShape
  <2>1. Slots = {}
    BY DEF ExecInit, Slots
  <2>2. Cardinality({}) = 0
    BY FS_EmptySet
  <2>3. QED
    BY <2>1, <2>2 DEF ExecInit, CountShape
<1>4. QED
  BY <1>1, <1>2, <1>3 DEF ExecIInv

\* One lemma for each step of a worker: what it does to the invariant.
LEMMA WorkerInv ==
  ASSUME ExecIInv, NEW w \in Workers, WorkerStep(w)
  PROVE  ExecIInv'
<1> USE DEF Goes
<1>1. /\ pc \in [Workers -> Places \cup Ends]
      /\ idx \in [Workers -> 0..TxnPerThread]
      /\ TxnPerThread \in Nat
      /\ thread_data \in [Workers -> Seq(Mix)]
      /\ total_committed \in Nat
  BY TxnPerThreadAssumption DEF ExecIInv, ExecTypeOK
<1>2. main = "joining" /\ UNCHANGED runVars
  <2>1. pc[w] \notin Ends
    BY DEF WorkerStep, Loop, Attempt, Connect, ConnectFails, NextTransaction,
           LoopEnds, StartAttempt, StopRetrying, Committed, Aborted, Lost,
           AttemptEnds, Panic, Reconnect, ReconnectFails, Ends
  <2>2. main = "joining"
    BY <2>1 DEF ExecIInv, JoinShape
  <2>3. UNCHANGED runVars
    BY DEF WorkerStep, Loop, Attempt, Connect, ConnectFails, NextTransaction,
           LoopEnds, StartAttempt, StopRetrying, Committed, Aborted, Lost,
           AttemptEnds, Panic, Reconnect, ReconnectFails
  <2>4. QED
    BY <2>2, <2>3
<1>3. JoinShape'
  BY <1>2 DEF JoinShape, runVars, ExecIInv
\* The steps that only move the worker.
<1>4. ASSUME UNCHANGED <<idx, thread_data, results, total_committed, new_order_count>>,
             txn' \in [Workers -> Mix],
             verdict' \in [Workers -> Verdicts],
             total_aborted' \in 0..MaxAborted,
             NEW place \in Places \cup {"gone"},
             pc' = [pc EXCEPT ![w] = place],
             place \in {"retry", "attempt", "verdict", "reconnecting"} =>
               idx[w] < TxnPerThread
      PROVE  ExecIInv'
  <2>1. ExecTypeOK'
    BY <1>1, <1>2, <1>4 DEF ExecIInv, ExecTypeOK, runVars, Ends
  <2>2. LoopShape'
    BY <1>1, <1>4 DEF ExecIInv, LoopShape
  <2>3. CountShape'
    BY <1>1, <1>2, <1>4 DEF ExecIInv, CountShape, Slots, runVars, Places
  <2>4. QED
    BY <1>3, <2>1, <2>2, <2>3 DEF ExecIInv
<1>5. /\ txn \in [Workers -> Mix] /\ verdict \in [Workers -> Verdicts]
      /\ total_aborted \in 0..MaxAborted
      /\ results \in Seq(Seq(Mix)) /\ new_order_count \in Nat
  BY DEF ExecIInv, ExecTypeOK
<1>6. CASE Connect(w)
  BY <1>1, <1>4, <1>5, <1>6 DEF Connect, counters, Places
<1>7. CASE ConnectFails(w)
  BY <1>1, <1>4, <1>5, <1>7 DEF ConnectFails, counters, Places
<1>8. CASE NextTransaction(w)
  BY <1>1, <1>4, <1>5, <1>8 DEF NextTransaction, counters, Places
<1>9. CASE StartAttempt(w)
  BY <1>1, <1>4, <1>5, <1>9 DEF StartAttempt, counters, Places, ExecIInv, LoopShape
<1>10. ASSUME NEW v \in Verdicts, AttemptEnds(w, v) PROVE ExecIInv'
  BY <1>1, <1>4, <1>5, <1>10 DEF AttemptEnds, counters, Places, ExecIInv, LoopShape
<1>11. CASE Aborted(w)
  <2>1. total_aborted' \in 0..MaxAborted
    BY <1>5, <1>11, MaxAbortedAssumption DEF Aborted
  <2>2. QED
    BY <1>1, <1>4, <1>5, <1>11, <2>1 DEF Aborted, Places, ExecIInv, LoopShape
<1>12. CASE Lost(w)
  BY <1>1, <1>4, <1>5, <1>12 DEF Lost, counters, Places, ExecIInv, LoopShape
<1>13. CASE Reconnect(w)
  BY <1>1, <1>4, <1>5, <1>13 DEF Reconnect, counters, Places, ExecIInv, LoopShape
<1>14. CASE LoopEnds(w) \/ ReconnectFails(w)
  <2>1. /\ results' = Append(results, thread_data[w])
        /\ UNCHANGED <<idx, txn, verdict, thread_data, counters>>
        /\ pc' \in {[pc EXCEPT ![w] = "done"], [pc EXCEPT ![w] = "gone"]}
        /\ pc'[w] = "done" /\ ~cancelled => idx[w] = TxnPerThread
    BY <1>1, <1>14 DEF LoopEnds, ReconnectFails
  <2>2. results' \in Seq(Seq(Mix))
    BY <1>1, <1>5, <2>1, AppendProperties
  <2>3. ExecTypeOK'
    BY <1>1, <1>2, <1>5, <2>1, <2>2 DEF ExecIInv, ExecTypeOK, runVars, counters, Ends
  <2>4. LoopShape'
    BY <1>1, <2>1 DEF ExecIInv, LoopShape
  <2>5. ~interrupted => ~cancelled
    BY <1>2 DEF ExecIInv, JoinShape
  <2>6. CountShape'
    BY <1>1, <1>2, <2>1, <2>5 DEF ExecIInv, CountShape, Slots, runVars, counters
  <2>7. QED
    BY <1>3, <2>3, <2>4, <2>6 DEF ExecIInv
<1>15. CASE Panic(w)
  <2>1. /\ UNCHANGED <<idx, txn, verdict, results, counters>>
        /\ pc' = [pc EXCEPT ![w] = "panicked"]
        /\ thread_data' = [thread_data EXCEPT ![w] = <<>>]
    BY <1>15 DEF Panic
  <2>2. thread_data' \in [Workers -> Seq(Mix)]
    <3>1. <<>> \in Seq(Mix)
      BY EmptySeq
    <3>2. QED
      BY <1>1, <2>1, <3>1
  <2>3. ExecTypeOK'
    BY <1>1, <1>2, <1>5, <2>1, <2>2 DEF ExecIInv, ExecTypeOK, runVars, counters, Ends
  <2>4. LoopShape'
    BY <1>1, <2>1 DEF ExecIInv, LoopShape
  <2>5. CountShape'
    BY <1>1, <1>2, <2>1 DEF ExecIInv, CountShape, Slots, runVars, counters
  <2>6. QED
    BY <1>3, <2>3, <2>4, <2>5 DEF ExecIInv
<1>16. CASE StopRetrying(w)
  <2>1. /\ UNCHANGED <<txn, verdict, thread_data, results, counters>>
        /\ pc' = [pc EXCEPT ![w] = "next"]
        /\ idx' = [idx EXCEPT ![w] = @ + 1]
        /\ idx[w] < TxnPerThread
        /\ cancelled
    BY <1>16 DEF StopRetrying, ExecIInv, LoopShape
  <2>2. idx' \in [Workers -> 0..TxnPerThread]
    BY <1>1, <2>1
  <2>3. ExecTypeOK'
    BY <1>1, <1>2, <1>5, <2>1, <2>2
       DEF ExecIInv, ExecTypeOK, runVars, counters, Places
  <2>4. LoopShape'
    BY <1>1, <2>1 DEF ExecIInv, LoopShape
  <2>5. interrupted' /\ main' = "joining"
    BY <1>2, <2>1 DEF ExecIInv, JoinShape, runVars
  <2>6. CountShape'
    BY <2>5 DEF CountShape
  <2>7. QED
    BY <1>3, <2>3, <2>4, <2>6 DEF ExecIInv
<1>17. CASE Committed(w)
  <2>1. /\ UNCHANGED <<txn, verdict, results, total_aborted>>
        /\ pc' = [pc EXCEPT ![w] = "next"]
        /\ idx' = [idx EXCEPT ![w] = @ + 1]
        /\ idx[w] < TxnPerThread
        /\ total_committed' = total_committed + 1
        /\ thread_data' = [thread_data EXCEPT ![w] = Append(@, txn[w])]
    BY <1>17 DEF Committed, ExecIInv, LoopShape
  <2>2. idx' \in [Workers -> 0..TxnPerThread]
    BY <1>1, <2>1
  <2>3. new_order_count' \in Nat
    BY <1>5, <1>17 DEF Committed
  <2>4. thread_data' \in [Workers -> Seq(Mix)]
    <3>1. Append(thread_data[w], txn[w]) \in Seq(Mix)
      BY <1>1, <1>5, AppendProperties
    <3>2. QED
      BY <1>1, <2>1, <3>1
  <2>5. ExecTypeOK'
    BY <1>1, <1>2, <1>5, <2>1, <2>2, <2>3, <2>4
       DEF ExecIInv, ExecTypeOK, runVars, Places
  <2>6. LoopShape'
    BY <1>1, <2>1 DEF ExecIInv, LoopShape
  <2>7. CountShape'
    <3>1. Cardinality(Slots') = Cardinality(Slots) + 1
      BY <1>1, <2>1, SlotAdded
    <3>2. ~interrupted => \A v \in Workers : pc'[v] = "done" => idx'[v] = TxnPerThread
      BY <1>1, <2>1 DEF ExecIInv, CountShape
    <3>3. main' # "reported" /\ interrupted' = interrupted
      BY <1>2 DEF runVars
    <3>4. ~interrupted => total_committed' = Cardinality(Slots')
      BY <2>1, <3>1 DEF ExecIInv, CountShape
    <3>5. QED
      BY <3>2, <3>3, <3>4 DEF CountShape
  <2>8. QED
    BY <1>3, <2>5, <2>6, <2>7 DEF ExecIInv
<1>18. QED
  BY <1>6, <1>7, <1>8, <1>9, <1>10, <1>11, <1>12, <1>13, <1>14, <1>15, <1>16,
     <1>17 DEF WorkerStep, Loop, Attempt

\* The other tasks leave the workers alone.
LEMMA OthersInv ==
  ASSUME ExecIInv, Others
  PROVE  ExecIInv'
<1> USE DEF ExecIInv
<1>1. UNCHANGED loopVars
  BY DEF Others, Interrupt, ProgressEnds, JoinWorkers, Report, Returned, execVars
<1>2. LoopShape'
  BY <1>1 DEF LoopShape, loopVars
<1>3. Cardinality(Slots') = Cardinality(Slots)
  BY <1>1 DEF Slots, loopVars
<1>4. CASE Interrupt
  BY <1>1, <1>2, <1>3, <1>4
     DEF Interrupt, ExecTypeOK, JoinShape, CountShape, loopVars, counters
<1>5. CASE ProgressEnds
  BY <1>1, <1>2, <1>3, <1>5
     DEF ProgressEnds, ExecTypeOK, JoinShape, CountShape, loopVars, counters
<1>6. CASE JoinWorkers
  BY <1>1, <1>2, <1>3, <1>6
     DEF JoinWorkers, ExecTypeOK, JoinShape, CountShape, loopVars, counters
<1>7. CASE Report
  <2>1. \A t \in Mix : Pushed(t) \in Nat
    BY PushedType DEF ExecTypeOK
  <2>2. report' \in [transactions : Nat, new_orders : Nat, breakdown : [Mix -> Nat]]
    BY <1>7, <2>1 DEF Report, ExecTypeOK
  <2>3. ExecTypeOK'
    BY <1>1, <1>7, <2>2 DEF Report, ExecTypeOK, loopVars, counters
  <2>4. JoinShape'
    BY <1>1, <1>7 DEF Report, JoinShape, loopVars
  <2>5. CountShape'
    BY <1>1, <1>3, <1>7 DEF Report, CountShape, loopVars, counters
  <2>6. QED
    BY <1>2, <2>3, <2>4, <2>5
<1>8. CASE Returned
  BY <1>1, <1>2, <1>3, <1>8
     DEF Returned, execVars, runVars, ExecTypeOK, JoinShape, CountShape, loopVars, counters
<1>9. QED
  BY <1>4, <1>5, <1>6, <1>7, <1>8 DEF Others

LEMMA ExecInvStep == ExecIInv /\ [ExecNext]_execVars => ExecIInv'
<1> SUFFICES ASSUME ExecIInv, [ExecNext]_execVars
             PROVE  ExecIInv'
  OBVIOUS
<1>1. ASSUME NEW w \in Workers, WorkerStep(w) PROVE ExecIInv'
  BY <1>1, WorkerInv
<1>2. CASE Others
  BY <1>2, OthersInv
<1>3. CASE UNCHANGED execVars
  BY <1>3 DEF execVars, loopVars, runVars, counters, ExecIInv, ExecTypeOK,
              LoopShape, JoinShape, CountShape, Slots
<1>4. QED
  BY <1>1, <1>2, <1>3 DEF ExecNext

\* The executor keeps its inductive invariant.
THEOREM ExecInvariantHolds == ExecSpec => []ExecIInv
<1>1. QED
  BY ExecInvInit, ExecInvStep, PTL DEF ExecSpec

---------------------------------------------------------------------------
(* What follows from it. *)

\* Every variable of the executor keeps its type; no worker counts past
\* txn_per_thread, and report is a report.
THEOREM ExecTypeCorrect == ExecSpec => []ExecTypeOK
<1>1. ExecIInv => ExecTypeOK
  BY DEF ExecIInv
<1>2. QED
  BY <1>1, ExecInvariantHolds, PTL

LEMMA FullSlots ==
  ASSUME ExecTypeOK, \A w \in Workers : idx[w] = TxnPerThread
  PROVE  Cardinality(Slots) = Cardinality(Workers) * TxnPerThread
<1>1. Slots = Workers \X (1..TxnPerThread)
  BY TxnPerThreadAssumption DEF Slots
<1>2. IsFiniteSet(1..TxnPerThread) /\ Cardinality(1..TxnPerThread) = TxnPerThread
  BY FS_Interval, TxnPerThreadAssumption
<1>3. Cardinality(Workers \X (1..TxnPerThread))
        = Cardinality(Workers) * Cardinality(1..TxnPerThread)
  BY <1>2, WorkersAssumption, FS_Product
<1>4. QED
  BY <1>1, <1>2, <1>3

\* A run that nobody interrupted and no worker left early reports exactly
\* threads * txn_per_thread committed transactions (executor.rs, run).
THEOREM QuotaHolds == ExecSpec => []QuotaMet
<1>1. ExecIInv => QuotaMet
  <2> SUFFICES ASSUME ExecIInv, main = "reported", ~interrupted,
                      \A w \in Workers : pc[w] = "done"
               PROVE  report.transactions = Cardinality(Workers) * TxnPerThread
    BY DEF QuotaMet
  <2>1. \A w \in Workers : idx[w] = TxnPerThread
    BY DEF ExecIInv, CountShape
  <2>2. Cardinality(Slots) = Cardinality(Workers) * TxnPerThread
    BY <2>1, FullSlots DEF ExecIInv
  <2>3. QED
    BY <2>2 DEF ExecIInv, CountShape
<1>2. QED
  BY <1>1, ExecInvariantHolds, PTL

\* The counters that run loads with Ordering::Relaxed, and the vectors it
\* takes, after the workers are joined no longer change.
THEOREM JoinedIsFinalHolds == ExecSpec => JoinedIsFinal
<1>1. ExecIInv /\ [ExecNext]_execVars
        => [main # "joining" => UNCHANGED <<counters, results>>]_execVars
  <2> SUFFICES ASSUME ExecIInv, ExecNext, main # "joining"
               PROVE  UNCHANGED <<counters, results>>
    BY DEF execVars
  <2>1. ASSUME NEW w \in Workers, WorkerStep(w) PROVE FALSE
    <3>1. pc[w] \in Ends
      BY DEF ExecIInv, JoinShape
    <3>2. pc[w] \notin Ends
      BY <2>1 DEF WorkerStep, Loop, Attempt, Connect, ConnectFails, NextTransaction,
                  LoopEnds, StartAttempt, StopRetrying, Committed, Aborted, Lost,
                  AttemptEnds, Panic, Reconnect, ReconnectFails, Ends
    <3>3. QED
      BY <3>1, <3>2
  <2>2. CASE Others
    BY <2>2 DEF Others, Interrupt, ProgressEnds, JoinWorkers, Report, Returned,
                execVars, loopVars
  <2>3. QED
    BY <2>1, <2>2 DEF ExecNext
<1>2. QED
  BY <1>1, ExecInvariantHolds, PTL DEF ExecSpec, JoinedIsFinal

---------------------------------------------------------------------------
(* The vectors that the workers fill and push. *)

LEMMA VectorsFinite ==
  ASSUME NEW M, results \in Seq(Seq(Mix))
  PROVE  /\ IsFiniteSet(PushedOf(M)) /\ Cardinality(PushedOf(M)) \in Nat
         /\ IsFiniteSet(KeptOf(M)) /\ Cardinality(KeptOf(M)) \in Nat
<1> DEFINE slots  == (1..Len(results)) \X (1..TxnPerThread)
           places == Workers \X (1..TxnPerThread)
<1>1. IsFiniteSet(1..Len(results)) /\ IsFiniteSet(1..TxnPerThread)
  BY FS_Interval, TxnPerThreadAssumption
<1>2. IsFiniteSet(slots) /\ IsFiniteSet(places)
  BY <1>1, FS_Product, WorkersAssumption
<1>3. PushedOf(M) \in SUBSET slots /\ KeptOf(M) \in SUBSET places
  BY DEF PushedOf, KeptOf
<1> HIDE DEF slots, places
<1>4. IsFiniteSet(PushedOf(M)) /\ IsFiniteSet(KeptOf(M))
  BY <1>2, <1>3, FS_Subset
<1>5. QED
  BY <1>4, FS_CardinalityType

\* A worker that only moves keeps its vector.
LEMMA VectorMoves ==
  ASSUME VectorShape, NEW w \in Workers, NEW place,
         main = "joining" /\ main' = main,
         pc \in [Workers -> Places \cup Ends],
         idx \in [Workers -> 0..TxnPerThread], idx' \in [Workers -> 0..TxnPerThread],
         \A v \in Workers : idx[v] <= idx'[v],
         thread_data \in [Workers -> Seq(Mix)],
         UNCHANGED <<thread_data, results, total_committed, new_order_count>>,
         pc' = [pc EXCEPT ![w] = place], pc[w] \notin Ends,
         place \notin {"connecting", "panicked", "done"},
         place = "gone" => thread_data[w] = <<>>
  PROVE  VectorShape'
<1> USE DEF VectorShape, Ends
<1>1. \A M : PushedOf(M)' = PushedOf(M)
  BY DEF PushedOf
<1>2. \A v \in Workers, i \in 1..TxnPerThread :
         i <= Len(thread_data[v]) => (pc'[v] \in Ends <=> pc[v] \in Ends)
  <2> SUFFICES ASSUME NEW v \in Workers, NEW i \in 1..TxnPerThread,
                      i <= Len(thread_data[v])
               PROVE  pc'[v] \in Ends <=> pc[v] \in Ends
    OBVIOUS
  <2>1. CASE v # w
    BY <2>1
  <2>2. CASE v = w
    <3>1. thread_data[w] # <<>>
      BY <2>2, TxnPerThreadAssumption
    <3>2. QED
      BY <2>2, <3>1
  <2>3. QED
    BY <2>1, <2>2
<1>3. \A M : KeptOf(M)' = KeptOf(M)
  BY <1>2 DEF KeptOf
<1>4. \A M : InVectors(M)' = InVectors(M)
  BY <1>1, <1>3 DEF InVectors
<1>5. \A v \in Workers : /\ Len(thread_data[v])' <= idx'[v]
                         /\ pc'[v] = "connecting" => thread_data'[v] = <<>>
  <2>1. \A v \in Workers : Len(thread_data[v]) \in Nat /\ idx[v] \in Nat /\ idx'[v] \in Nat
    OBVIOUS
  <2>2. QED
    BY <2>1
<1>6. (\A v \in Workers : pc'[v] # "panicked") => (\A v \in Workers : pc[v] # "panicked")
  OBVIOUS
<1>7. main' # "reported"
  OBVIOUS
<1>8. QED
  BY <1>4, <1>5, <1>6, <1>7

\* A vector that is pushed goes from those of the workers to the others.
LEMMA VectorPushed ==
  ASSUME VectorShape, NEW w \in Workers, NEW place \in {"done", "gone"},
         main = "joining" /\ main' = main,
         pc \in [Workers -> Places \cup Ends],
         thread_data \in [Workers -> Seq(Mix)], results \in Seq(Seq(Mix)),
         UNCHANGED <<idx, thread_data, total_committed, new_order_count>>,
         results' = Append(results, thread_data[w]),
         pc' = [pc EXCEPT ![w] = place], pc[w] \notin Ends
  PROVE  VectorShape'
<1> USE DEF VectorShape, Ends
<1> DEFINE new == Len(results) + 1
           Ix(M) == {i \in 1..TxnPerThread :
                       i <= Len(thread_data[w]) /\ thread_data[w][i] \in M}
<1>1. results' \in Seq(Seq(Mix)) /\ Len(results') = new /\ results'[new] = thread_data[w]
      /\ \A i \in 1..Len(results) : results'[i] = results[i]
  BY AppendProperties
<1>2. Len(results) \in Nat
  OBVIOUS
<1>3. ASSUME NEW M PROVE InVectors(M)' = InVectors(M)
  <2>1. PushedOf(M)' = PushedOf(M) \cup ({new} \X Ix(M))
    <3>1. 1..new = (1..Len(results)) \cup {new} /\ new \notin 1..Len(results)
      BY <1>2
    <3>2. PushedOf(M)' = {e \in (1..new) \X (1..TxnPerThread) :
                            e[2] <= Len(results'[e[1]]) /\ results'[e[1]][e[2]] \in M}
      BY <1>1 DEF PushedOf
    <3>3. \A i \in 1..new, j \in 1..TxnPerThread :
             <<i, j>> \in PushedOf(M)' <=> <<i, j>> \in PushedOf(M) \cup ({new} \X Ix(M))
      BY <1>1, <3>1, <3>2 DEF PushedOf
    <3>4. PushedOf(M)' \subseteq (1..new) \X (1..TxnPerThread)
      BY <3>2
    <3>5. PushedOf(M) \cup ({new} \X Ix(M)) \subseteq (1..new) \X (1..TxnPerThread)
      BY <3>1 DEF PushedOf
    <3> HIDE DEF Ix, new
    <3>6. QED
      BY <3>3, <3>4, <3>5
  <2>2. PushedOf(M) \cap ({new} \X Ix(M)) = {}
    BY <1>2 DEF PushedOf
  <2>3. KeptOf(M) = KeptOf(M)' \cup ({w} \X Ix(M))
    BY DEF KeptOf, Places
  <2>4. KeptOf(M)' \cap ({w} \X Ix(M)) = {}
    BY DEF KeptOf
  <2>5. IsFiniteSet(Ix(M))
    <3>1. IsFiniteSet(1..TxnPerThread)
      BY FS_Interval, TxnPerThreadAssumption
    <3>2. Ix(M) \in SUBSET (1..TxnPerThread)
      OBVIOUS
    <3> HIDE DEF Ix
    <3>3. QED
      BY <3>1, <3>2, FS_Subset
  <2> HIDE DEF Ix, new
  <2>6. Cardinality(Ix(M)) \in Nat
    BY <2>5, FS_CardinalityType
  <2>7. \A x : /\ IsFiniteSet({x} \X Ix(M))
               /\ Cardinality({x} \X Ix(M)) = Cardinality(Ix(M))
    <3> SUFFICES ASSUME NEW x
                 PROVE  /\ IsFiniteSet({x} \X Ix(M))
                        /\ Cardinality({x} \X Ix(M)) = Cardinality(Ix(M))
      OBVIOUS
    <3>1. IsFiniteSet({x}) /\ Cardinality({x}) = 1
      BY FS_Singleton
    <3>2. IsFiniteSet({x} \X Ix(M))
          /\ Cardinality({x} \X Ix(M)) = Cardinality({x}) * Cardinality(Ix(M))
      BY <2>5, <3>1, FS_Product
    <3>3. QED
      BY <2>6, <3>1, <3>2
  <2>8. Cardinality(PushedOf(M)') = Cardinality(PushedOf(M)) + Cardinality(Ix(M))
    <3>1. Cardinality(PushedOf(M) \cup ({new} \X Ix(M)))
            = Cardinality(PushedOf(M)) + Cardinality({new} \X Ix(M))
      <4>1. IsFiniteSet(PushedOf(M)) /\ IsFiniteSet({new} \X Ix(M))
        BY <2>7, VectorsFinite
      <4>2. QED
        BY <2>2, <4>1, DisjointCardinality
    <3>2. QED
      BY <2>1, <2>7, <3>1
  <2>9. IsFiniteSet(KeptOf(M)') /\ Cardinality(KeptOf(M)') \in Nat
    <3>1. KeptOf(M)' \in SUBSET KeptOf(M)
      BY <2>3
    <3>2. QED
      BY <3>1, VectorsFinite, FS_Subset, FS_CardinalityType
  <2>10. Cardinality(KeptOf(M)) = Cardinality(KeptOf(M)') + Cardinality(Ix(M))
    <3>1. Cardinality(KeptOf(M)' \cup ({w} \X Ix(M)))
            = Cardinality(KeptOf(M)') + Cardinality({w} \X Ix(M))
      <4>1. IsFiniteSet({w} \X Ix(M))
        BY <2>7
      <4>2. QED
        BY <2>4, <2>9, <4>1, DisjointCardinality
    <3>2. QED
      BY <2>3, <2>7, <3>1
  <2>11. QED
    BY <2>6, <2>8, <2>9, <2>10, VectorsFinite DEF InVectors
<1>4. (\A v \in Workers : pc'[v] # "panicked") => (\A v \in Workers : pc[v] # "panicked")
  OBVIOUS
<1>5. \A v \in Workers : /\ Len(thread_data[v])' <= idx'[v]
                         /\ pc'[v] = "connecting" => thread_data'[v] = <<>>
  OBVIOUS
<1> HIDE DEF new, Ix
<1>6. QED
  BY <1>3, <1>4, <1>5

\* A commit is one more in the counters and in the vector of its worker.
LEMMA VectorGrows ==
  ASSUME VectorShape, ExecTypeOK, NEW w \in Workers, Committed(w), idx[w] < TxnPerThread,
         main = "joining"
  PROVE  VectorShape'
<1> USE DEF VectorShape
<1> DEFINE last == Len(thread_data[w]) + 1
           data == Append(thread_data[w], txn[w])
<1>1. /\ UNCHANGED <<txn, verdict, results, main>>
      /\ pc' = [pc EXCEPT ![w] = "next"]
      /\ idx' = [idx EXCEPT ![w] = @ + 1]
      /\ total_committed' = total_committed + 1
      /\ new_order_count' = new_order_count + (IF txn[w] = "NewOrder" THEN 1 ELSE 0)
      /\ thread_data' = [thread_data EXCEPT ![w] = data]
      /\ pc[w] = "verdict"
  BY DEF Committed, Goes, runVars
<1>2. /\ pc \in [Workers -> Places \cup Ends]
      /\ idx \in [Workers -> 0..TxnPerThread]
      /\ thread_data \in [Workers -> Seq(Mix)]
      /\ results \in Seq(Seq(Mix))
      /\ txn \in [Workers -> Mix]
      /\ total_committed \in Nat /\ new_order_count \in Nat
      /\ TxnPerThread \in Nat
  BY TxnPerThreadAssumption DEF ExecTypeOK
<1>3. /\ last \in 1..TxnPerThread
      /\ Len(data) = last /\ data[last] = txn[w]
      /\ \A i \in 1..Len(thread_data[w]) : data[i] = thread_data[w][i]
  <2>1. Len(thread_data[w]) <= idx[w] /\ Len(thread_data[w]) \in Nat /\ idx[w] \in Nat
    BY <1>2
  <2>2. QED
    BY <1>2, <2>1, AppendProperties
<1>4. ASSUME NEW M
      PROVE  InVectors(M)' = InVectors(M) + (IF txn[w] \in M THEN 1 ELSE 0)
  <2>1. PushedOf(M)' = PushedOf(M)
    BY <1>1 DEF PushedOf
  <2>2. KeptOf(M)' = IF txn[w] \in M THEN KeptOf(M) \cup {<<w, last>>} ELSE KeptOf(M)
    <3>1. \A v \in Workers, i \in 1..TxnPerThread :
             <<v, i>> \in KeptOf(M)' <=> \/ <<v, i>> \in KeptOf(M)
                                         \/ v = w /\ i = last /\ txn[w] \in M
      <4> SUFFICES ASSUME NEW v \in Workers, NEW i \in 1..TxnPerThread
                   PROVE  <<v, i>> \in KeptOf(M)' <=>
                            \/ <<v, i>> \in KeptOf(M)
                            \/ v = w /\ i = last /\ txn[w] \in M
        OBVIOUS
      <4>1. CASE v # w
        BY <1>1, <1>2, <4>1 DEF KeptOf
      <4>2. CASE v = w
        <5>1. <<w, i>> \in KeptOf(M)' <=> i <= last /\ data[i] \in M
          BY <1>1, <1>2, <1>3, <4>2 DEF KeptOf, Ends
        <5>2. <<w, i>> \in KeptOf(M) <=>
                i <= Len(thread_data[w]) /\ thread_data[w][i] \in M
          BY <1>1, <4>2 DEF KeptOf, Ends
        <5>3. Len(thread_data[w]) \in Nat
          BY <1>2
        <5>4. CASE i <= Len(thread_data[w])
          <6>1. data[i] = thread_data[w][i] /\ i # last
            BY <1>3, <5>3, <5>4
          <6> HIDE DEF data
          <6>2. QED
            BY <4>2, <5>1, <5>2, <5>3, <5>4, <6>1
        <5>5. CASE ~(i <= Len(thread_data[w]))
          <6>1. i <= last <=> i = last
            BY <5>3, <5>5
          <6> HIDE DEF data, last
          <6>2. QED
            BY <1>3, <4>2, <5>1, <5>2, <5>5, <6>1
        <5>6. QED
          BY <5>4, <5>5
      <4>3. QED
        BY <4>1, <4>2
    <3>2. /\ KeptOf(M)' \subseteq Workers \X (1..TxnPerThread)
          /\ KeptOf(M) \subseteq Workers \X (1..TxnPerThread)
          /\ <<w, last>> \in Workers \X (1..TxnPerThread)
      BY <1>3 DEF KeptOf
    <3> HIDE DEF last
    <3>3. \A e \in Workers \X (1..TxnPerThread) :
             e \in KeptOf(M)' <=> e \in KeptOf(M) \/ (e = <<w, last>> /\ txn[w] \in M)
      BY <3>1
    <3>4. CASE txn[w] \in M
      <4>1. KeptOf(M)' = KeptOf(M) \cup {<<w, last>>}
        BY <3>2, <3>3, <3>4
      <4>2. QED
        BY <3>4, <4>1
    <3>5. CASE txn[w] \notin M
      <4>1. KeptOf(M)' = KeptOf(M)
        BY <3>2, <3>3, <3>5
      <4>2. QED
        BY <3>5, <4>1
    <3>6. QED
      BY <3>4, <3>5
  <2>3. <<w, last>> \notin KeptOf(M)
    <3>1. ~(last <= Len(thread_data[w]))
      BY <1>2
    <3>2. QED
      BY <3>1 DEF KeptOf
  <2> HIDE DEF last
  <2>4. Cardinality(KeptOf(M)') = Cardinality(KeptOf(M)) + (IF txn[w] \in M THEN 1 ELSE 0)
    <3>1. IsFiniteSet(KeptOf(M)) /\ Cardinality(KeptOf(M)) \in Nat
      BY <1>2, VectorsFinite
    <3>2. Cardinality(KeptOf(M) \cup {<<w, last>>}) = Cardinality(KeptOf(M)) + 1
      BY <2>3, <3>1, FS_AddElement
    <3>3. QED
      BY <2>2, <3>1, <3>2
  <2>5. QED
    BY <1>2, <2>1, <2>4, VectorsFinite DEF InVectors
<1>5. txn[w] \in Mix /\ (txn[w] \in {"NewOrder"} <=> txn[w] = "NewOrder")
  BY <1>2
<1>6. (\A v \in Workers : pc'[v] # "panicked") => (\A v \in Workers : pc[v] # "panicked")
  BY <1>1, <1>2
<1>7. \A v \in Workers : /\ Len(thread_data'[v]) <= idx'[v]
                         /\ pc'[v] = "connecting" => thread_data'[v] = <<>>
  <2> SUFFICES ASSUME NEW v \in Workers
               PROVE  /\ Len(thread_data'[v]) <= idx'[v]
                      /\ pc'[v] = "connecting" => thread_data'[v] = <<>>
    OBVIOUS
  <2>1. CASE v # w
    BY <1>1, <1>2, <2>1
  <2>2. CASE v = w
    <3>1. thread_data'[w] = data /\ idx'[w] = idx[w] + 1 /\ pc'[w] = "next"
      BY <1>1, <1>2
    <3>2. Len(thread_data[w]) <= idx[w] /\ Len(thread_data[w]) \in Nat /\ idx[w] \in Nat
      BY <1>2
    <3> HIDE DEF data
    <3>3. QED
      BY <1>3, <2>2, <3>1, <3>2
  <2>3. QED
    BY <2>1, <2>2
<1> HIDE DEF data, last
<1>8. main' # "reported"
  BY <1>1
<1>9. QED
  BY <1>1, <1>4, <1>5, <1>6, <1>7, <1>8

LEMMA VectorWorker ==
  ASSUME ExecIInv, VectorShape, NEW w \in Workers, WorkerStep(w)
  PROVE  VectorShape'
<1> USE DEF Goes
<1>1. /\ pc \in [Workers -> Places \cup Ends]
      /\ idx \in [Workers -> 0..TxnPerThread]
      /\ thread_data \in [Workers -> Seq(Mix)]
      /\ results \in Seq(Seq(Mix))
      /\ TxnPerThread \in Nat
  BY TxnPerThreadAssumption DEF ExecIInv, ExecTypeOK
<1>2. pc[w] \notin Ends
  BY DEF WorkerStep, Loop, Attempt, Connect, ConnectFails, NextTransaction,
         LoopEnds, StartAttempt, StopRetrying, Committed, Aborted, Lost,
         AttemptEnds, Panic, Reconnect, ReconnectFails, Ends
<1>3. main = "joining" /\ main' = main
  <2>1. main' = main
    BY DEF WorkerStep, Loop, Attempt, Connect, ConnectFails, NextTransaction,
           LoopEnds, StartAttempt, StopRetrying, Committed, Aborted, Lost,
           AttemptEnds, Panic, Reconnect, ReconnectFails, runVars
  <2>2. QED
    BY <1>2, <2>1 DEF ExecIInv, JoinShape
\* The steps that only move the worker.
<1>4. ASSUME NEW place,
             UNCHANGED <<thread_data, results, total_committed, new_order_count>>,
             \/ UNCHANGED idx
             \/ idx[w] < TxnPerThread /\ idx' = [idx EXCEPT ![w] = @ + 1],
             pc' = [pc EXCEPT ![w] = place],
             place \notin {"connecting", "panicked", "done"},
             place = "gone" => pc[w] = "connecting"
      PROVE  VectorShape'
  <2>1. idx' \in [Workers -> 0..TxnPerThread] /\ \A v \in Workers : idx[v] <= idx'[v]
    <3>1. \A v \in Workers : idx[v] \in Int /\ idx[v] <= idx[v] /\ idx[v] <= idx[v] + 1
      BY <1>1
    <3>2. CASE UNCHANGED idx
      BY <1>1, <3>1, <3>2
    <3>3. CASE idx[w] < TxnPerThread /\ idx' = [idx EXCEPT ![w] = @ + 1]
      <4>1. idx[w] + 1 \in 0..TxnPerThread
        BY <1>1, <3>3
      <4>2. QED
        BY <1>1, <3>1, <3>3, <4>1
    <3>4. QED
      BY <1>4, <3>2, <3>3
  <2>2. place = "gone" => thread_data[w] = <<>>
    BY <1>4 DEF VectorShape
  <2>3. QED
    BY <1>1, <1>2, <1>3, <1>4, <2>1, <2>2, VectorMoves
<1>5. CASE Connect(w)
  BY <1>4, <1>5 DEF Connect, counters
<1>6. CASE ConnectFails(w)
  BY <1>4, <1>6 DEF ConnectFails, counters
<1>7. CASE NextTransaction(w)
  BY <1>4, <1>7 DEF NextTransaction, counters
<1>8. CASE StartAttempt(w)
  BY <1>4, <1>8 DEF StartAttempt, counters
<1>9. CASE StopRetrying(w)
  BY <1>4, <1>9 DEF StopRetrying, counters, ExecIInv, LoopShape
<1>10. ASSUME NEW v \in Verdicts, AttemptEnds(w, v) PROVE VectorShape'
  BY <1>4, <1>10 DEF AttemptEnds, counters
<1>11. CASE Aborted(w)
  BY <1>4, <1>11 DEF Aborted
<1>12. CASE Lost(w)
  BY <1>4, <1>12 DEF Lost, counters
<1>13. CASE Reconnect(w)
  BY <1>4, <1>13 DEF Reconnect, counters
<1>14. CASE LoopEnds(w)
  BY <1>1, <1>2, <1>3, <1>14, VectorPushed DEF LoopEnds, counters
<1>15. CASE ReconnectFails(w)
  BY <1>1, <1>2, <1>3, <1>15, VectorPushed DEF ReconnectFails, counters
<1>16. CASE Panic(w)
  <2>1. /\ pc' = [pc EXCEPT ![w] = "panicked"] /\ idx' = idx
        /\ thread_data' = [thread_data EXCEPT ![w] = <<>>]
    BY <1>16 DEF Panic
  <2>2. pc'[w] = "panicked"
    BY <1>1, <2>1
  <2>3. \A v \in Workers : /\ Len(thread_data'[v]) <= idx'[v]
                           /\ pc'[v] = "connecting" => thread_data'[v] = <<>>
    BY <1>1, <2>1 DEF VectorShape
  <2>4. QED
    BY <1>3, <2>2, <2>3 DEF VectorShape
<1>17. CASE Committed(w)
  BY <1>3, <1>17, VectorGrows DEF Committed, ExecIInv, LoopShape
<1>18. QED
  BY <1>5, <1>6, <1>7, <1>8, <1>9, <1>10, <1>11, <1>12, <1>13, <1>14, <1>15, <1>16,
     <1>17 DEF WorkerStep, Loop, Attempt

LEMMA VectorOthers ==
  ASSUME ExecIInv, VectorShape, Others \/ UNCHANGED execVars
  PROVE  VectorShape'
<1>1. UNCHANGED loopVars
  BY DEF Others, Interrupt, ProgressEnds, JoinWorkers, Report, Returned, execVars
<1>2. \A M : InVectors(M)' = InVectors(M)
  BY <1>1 DEF InVectors, PushedOf, KeptOf, loopVars
<1>3. \A t : Pushed(t)' = Pushed(t)
  BY <1>1 DEF Pushed, loopVars
<1>4. main' = "reported" =>
        report' = [transactions |-> total_committed, new_orders |-> new_order_count,
                   breakdown |-> [t \in Mix |-> Pushed(t)]]
  <2>1. CASE Report
    BY <2>1 DEF Report
  <2>2. CASE ~Report
    <3>1. main' = "reported" => main = "reported" /\ report' = report
      BY <2>2 DEF Others, Interrupt, ProgressEnds, JoinWorkers, Returned, execVars, runVars
    <3>2. QED
      BY <3>1 DEF VectorShape
  <2>3. QED
    BY <2>1, <2>2
<1>5. [t \in Mix |-> Pushed(t)]' = [t \in Mix |-> Pushed(t)]
  BY <1>3
<1>6. QED
  BY <1>1, <1>2, <1>4, <1>5 DEF VectorShape, loopVars, counters

LEMMA VectorInit == ExecInit => VectorShape
<1> SUFFICES ASSUME ExecInit PROVE VectorShape
  OBVIOUS
<1>1. \A M : PushedOf(M) = {} /\ KeptOf(M) = {}
  BY DEF ExecInit, PushedOf, KeptOf
<1>2. \A M : InVectors(M) = 0
  BY <1>1, FS_EmptySet DEF InVectors
<1>3. QED
  BY <1>2 DEF ExecInit, VectorShape

\* What was counted is in the vectors: pushed, or of a worker that still runs.
THEOREM VectorInvariantHolds == ExecSpec => []VectorShape
<1>1. ExecIInv /\ VectorShape /\ [ExecNext]_execVars => VectorShape'
  BY VectorWorker, VectorOthers DEF ExecNext
<1>2. QED
  BY <1>1, VectorInit, ExecInvariantHolds, PTL DEF ExecSpec

\* The types add up to all transactions.
LEMMA MixAddsUp ==
  ASSUME ExecTypeOK, report.breakdown = [t \in Mix |-> Pushed(t)]
  PROVE  Listed(report) = Cardinality(PushedOf(Mix))
<1> DEFINE f == report.breakdown
           E == PushedOf(Mix)
           type == [e \in E |-> results[e[1]][e[2]]]
<1>1. Listed(report) = SumOver(f, Mix)
  BY DEF Listed, MapThenSumSet, MapThenFoldSet, SumOver, Acc, Chosen
<1>2. type \in [E -> Mix]
  BY DEF PushedOf
<1>3. \A t \in Mix : f[t] = Cardinality({e \in E : type[e] = t})
  <2> SUFFICES ASSUME NEW t \in Mix
               PROVE  Pushed(t) = Cardinality({e \in E : type[e] = t})
    OBVIOUS
  <2>1. {e \in E : type[e] = t}
          = {e \in (1..Len(results)) \X (1..TxnPerThread) :
               e[2] <= Len(results[e[1]]) /\ results[e[1]][e[2]] = t}
    BY DEF PushedOf
  <2>2. QED
    BY <2>1 DEF Pushed
<1>4. IsFiniteSet(E)
  BY VectorsFinite DEF ExecTypeOK
<1> HIDE DEF f, E, type
<1>5. SumOver(f, Mix) = Cardinality(E)
  BY <1>2, <1>3, <1>4, MixFiniteAssumption, SumOfClasses
<1>6. QED
  BY <1>1, <1>5 DEF E

\* Unless a worker panicked, the mix that BenchmarkResult reports lists as many
\* transactions as total_committed, and as many NewOrders as tpmC is computed
\* from (executor.rs, run).
THEOREM ReportAddsUpHolds == ExecSpec => []ReportAddsUp
<1>1. ExecIInv /\ VectorShape => ReportAddsUp
  <2> SUFFICES ASSUME ExecIInv, VectorShape, main = "reported",
                      \A w \in Workers : pc[w] # "panicked"
               PROVE  /\ Listed(report) = report.transactions
                      /\ "NewOrder" \in Mix =>
                           report.breakdown["NewOrder"] = report.new_orders
    BY DEF ReportAddsUp
  <2>1. /\ report.transactions = total_committed
        /\ report.new_orders = new_order_count
        /\ report.breakdown = [t \in Mix |-> Pushed(t)]
    BY DEF VectorShape
  <2>2. \A M : KeptOf(M) = {}
    BY DEF ExecIInv, JoinShape, KeptOf
  <2>3. \A M : InVectors(M) = Cardinality(PushedOf(M))
    <3> SUFFICES ASSUME NEW M PROVE InVectors(M) = Cardinality(PushedOf(M))
      OBVIOUS
    <3>1. Cardinality(PushedOf(M)) \in Nat /\ Cardinality({}) = 0
      BY VectorsFinite, FS_EmptySet DEF ExecIInv, ExecTypeOK
    <3>2. QED
      BY <2>2, <3>1 DEF InVectors
  <2>4. /\ total_committed = Cardinality(PushedOf(Mix))
        /\ new_order_count = Cardinality(PushedOf({"NewOrder"}))
    BY <2>3 DEF VectorShape
  <2>5. Listed(report) = report.transactions
    BY <2>1, <2>4, MixAddsUp DEF ExecIInv
  <2>6. PushedOf({"NewOrder"})
          = {e \in (1..Len(results)) \X (1..TxnPerThread) :
               e[2] <= Len(results[e[1]]) /\ results[e[1]][e[2]] = "NewOrder"}
    BY DEF PushedOf
  <2>7. "NewOrder" \in Mix => report.breakdown["NewOrder"] = report.new_orders
    BY <2>1, <2>4, <2>6 DEF Pushed
  <2>8. QED
    BY <2>5, <2>7
<1>2. QED
  BY <1>1, ExecInvariantHolds, VectorInvariantHolds, PTL

---------------------------------------------------------------------------
(* Refinement. *)

LEMMA KindIsVerdict == \A x : Kind(x) \in Verdicts
BY DEF Kind, Verdicts

LEMMA StepRefines ==
  ASSUME NEW w \in Workers, Step(w)
  PROVE  WorkerStep(w) \/ UNCHANGED execVars
<1> USE DEF WorkerStep
<1>1. ASSUME NEW v \in Verdicts, Returns(w, v) PROVE WorkerStep(w)
  BY <1>1 DEF Returns, Attempt
<1>2. \A v \in {"ok", "failed"} : v \in Verdicts
  BY DEF Verdicts
<1>3. CASE Begins(w)
  BY <1>1, <1>3, KindIsVerdict DEF Begins, GoesTo
<1>4. CASE Selects(w)
  BY <1>4 DEF Selects, GoesTo, GoesToRollback
<1>5. CASE Panics(w)
  BY <1>5 DEF Panics, Attempt
<1>6. CASE FindsOldest(w)
  BY <1>6 DEF FindsOldest, GoesTo
<1>7. CASE DoesWrite(w)
  BY <1>7 DEF DoesWrite, GoesTo, GoesToRollback
<1>8. CASE Reports(w)
  BY <1>1, <1>2, <1>8 DEF Reports
<1>9. CASE Commits(w)
  BY <1>1, <1>2, <1>9 DEF Commits, GoesToRollback
<1>10. CASE RollsBack(w)
  BY <1>2, <1>10 DEF RollsBack, Attempt
<1>11. CASE Opens(w) \/ OpenFails(w)
  BY <1>11 DEF Opens, OpenFails
<1>12. CASE Finishes(w) \/ StartsAttempt(w) \/ ExecutorStep(w)
  BY <1>12 DEF Finishes, StartsAttempt, ExecutorStep, Loop
<1>13. QED
  BY <1>3, <1>4, <1>5, <1>6, <1>7, <1>8, <1>9, <1>10, <1>11, <1>12
     DEF Step, ProgramStep

LEMMA NextRefines == [Next]_vars => [ExecNext]_execVars
<1> SUFFICES ASSUME [Next]_vars PROVE [ExecNext]_execVars
  OBVIOUS
<1>1. ASSUME NEW w \in Workers, Step(w) PROVE [ExecNext]_execVars
  BY <1>1, StepRefines DEF ExecNext
<1>2. CASE OtherTasks
  BY <1>2 DEF OtherTasks, ExecNext
<1>3. CASE UNCHANGED vars
  BY <1>3 DEF vars
<1>4. QED
  BY <1>1, <1>2, <1>3 DEF Next

\* The transactions over their connections implement the executor, in which
\* an attempt is one step with any verdict: what is proved of Executor holds
\* whatever statement fails in whatever way.
THEOREM Implementation == Spec => ImplementsExecutor
<1>1. Init => ExecInit
  BY DEF Init
<1>2. QED
  BY <1>1, NextRefines, PTL DEF Spec, ExecSpec, ImplementsExecutor

---------------------------------------------------------------------------
(* The programs: where a statement leads. *)

LEMMA NewOrderShape ==
  ASSUME NEW i \in 1..Last("NewOrder")
  PROVE  /\ NewOrder[i] \in Statement
         /\ NewOrder[i].op \in {"begin", "select", "write", "commit"}
         /\ NewOrder[i].op = "begin" => i = 1
         /\ NewOrder[i].op = "commit" => i = Last("NewOrder")
         /\ i = Last("NewOrder") => NewOrder[i].op = "commit"
<1> USE OlCntAssumption DEF Statement, Ops, Plain, Query, Begin, Write, Commit
<1>1. Last("NewOrder") = 7 + 4 * OlCnt /\ i \in 1..(7 + 4 * OlCnt)
  BY DEF Last
<1>2. CASE i <= 6
  <2>1. i \in 1..6 /\ NewOrder[i] = OrderEntry[i]
    BY <1>1, <1>2 DEF NewOrder
  <2>2. QED
    BY <1>1, <2>1 DEF OrderEntry
<1>3. CASE i = 7 + 4 * OlCnt
  <2>1. NewOrder[i] = Commit
    BY <1>1, <1>3 DEF NewOrder
  <2>2. QED
    BY <1>1, <1>3, <2>1
<1>4. CASE i > 6 /\ i # 7 + 4 * OlCnt
  <2> DEFINE k == ((i - 7) % 4) + 1
  <2>1. k \in 1..4
    BY <1>1, <1>4
  <2>2. NewOrder[i] = OrderLine[k]
    BY <1>1, <1>4 DEF NewOrder
  <2> HIDE DEF k
  <2>3. QED
    BY <1>1, <1>4, <2>1, <2>2 DEF OrderLine
<1>5. QED
  BY <1>1, <1>2, <1>3, <1>4

LEMMA PaymentShape ==
  ASSUME NEW i \in 1..Last("Payment")
  PROVE  /\ Payment[i] \in Statement
         /\ Payment[i].op \in {"begin", "select", "write", "commit"}
         /\ Payment[i].op = "begin" => i = 1
         /\ Payment[i].op = "commit" <=> i = Last("Payment")
<1>1. Last("Payment") = 9 /\ i \in 1..9
  BY DEF Last
<1>2. QED
  BY <1>1 DEF Payment, Statement, Ops, Plain, Query, Begin, Write, Commit

LEMMA DeliveryShape ==
  ASSUME NEW i \in 1..Last("Delivery")
  PROVE  /\ Delivery[i] \in Statement
         /\ Delivery[i].op \in {"begin", "min", "select", "write", "commit"}
         /\ Delivery[i].op = "begin" => i = 1
         /\ Delivery[i].op = "commit" => i = Last("Delivery")
         /\ i = Last("Delivery") => Delivery[i].op = "commit"
         /\ Delivery[i].op = "min" => NextRound(i) \in 2..Last("Delivery")
<1> USE DistrictsAssumption DEF Statement, Ops, Plain, Query, Begin, Write, Commit
<1>1. Last("Delivery") = 2 + 7 * Districts /\ i \in 1..(2 + 7 * Districts)
  BY DEF Last
<1>2. CASE i = 1
  <2>1. Delivery[i] = Begin
    BY <1>1, <1>2 DEF Delivery
  <2>2. QED
    BY <1>1, <1>2, <2>1
<1>3. CASE i = 2 + 7 * Districts
  <2>1. Delivery[i] = Commit
    BY <1>1, <1>3 DEF Delivery
  <2>2. QED
    BY <1>1, <1>3, <2>1
<1>4. CASE i # 1 /\ i # 2 + 7 * Districts
  <2> DEFINE k == ((i - 2) % 7) + 1
  <2>1. k \in 1..7
    BY <1>1, <1>4
  <2>2. Delivery[i] = DeliveryRound[k]
    BY <1>1, <1>4 DEF Delivery
  <2>3. k = 1 => i + 7 \in 2..(2 + 7 * Districts)
    BY <1>1, <1>4
  <2> HIDE DEF k
  <2>4. DeliveryRound[k].op = "min" => k = 1
    BY <2>1 DEF DeliveryRound
  <2>5. QED
    BY <1>1, <1>4, <2>1, <2>2, <2>3, <2>4 DEF DeliveryRound, NextRound
<1>5. QED
  BY <1>2, <1>3, <1>4

\* Any program: BEGIN comes first only, and every statement that goes on leads
\* to one that is neither BEGIN nor a read-only report.
LEMMA ProgramShape ==
  ASSUME NEW type \in Types, NEW i \in 1..Last(type)
  PROVE  LET s == Program(type)[i]
             Inner(j) == /\ j \in 1..Last(type)
                         /\ Program(type)[j].op \notin {"begin", "report"}
         IN  /\ s \in Statement
             /\ s.op \in {"begin", "select", "min", "write"} => Inner(i + 1)
             /\ s.op = "min" => Inner(NextRound(i))
<1>1. Last(type) \in Nat
  BY OlCntAssumption, DistrictsAssumption DEF Last
<1>2. CASE type = "NewOrder"
  <2>1. Program(type) = NewOrder
    BY <1>2 DEF Program
  <2>2. \A j \in 1..Last(type) : NewOrder[j].op = "begin" => j = 1
    BY <1>2, NewOrderShape
  <2>3. QED
    BY <1>1, <1>2, <2>1, <2>2, NewOrderShape
<1>3. CASE type = "Payment"
  <2>1. Program(type) = Payment
    BY <1>3 DEF Program
  <2>2. QED
    BY <1>1, <1>3, <2>1, PaymentShape
<1>4. CASE type = "Delivery"
  <2>1. Program(type) = Delivery
    BY <1>4 DEF Program
  <2>2. QED
    BY <1>1, <1>4, <2>1, DeliveryShape
<1>5. CASE type \in ReadOnly
  <2>1. Last(type) = 1 /\ i = 1
    BY <1>5 DEF Last, ReadOnly
  <2>2. Program(type) \in {OrderStatus, StockLevel}
    BY <1>5 DEF Program, ReadOnly
  <2>3. QED
    BY <2>1, <2>2 DEF OrderStatus, StockLevel, Query, Statement, Ops
<1>6. QED
  BY <1>2, <1>3, <1>4, <1>5 DEF Types, ReadOnly

---------------------------------------------------------------------------
(* A call. *)

\* What is true of a session wherever it is.
Coherent(d) == d \in Sessions /\ (d.session = "auto" => d.work = {})

LEMMA EndedCoherent ==
  ASSUME NEW d \in Sessions
  PROVE  Coherent(Ended(d)) /\ Ended(d).session = "auto"
BY DEF Sessions, Coherent, Ended

\* What the server answers is typed, and no statement leaves work outside of
\* a transaction.
Proper(e) == e.answer \in Answers /\ Coherent(e.db) /\ e.fault \subseteq FaultKinds

LEMMA DoneProper ==
  ASSUME NEW d, Coherent(d), NEW s \in Statement, NEW i \in Nat,
         NEW e \in Done(d, s, i)
  PROVE  /\ Proper(e)
         /\ s.op = "commit" => e.db.session = "auto"
         /\ s.op # "begin" /\ d.session = "auto" => e.db.session = "auto"
<1> USE DEF Served, Answer, Answers
<1>1. /\ d = [session |-> d.session, work |-> d.work, durable |-> d.durable]
      /\ d.session \in {"auto", "open"} /\ d.work \in SUBSET Nat /\ d.durable \in SUBSET Nat
      /\ d.session = "auto" => d.work = {}
  BY DEF Coherent, Sessions
<1>2. s.op \in Ops /\ s.cols \in Nat
  BY DEF Statement
<1>3. CASE s.op = "begin"
  <2>1. e = Served(Answer("command", 0), [d EXCEPT !.session = "open"], {})
    BY <1>3 DEF Done
  <2>2. QED
    BY <1>1, <1>3, <2>1 DEF Proper, Coherent, Sessions
<1>4. CASE s.op \in {"select", "report"}
  <2>1. e = Served(Answer("rows", s.cols), d, {})
    BY <1>4 DEF Done
  <2>2. QED
    BY <1>1, <1>2, <1>4, <2>1 DEF Proper, Coherent, Sessions
<1>5. CASE s.op = "min"
  <2>1. PICK kind \in {"rows", "null", "none"} : e = Served(Answer(kind, 1), d, {})
    BY <1>5 DEF Done
  <2>2. QED
    BY <1>1, <1>5, <2>1 DEF Proper, Coherent, Sessions
<1>6. CASE s.op = "write"
  <2>1. e = Served(Answer("command", 0),
                   IF d.session = "open"
                   THEN [d EXCEPT !.work = @ \cup {i}]
                   ELSE [d EXCEPT !.durable = @ \cup {i}], {})
    BY <1>6 DEF Done
  <2>2. QED
    BY <1>1, <1>6, <2>1 DEF Proper, Coherent, Sessions
<1>7. CASE s.op = "commit"
  <2>1. e = Served(Answer("command", 0), Ended([d EXCEPT !.durable = @ \cup d.work]), {})
    BY <1>7 DEF Done
  <2>2. [d EXCEPT !.durable = @ \cup d.work] \in Sessions
    BY <1>1 DEF Sessions
  <2>3. QED
    BY <1>7, <2>1, <2>2, EndedCoherent DEF Proper
<1>8. QED
  BY <1>2, <1>3, <1>4, <1>5, <1>6, <1>7 DEF Ops

LEMMA NotDoneProper ==
  ASSUME NEW d, Coherent(d), NEW s \in Statement, NEW e \in NotDone(d, s)
  PROVE  /\ Proper(e)
         /\ d.session = "auto" => e.db.session = "auto"
         /\ e.answer.kind \in Errors \cup {"none"}
         /\ e.answer.kind = "none" => s.op \in {"select", "report"}
<1> USE DEF Served, Answer, Answers, Errors
<1>1. \/ e = Served(Answer("abort", 0), Ended(d), {"abort"})
      \/ e = Served(Answer("error", 0), d, {"error"})
      \/ e = Served(Answer("none", s.cols), d, {"empty"}) /\ s.op \in {"select", "report"}
      \/ e = Served(Answer("error", 0), d, {})
  BY DEF NotDone
<1>2. s.cols \in Nat /\ d \in Sessions
  BY DEF Statement, Coherent
<1>3. QED
  BY <1>1, <1>2, EndedCoherent DEF Proper, FaultKinds

LEMMA RolledBackProper ==
  ASSUME NEW d, Coherent(d), NEW e \in RolledBack(d)
  PROVE  Proper(e) /\ e.db.session = "auto"
<1> USE DEF Served, Answer, Answers
<1>1. \/ e = Served(Answer("command", 0), Ended(d), {})
      \/ e = Served(Answer("error", 0), d, {}) /\ d.session = "auto"
  BY DEF RolledBack
<1>2. d \in Sessions
  BY DEF Coherent
<1>3. QED
  BY <1>1, <1>2, EndedCoherent DEF Proper

\* What is true of a connection and the session at its other end.
Linked(c, d) ==
  /\ c \in Conns
  /\ c.late # <<>> => c.lost
  /\ Coherent(d)
  /\ c.link = "dead" => d.session = "auto"

\* While no call gave up, a call returns what the server made of it, or fails
\* with a connection that is gone and a transaction that is over.
Clear(x, served) ==
  \/ \E e \in served : x.result = e.answer /\ x.db = e.db
  \/ x.result.kind = "connection" /\ x.db.session = "auto"

LEMMA ReadsShape ==
  ASSUME NEW c \in Conns, NEW q \in Seq(Answers), q # <<>>, NEW d, NEW fault,
         NEW x \in Reads(c, q, d, fault)
  PROVE  /\ x.conn \in Conns
         /\ x.conn.lost = c.lost /\ x.conn.link = c.link
         /\ x.db = d /\ x.fault = fault
         /\ c.late = <<>> =>
              x.result = Head(q) /\ x.conn.late = Tail(q)
<1> USE DEF Outcome, Conns
<1>1. CASE x = Outcome(Head(q), [c EXCEPT !.late = Tail(q)], d, fault)
  BY <1>1, HeadTailProperties
<1>2. ASSUME c.late # <<>>, NEW g \in Garbled, NEW k \in 0..Len(q),
             x = Outcome(g, [c EXCEPT !.late = SubSeq(q, k + 1, Len(q))], d, fault)
      PROVE  /\ x.conn \in Conns
             /\ x.conn.lost = c.lost /\ x.conn.link = c.link
             /\ x.db = d /\ x.fault = fault
  <2>1. Len(q) \in Nat /\ \A j \in 1..Len(q) : q[j] \in Answers
    BY ElementOfSeq, LenProperties
  <2>2. SubSeq(q, k + 1, Len(q)) \in Seq(Answers)
    BY <2>1, SubSeqProperties
  <2>3. QED
    BY <1>2, <2>2
<1>3. CASE c.late = <<>>
  BY <1>1, <1>3 DEF Reads
<1>4. CASE c.late # <<>>
  <2> DEFINE G == {Outcome(g, [c EXCEPT !.late = SubSeq(q, k + 1, Len(q))], d, fault) :
                     g \in Garbled, k \in 0..Len(q)}
             h == Outcome(Head(q), [c EXCEPT !.late = Tail(q)], d, fault)
  <2>1. Reads(c, q, d, fault) = {h} \cup G
    BY <1>4 DEF Reads
  <2>2. CASE x \in G
    <3>1. PICK g \in Garbled, k \in 0..Len(q) :
            x = Outcome(g, [c EXCEPT !.late = SubSeq(q, k + 1, Len(q))], d, fault)
      BY <2>2
    <3>2. QED
      BY <1>2, <1>4, <3>1
  <2>3. CASE x = h
    BY <1>1, <2>3
  <2> HIDE DEF G, h
  <2>4. x = h \/ x \in G
    BY <2>1
  <2>5. QED
    BY <1>4, <2>2, <2>3, <2>4
<1>5. QED
  BY <1>3, <1>4

LEMMA CallShape ==
  ASSUME NEW c, NEW d, Linked(c, d), NEW served, \A e \in served : Proper(e),
         NEW x \in Outcomes(c, d, served)
  PROVE  /\ Linked(x.conn, x.db)
         /\ x.fault \subseteq FaultKinds
         /\ ~x.conn.lost => Clear(x, served)
         /\ c.lost => x.conn.lost
<1>1. c \in Conns /\ d \in Sessions /\ c.late \in Seq(Answers)
  BY DEF Linked, Coherent, Conns
<1>2. CASE x \in Broken(c, d)
  BY <1>1, <1>2, EndedCoherent
     DEF Broken, Outcome, Failure, Linked, Clear, Conns, Links, FaultKinds
<1>3. CASE c.link = "dead" /\ x \in Dead(c, d)
  <2>1. CASE x = Outcome(Failure("connection"), c, d, {})
    BY <1>3, <2>1 DEF Outcome, Failure, Linked, Clear
  <2>2. CASE c.late # <<>> /\ x \in Reads(c, c.late, d, {})
    BY <1>1, <1>3, <2>2, ReadsShape DEF Linked
  <2>3. QED
    BY <1>3, <2>1, <2>2 DEF Dead
<1>4. ASSUME NEW e \in served, x \in Answered(c, e), c.link # "dead"
      PROVE  /\ Linked(x.conn, x.db)
             /\ x.fault \subseteq FaultKinds
             /\ ~x.conn.lost => Clear(x, served)
             /\ c.lost => x.conn.lost
  <2> DEFINE q == Append(c.late, e.answer)
  <2>1. Proper(e) /\ e.db \in Sessions
    BY DEF Proper, Coherent
  <2>2. q \in Seq(Answers) /\ q # <<>>
    BY <1>1, <2>1, AppendProperties DEF Proper
  <2>3. c.late = <<>> => Head(q) = e.answer /\ Tail(q) = <<>>
    OBVIOUS
  <2> HIDE DEF q
  <2>4. CASE x \in Reads(c, q, e.db, e.fault)
    <3>1. /\ x.conn \in Conns
          /\ x.conn.lost = c.lost /\ x.conn.link = c.link
          /\ x.db = e.db /\ x.fault = e.fault
          /\ c.late = <<>> => x.result = Head(q) /\ x.conn.late = Tail(q)
      BY <1>1, <2>2, <2>4, ReadsShape
    <3>2. c.late # <<>> => c.lost
      BY DEF Linked
    <3>3. Linked(x.conn, x.db)
      BY <1>4, <2>1, <2>3, <3>1, <3>2 DEF Linked, Proper
    <3>4. ~x.conn.lost => Clear(x, served)
      BY <2>3, <3>1, <3>2 DEF Clear
    <3>5. QED
      BY <2>1, <3>1, <3>3, <3>4 DEF Proper
  <2>5. CASE x = Outcome(Failure("timeout"), [c EXCEPT !.late = q, !.lost = TRUE],
                         e.db, e.fault \cup {"timeout"})
    BY <1>1, <1>4, <2>1, <2>2, <2>5
       DEF Outcome, Failure, Linked, Proper, Conns, FaultKinds
  <2>6. CASE x = Outcome(Failure("connection"), [c EXCEPT !.late = <<>>, !.link = "dead"],
                         Ended(e.db), e.fault \cup {"drop"})
    BY <1>1, <2>1, <2>6, EndedCoherent, EmptySeq
       DEF Outcome, Failure, Linked, Proper, Conns, Links, FaultKinds, Clear
  <2>7. QED
    BY <1>4, <2>4, <2>5, <2>6 DEF Answered, q
<1>5. QED
  BY <1>2, <1>3, <1>4 DEF Outcomes

---------------------------------------------------------------------------
(* The invariant, worker by worker. *)

Typed ==
  /\ at \in [Workers -> Nat]
  /\ rolling \in [Workers -> BOOLEAN]
  /\ conn \in [Workers -> Conns]
  /\ db \in [Workers -> Sessions]
  /\ acked \in [Workers -> SUBSET Nat]
  /\ blind \in [Workers -> BOOLEAN]
  /\ faults \in 0..MaxFaults

\* A worker at place p of the executor, statement i of a program.
Shape(p, type, i, r, c, d) ==
  /\ Linked(c, d)
  /\ p = "attempt" => i \in 1..Last(type)
  /\ d.session = "open" /\ ~c.lost =>
       /\ p = "attempt"
       /\ ~r => Program(type)[i].op \notin {"begin", "report"}

ShapeOf(w) == Shape(pc[w], txn[w], at[w], rolling[w], conn[w], db[w])

LEMMA IInvParts == IInv <=> ExecIInv /\ Typed /\ \A w \in Workers : ShapeOf(w)
<1>1. ASSUME conn \in [Workers -> Conns], db \in [Workers -> Sessions]
      PROVE  \A w \in Workers : conn[w] \in Conns /\ db[w] \in Sessions
  BY <1>1
<1>2. QED
  BY <1>1 DEF IInv, ExecIInv, TypeOK, Typed, ShapeOf, Shape, Linked, Coherent,
              LateShape, SessionShape, Current

LEMMA IInvPartsNext == (ExecIInv /\ Typed /\ \A w \in Workers : ShapeOf(w))' => IInv'
BY IInvParts, PTL

\* A step of w that takes it from one shape to another.
LEMMA OneWorker ==
  ASSUME IInv, ExecIInv', Typed', NEW w \in Workers,
         \A v \in Workers \ {w} :
           /\ pc'[v] = pc[v] /\ txn'[v] = txn[v] /\ at'[v] = at[v]
           /\ rolling'[v] = rolling[v] /\ conn'[v] = conn[v] /\ db'[v] = db[v],
         Shape(pc'[w], txn'[w], at'[w], rolling'[w], conn'[w], db'[w])
  PROVE  IInv'
<1>1. \A v \in Workers : Shape(pc'[v], txn'[v], at'[v], rolling'[v], conn'[v], db'[v])
  BY IInvParts DEF ShapeOf
<1>2. (\A v \in Workers : ShapeOf(v))'
  BY <1>1 DEF ShapeOf
<1>3. (ExecIInv /\ Typed /\ \A v \in Workers : ShapeOf(v))'
  BY <1>2
<1>4. QED
  BY <1>3, IInvPartsNext

LEMMA FaultsFinite ==
  ASSUME NEW fault, fault \subseteq Faults
  PROVE  Cardinality(fault) \in Nat
<1>1. IsFiniteSet(FaultKinds)
  <2>1. IsFiniteSet({"abort"})
    BY FS_Singleton
  <2>2. IsFiniteSet({"abort"} \cup {"error"})
    BY <2>1, FS_AddElement
  <2>3. IsFiniteSet(({"abort"} \cup {"error"}) \cup {"empty"})
    BY <2>2, FS_AddElement
  <2>4. IsFiniteSet((({"abort"} \cup {"error"}) \cup {"empty"}) \cup {"timeout"})
    BY <2>3, FS_AddElement
  <2>5. IsFiniteSet(((({"abort"} \cup {"error"}) \cup {"empty"}) \cup {"timeout"})
                      \cup {"drop"})
    BY <2>4, FS_AddElement
  <2>6. IsFiniteSet((((({"abort"} \cup {"error"}) \cup {"empty"}) \cup {"timeout"})
                      \cup {"drop"}) \cup {"refuse"})
    BY <2>5, FS_AddElement
  <2>7. FaultKinds = (((({"abort"} \cup {"error"}) \cup {"empty"}) \cup {"timeout"})
                       \cup {"drop"}) \cup {"refuse"}
    BY DEF FaultKinds
  <2>8. QED
    BY <2>6, <2>7
<1>2. fault \in SUBSET FaultKinds
  BY FaultsAssumption
<1>3. IsFiniteSet(fault)
  BY <1>1, <1>2, FS_Subset
<1>4. QED
  BY <1>3, FS_CardinalityType

LEMMA ChargesType ==
  ASSUME faults \in 0..MaxFaults, NEW fault, Charges(fault)
  PROVE  faults' \in 0..MaxFaults
<1>1. Cardinality(fault) \in Nat
  BY FaultsFinite DEF Charges
<1>2. QED
  BY <1>1, FaultsAssumption DEF Charges

\* What a call of w leaves behind.
LEMMA CallHappens ==
  ASSUME IInv, NEW w \in Workers, NEW served, \A e \in served : Proper(e),
         NEW x \in Outcomes(conn[w], db[w], served), Happens(w, x)
  PROVE  /\ conn' \in [Workers -> Conns] /\ db' \in [Workers -> Sessions]
         /\ faults' \in 0..MaxFaults
         /\ conn'[w] = x.conn /\ db'[w] = x.db
         /\ \A v \in Workers \ {w} : conn'[v] = conn[v] /\ db'[v] = db[v]
         /\ Linked(x.conn, x.db)
         /\ ~x.conn.lost => Clear(x, served) /\ ~conn[w].lost
<1>1. conn \in [Workers -> Conns] /\ db \in [Workers -> Sessions] /\ faults \in 0..MaxFaults
  BY IInvParts DEF Typed
<1>2. Linked(conn[w], db[w])
  BY IInvParts DEF ShapeOf, Shape
<1>3. /\ Linked(x.conn, x.db)
      /\ ~x.conn.lost => Clear(x, served)
      /\ conn[w].lost => x.conn.lost
  BY <1>2, CallShape
<1>4. x.conn \in Conns /\ x.db \in Sessions
  BY <1>3 DEF Linked, Coherent
<1>5. /\ conn' = [conn EXCEPT ![w] = x.conn]
      /\ db' = [db EXCEPT ![w] = x.db]
      /\ Charges(x.fault)
  BY DEF Happens
<1>6. faults' \in 0..MaxFaults
  BY <1>1, <1>5, ChargesType
<1>7. QED
  BY <1>1, <1>3, <1>4, <1>5, <1>6

---------------------------------------------------------------------------
(* The three ways on from a call. *)

CallOf(w, x, served) ==
  /\ pc[w] = "attempt"
  /\ \A e \in served : Proper(e)
  /\ x \in Outcomes(conn[w], db[w], served)
  /\ Happens(w, x)

Histories == acked' \in [Workers -> SUBSET Nat] /\ blind' \in [Workers -> BOOLEAN]

LEMMA GoesOn ==
  ASSUME IInv, ExecIInv', NEW w \in Workers, NEW x, NEW served, CallOf(w, x, served),
         Histories, NEW j \in 1..Last(txn[w]), GoesTo(w, j),
         Program(txn[w])[j].op \notin {"begin", "report"}
  PROVE  IInv'
<1>1. /\ conn' \in [Workers -> Conns] /\ db' \in [Workers -> Sessions]
      /\ faults' \in 0..MaxFaults
      /\ conn'[w] = x.conn /\ db'[w] = x.db
      /\ \A v \in Workers \ {w} : conn'[v] = conn[v] /\ db'[v] = db[v]
      /\ Linked(x.conn, x.db)
  BY CallHappens DEF CallOf
<1>2. Typed
  BY IInvParts
<1>3. /\ at' \in [Workers -> Nat] /\ at'[w] = j
      /\ \A v \in Workers \ {w} : at'[v] = at[v]
      /\ UNCHANGED <<rolling, pc, txn>>
  <2>1. Last(txn[w]) \in Nat
    BY OlCntAssumption, DistrictsAssumption DEF Last
  <2>2. j \in Nat
    BY <2>1
  <2>3. QED
    BY <1>2, <2>2 DEF GoesTo, Typed, execVars, loopVars
<1>4. Typed'
  BY <1>1, <1>2, <1>3 DEF Typed, Histories
<1>5. Shape(pc'[w], txn'[w], at'[w], rolling'[w], conn'[w], db'[w])
  BY <1>1, <1>3 DEF Shape, CallOf
<1>6. QED
  BY <1>1, <1>3, <1>4, <1>5, OneWorker

LEMMA TurnsBack ==
  ASSUME IInv, ExecIInv', NEW w \in Workers, NEW x, NEW served, CallOf(w, x, served),
         Histories, GoesToRollback(w)
  PROVE  IInv'
<1>1. /\ conn' \in [Workers -> Conns] /\ db' \in [Workers -> Sessions]
      /\ faults' \in 0..MaxFaults
      /\ conn'[w] = x.conn /\ db'[w] = x.db
      /\ \A v \in Workers \ {w} : conn'[v] = conn[v] /\ db'[v] = db[v]
      /\ Linked(x.conn, x.db)
  BY CallHappens DEF CallOf
<1>2. Typed /\ ShapeOf(w)
  BY IInvParts
<1>3. /\ rolling' \in [Workers -> BOOLEAN] /\ rolling'[w]
      /\ \A v \in Workers \ {w} : rolling'[v] = rolling[v]
      /\ UNCHANGED <<at, pc, txn>>
  BY <1>2 DEF GoesToRollback, Typed, execVars, loopVars
<1>4. Typed'
  BY <1>1, <1>2, <1>3 DEF Typed, Histories
<1>5. Shape(pc'[w], txn'[w], at'[w], rolling'[w], conn'[w], db'[w])
  BY <1>1, <1>2, <1>3 DEF Shape, ShapeOf, CallOf
<1>6. QED
  BY <1>1, <1>3, <1>4, <1>5, OneWorker

\* An attempt may only return when its transaction is over.
LEMMA Leaves ==
  ASSUME IInv, ExecIInv', NEW w \in Workers, NEW x, NEW served, CallOf(w, x, served),
         Histories, NEW v, AttemptEnds(w, v),
         UNCHANGED at, rolling' \in [Workers -> BOOLEAN],
         \A u \in Workers \ {w} : rolling'[u] = rolling[u],
         ~x.conn.lost => x.db.session = "auto"
  PROVE  IInv'
<1>1. /\ conn' \in [Workers -> Conns] /\ db' \in [Workers -> Sessions]
      /\ faults' \in 0..MaxFaults
      /\ conn'[w] = x.conn /\ db'[w] = x.db
      /\ \A u \in Workers \ {w} : conn'[u] = conn[u] /\ db'[u] = db[u]
      /\ Linked(x.conn, x.db)
  BY CallHappens DEF CallOf
<1>2. Typed /\ pc \in [Workers -> Places \cup Ends]
  BY IInvParts DEF ExecIInv, ExecTypeOK
<1>3. /\ pc'[w] = "verdict" /\ UNCHANGED txn
      /\ \A u \in Workers \ {w} : pc'[u] = pc[u]
  BY <1>2 DEF AttemptEnds, Goes
<1>4. Typed'
  BY <1>1, <1>2 DEF Typed, Histories
<1>5. Shape(pc'[w], txn'[w], at'[w], rolling'[w], conn'[w], db'[w])
  BY <1>1, <1>3 DEF Shape
<1>6. QED
  BY <1>1, <1>3, <1>4, <1>5, OneWorker

---------------------------------------------------------------------------
(* The statements. *)

ServedTo(w) == Done(db[w], Current(w), at[w]) \cup NotDone(db[w], Current(w))

LEMMA AtStatementFacts ==
  ASSUME IInv, NEW w \in Workers, NEW op, AtStatement(w, op)
  PROVE  /\ pc[w] = "attempt"
         /\ txn[w] \in Types /\ at[w] \in 1..Last(txn[w]) /\ at[w] \in Nat
         /\ Current(w) \in Statement /\ Current(w).op = op
         /\ Coherent(db[w])
         /\ \A e \in ServedTo(w) : Proper(e)
         /\ op \in {"begin", "report"} /\ ~conn[w].lost => db[w].session = "auto"
<1>1. pc[w] = "attempt" /\ ~rolling[w] /\ Current(w).op = op
  BY DEF AtStatement
<1>2. ShapeOf(w) /\ Typed /\ txn[w] \in Types
  BY IInvParts, MixAssumption DEF ExecIInv, ExecTypeOK
<1>3. at[w] \in 1..Last(txn[w]) /\ at[w] \in Nat /\ Coherent(db[w])
  BY <1>1, <1>2 DEF ShapeOf, Shape, Typed, Linked
<1>4. Current(w) \in Statement
  BY <1>2, <1>3, ProgramShape DEF Current
<1>5. \A e \in ServedTo(w) : Proper(e)
  BY <1>3, <1>4, DoneProper, NotDoneProper DEF ServedTo
<1>6. op \in {"begin", "report"} /\ ~conn[w].lost => db[w].session = "auto"
  BY <1>1, <1>2, <1>3 DEF ShapeOf, Shape, Current, Coherent, Sessions
<1>7. QED
  BY <1>1, <1>2, <1>3, <1>4, <1>5, <1>6

\* The statements of which a transaction makes something else than a failure
\* go on inside its program.
LEMMA InnerStatement ==
  ASSUME IInv, NEW w \in Workers, NEW op, AtStatement(w, op)
  PROVE  /\ op \in {"begin", "select", "min", "write"} =>
              /\ at[w] + 1 \in 1..Last(txn[w])
              /\ Program(txn[w])[at[w] + 1].op \notin {"begin", "report"}
         /\ op = "min" =>
              /\ NextRound(at[w]) \in 1..Last(txn[w])
              /\ Program(txn[w])[NextRound(at[w])].op \notin {"begin", "report"}
<1>1. txn[w] \in Types /\ at[w] \in 1..Last(txn[w]) /\ Current(w).op = op
  BY AtStatementFacts
<1>2. QED
  BY <1>1, ProgramShape DEF Current

\* What is left of the session by statements that cannot open a transaction.
LEMMA StaysAuto ==
  ASSUME IInv, NEW w \in Workers, NEW op, AtStatement(w, op), op # "begin",
         db[w].session = "auto", NEW x, Clear(x, ServedTo(w))
  PROVE  x.db.session = "auto"
<1>1. Coherent(db[w]) /\ Current(w) \in Statement /\ Current(w).op = op /\ at[w] \in Nat
  BY AtStatementFacts
<1>2. \A e \in ServedTo(w) : e.db.session = "auto"
  BY <1>1, DoneProper, NotDoneProper DEF ServedTo
<1>3. QED
  BY <1>2 DEF Clear

LEMMA BeginsInv ==
  ASSUME IInv, ExecIInv', NEW w \in Workers, Begins(w)
  PROVE  IInv'
<1>1. AtStatement(w, "begin") /\ UNCHANGED <<acked, blind>>
  BY DEF Begins
<1>2. Histories
  BY <1>1, IInvParts DEF Typed, Histories
<1>3. PICK x \in Execute(w) :
        /\ Happens(w, x)
        /\ \/ ~Failed(x) /\ GoesTo(w, at[w] + 1)
           \/ Failed(x) /\ Returns(w, Kind(x))
  BY DEF Begins
<1>4. CallOf(w, x, ServedTo(w))
  BY <1>1, <1>3, AtStatementFacts DEF CallOf, Execute, ServedTo
<1>5. CASE GoesTo(w, at[w] + 1)
  BY <1>1, <1>2, <1>4, <1>5, GoesOn, InnerStatement
<1>6. CASE Failed(x) /\ Returns(w, Kind(x))
  <2>1. ASSUME ~x.conn.lost PROVE x.db.session = "auto"
    <3>1. Clear(x, ServedTo(w)) /\ ~conn[w].lost
      BY <1>4, <2>1, CallHappens DEF CallOf
    <3>2. /\ db[w].session = "auto" /\ Coherent(db[w])
          /\ Current(w) \in Statement /\ Current(w).op = "begin"
      BY <1>1, <3>1, AtStatementFacts
    <3>3. ASSUME NEW e \in ServedTo(w), x.result = e.answer, x.db = e.db
          PROVE  x.db.session = "auto"
      <4>1. CASE e \in Done(db[w], Current(w), at[w])
        <5>1. e = Served(Answer("command", 0), [db[w] EXCEPT !.session = "open"], {})
          BY <3>2, <4>1 DEF Done
        <5>2. QED
          BY <1>6, <3>3, <5>1 DEF Served, Answer, Failed, Errors
      <4>2. CASE e \in NotDone(db[w], Current(w))
        BY <3>2, <3>3, <4>2, NotDoneProper
      <4>3. QED
        BY <4>1, <4>2 DEF ServedTo
    <3>4. QED
      BY <3>1, <3>3 DEF Clear
  <2>2. UNCHANGED rolling /\ rolling \in [Workers -> BOOLEAN]
    BY <1>6, IInvParts DEF Returns, Typed
  <2>3. QED
    BY <1>2, <1>4, <1>6, <2>1, <2>2, Leaves DEF Returns
<1>7. QED
  BY <1>3, <1>5, <1>6

LEMMA SelectsInv ==
  ASSUME IInv, ExecIInv', NEW w \in Workers, Selects(w)
  PROVE  IInv'
<1>1. AtStatement(w, "select") /\ UNCHANGED <<acked, blind>>
  BY DEF Selects
<1>2. Histories
  BY <1>1, IInvParts DEF Typed, Histories
<1>3. PICK x \in Execute(w) :
        Happens(w, x) /\ (GoesToRollback(w) \/ GoesTo(w, at[w] + 1))
  BY DEF Selects
<1>4. CallOf(w, x, ServedTo(w))
  BY <1>1, <1>3, AtStatementFacts DEF CallOf, Execute, ServedTo
<1>5. QED
  BY <1>1, <1>2, <1>3, <1>4, GoesOn, TurnsBack, InnerStatement

LEMMA FindsOldestInv ==
  ASSUME IInv, ExecIInv', NEW w \in Workers, FindsOldest(w)
  PROVE  IInv'
<1>1. AtStatement(w, "min") /\ UNCHANGED acked
  BY DEF FindsOldest
<1>2. PICK x \in Execute(w) :
        /\ Happens(w, x)
        /\ GoesTo(w, at[w] + 1) \/ GoesTo(w, NextRound(at[w]))
        /\ blind' = [blind EXCEPT ![w] = @ \/ Failed(x)]
  BY DEF FindsOldest
<1>3. Histories
  <2>1. blind \in [Workers -> BOOLEAN] /\ acked \in [Workers -> SUBSET Nat]
    BY IInvParts DEF Typed
  <2>2. (blind[w] \/ Failed(x)) \in BOOLEAN
    OBVIOUS
  <2>3. blind' \in [Workers -> BOOLEAN]
    BY <1>2, <2>1, <2>2
  <2>4. QED
    BY <1>1, <2>1, <2>3 DEF Histories
<1>4. CallOf(w, x, ServedTo(w))
  BY <1>1, <1>2, AtStatementFacts DEF CallOf, Execute, ServedTo
<1>5. QED
  BY <1>1, <1>2, <1>3, <1>4, GoesOn, InnerStatement

LEMMA DoesWriteInv ==
  ASSUME IInv, ExecIInv', NEW w \in Workers, DoesWrite(w)
  PROVE  IInv'
<1>1. AtStatement(w, "write") /\ UNCHANGED blind
  BY DEF DoesWrite
<1>2. PICK x \in Execute(w) :
        /\ Happens(w, x)
        /\ \/ GoesToRollback(w) /\ UNCHANGED acked
           \/ /\ GoesTo(w, at[w] + 1)
              /\ acked' = [acked EXCEPT ![w] = @ \cup {at[w]}]
  BY DEF DoesWrite
<1>3. Histories
  BY <1>1, <1>2, IInvParts, AtStatementFacts DEF Typed, Histories
<1>4. CallOf(w, x, ServedTo(w))
  BY <1>1, <1>2, AtStatementFacts DEF CallOf, Execute, ServedTo
<1>5. QED
  BY <1>1, <1>2, <1>3, <1>4, GoesOn, TurnsBack, InnerStatement

LEMMA ReportsInv ==
  ASSUME IInv, ExecIInv', NEW w \in Workers, Reports(w)
  PROVE  IInv'
<1>1. AtStatement(w, "report") /\ UNCHANGED <<acked, blind>>
  BY DEF Reports
<1>2. Histories /\ rolling \in [Workers -> BOOLEAN]
  BY <1>1, IInvParts DEF Typed, Histories
<1>3. PICK x \in Execute(w) :
        Happens(w, x) /\ (Returns(w, "failed") \/ Returns(w, "ok"))
  BY DEF Reports
<1>4. CallOf(w, x, ServedTo(w))
  BY <1>1, <1>3, AtStatementFacts DEF CallOf, Execute, ServedTo
<1>5. ASSUME ~x.conn.lost PROVE x.db.session = "auto"
  <2>1. Clear(x, ServedTo(w)) /\ ~conn[w].lost
    BY <1>4, <1>5, CallHappens DEF CallOf
  <2>2. QED
    BY <1>1, <2>1, AtStatementFacts, StaysAuto
<1>6. QED
  BY <1>2, <1>3, <1>4, <1>5, Leaves DEF Returns

LEMMA CommitsInv ==
  ASSUME IInv, ExecIInv', NEW w \in Workers, Commits(w)
  PROVE  IInv'
<1>1. AtStatement(w, "commit") /\ UNCHANGED <<acked, blind>>
  BY DEF Commits
<1>2. Histories /\ rolling \in [Workers -> BOOLEAN]
  BY <1>1, IInvParts DEF Typed, Histories
<1>3. PICK x \in Execute(w) :
        Happens(w, x) /\ (GoesToRollback(w) \/ (~Failed(x) /\ Returns(w, "ok")))
  BY DEF Commits
<1>4. CallOf(w, x, ServedTo(w))
  BY <1>1, <1>3, AtStatementFacts DEF CallOf, Execute, ServedTo
<1>5. CASE GoesToRollback(w)
  BY <1>2, <1>4, <1>5, TurnsBack
<1>6. CASE ~Failed(x) /\ Returns(w, "ok")
  <2>1. ASSUME ~x.conn.lost PROVE x.db.session = "auto"
    <3>1. Clear(x, ServedTo(w))
      BY <1>4, <2>1, CallHappens DEF CallOf
    <3>2. /\ Coherent(db[w]) /\ at[w] \in Nat
          /\ Current(w) \in Statement /\ Current(w).op = "commit"
      BY <1>1, AtStatementFacts
    <3>3. ASSUME NEW e \in ServedTo(w), x.result = e.answer, x.db = e.db
          PROVE  x.db.session = "auto"
      BY <1>6, <3>2, <3>3, DoneProper, NotDoneProper DEF ServedTo, Failed
    <3>4. QED
      BY <3>1, <3>3 DEF Clear
  <2>2. QED
    BY <1>2, <1>4, <1>6, <2>1, Leaves DEF Returns
<1>7. QED
  BY <1>3, <1>5, <1>6

LEMMA RollsBackInv ==
  ASSUME IInv, ExecIInv', NEW w \in Workers, RollsBack(w)
  PROVE  IInv'
<1>1. /\ pc[w] = "attempt" /\ UNCHANGED <<at, acked, blind>>
      /\ AttemptEnds(w, "failed")
      /\ rolling' = [rolling EXCEPT ![w] = FALSE]
  BY DEF RollsBack
<1>2. Typed /\ Coherent(db[w])
  BY IInvParts DEF ShapeOf, Shape, Linked
<1>3. Histories /\ rolling' \in [Workers -> BOOLEAN]
  BY <1>1, <1>2 DEF Typed, Histories
<1>4. PICK x \in Outcomes(conn[w], db[w], RolledBack(db[w])) : Happens(w, x)
  BY DEF RollsBack
<1>5. CallOf(w, x, RolledBack(db[w]))
  BY <1>1, <1>2, <1>4, RolledBackProper DEF CallOf
<1>6. ASSUME ~x.conn.lost PROVE x.db.session = "auto"
  <2>1. Clear(x, RolledBack(db[w]))
    BY <1>5, <1>6, CallHappens DEF CallOf
  <2>2. QED
    BY <1>2, <2>1, RolledBackProper DEF Clear
<1>7. \A u \in Workers \ {w} : rolling'[u] = rolling[u]
  BY <1>1, <1>2 DEF Typed
<1>8. QED
  BY <1>1, <1>3, <1>5, <1>6, <1>7, Leaves

---------------------------------------------------------------------------
(* The steps between attempts. *)

\* The worker is elsewhere and the server has ended its session.
LEMMA Hung ==
  ASSUME IInv, ExecIInv', NEW w \in Workers, NEW d \in Sessions, Hangs(w, d),
         UNCHANGED <<txn, at, rolling, acked, blind>>, faults' \in 0..MaxFaults,
         NEW place, place # "attempt", pc' = [pc EXCEPT ![w] = place]
  PROVE  IInv'
<1>1. Typed /\ pc \in [Workers -> Places \cup Ends]
  BY IInvParts DEF ExecIInv, ExecTypeOK
<1>2. conn[w] \in Conns /\ Coherent(Ended(d)) /\ Ended(d).session = "auto"
  BY <1>1, EndedCoherent DEF Typed
<1>3. [[conn[w] EXCEPT !.link = "none"] EXCEPT !.late = <<>>] \in Conns
  BY <1>2, EmptySeq DEF Conns, Links
<1>4. conn' = [conn EXCEPT ![w] = [[conn[w] EXCEPT !.link = "none"] EXCEPT !.late = <<>>]]
  BY <1>1, <1>2 DEF Hangs, Typed, Conns
<1>5. /\ conn' \in [Workers -> Conns] /\ db' \in [Workers -> Sessions]
      /\ conn'[w] = [[conn[w] EXCEPT !.link = "none"] EXCEPT !.late = <<>>]
      /\ db'[w] = Ended(d)
      /\ \A v \in Workers \ {w} : conn'[v] = conn[v] /\ db'[v] = db[v]
  BY <1>1, <1>2, <1>3, <1>4 DEF Hangs, Typed, Coherent
<1>6. Linked(conn'[w], db'[w])
  BY <1>2, <1>3, <1>5 DEF Linked, Conns
<1>7. pc'[w] = place /\ \A v \in Workers \ {w} : pc'[v] = pc[v]
  BY <1>1
<1>8. Typed'
  BY <1>1, <1>5 DEF Typed
<1>9. Shape(pc'[w], txn'[w], at'[w], rolling'[w], conn'[w], db'[w])
  BY <1>2, <1>5, <1>6, <1>7 DEF Shape
<1>10. QED
  BY <1>5, <1>7, <1>8, <1>9, OneWorker

LEMMA PanicsInv ==
  ASSUME IInv, ExecIInv', NEW w \in Workers, Panics(w)
  PROVE  IInv'
<1>1. AtStatement(w, "select") /\ UNCHANGED <<txn, at, rolling, acked, blind>>
  BY DEF Panics, Panic
<1>2. pc' = [pc EXCEPT ![w] = "panicked"]
  BY DEF Panics, Panic, Goes
<1>3. PICK x \in Execute(w) : Charges(x.fault) /\ Hangs(w, x.db)
  BY DEF Panics
<1>4. x.db \in Sessions
  <2>1. Linked(conn[w], db[w])
    BY IInvParts DEF ShapeOf, Shape
  <2>2. x \in Outcomes(conn[w], db[w], ServedTo(w)) /\ \A e \in ServedTo(w) : Proper(e)
    BY <1>1, AtStatementFacts DEF Execute, ServedTo
  <2>3. Linked(x.conn, x.db)
    BY <2>1, <2>2, CallShape
  <2>4. QED
    BY <2>3 DEF Linked, Coherent
<1>5. faults' \in 0..MaxFaults
  BY <1>3, IInvParts, ChargesType DEF Typed
<1>6. QED
  BY <1>1, <1>2, <1>3, <1>4, <1>5, Hung

LEMMA OpensInv ==
  ASSUME IInv, ExecIInv', NEW w \in Workers, Opens(w)
  PROVE  IInv'
<1>1. Typed /\ pc \in [Workers -> Places \cup Ends]
  BY IInvParts DEF ExecIInv, ExecTypeOK
<1>2. /\ pc' \in {[pc EXCEPT ![w] = "next"], [pc EXCEPT ![w] = "retry"]}
      /\ conn' = [conn EXCEPT ![w] = NewConn("up")]
      /\ db' = [db EXCEPT ![w] = Ended(@)]
      /\ UNCHANGED <<txn, at, rolling, acked, blind, faults>>
  BY DEF Opens, Connect, Reconnect, Goes
<1>3. Coherent(Ended(db[w])) /\ Ended(db[w]).session = "auto"
  BY <1>1, EndedCoherent DEF Typed
<1>4. NewConn("up") \in Conns /\ NewConn("up").late = <<>>
  BY EmptySeq DEF NewConn, Conns, Links
<1>5. /\ conn' \in [Workers -> Conns] /\ db' \in [Workers -> Sessions]
      /\ conn'[w] = NewConn("up") /\ db'[w] = Ended(db[w])
      /\ pc'[w] # "attempt"
      /\ \A v \in Workers \ {w} : conn'[v] = conn[v] /\ db'[v] = db[v] /\ pc'[v] = pc[v]
  BY <1>1, <1>2, <1>3, <1>4 DEF Typed, Coherent
<1>6. Typed'
  BY <1>1, <1>2, <1>5 DEF Typed
<1>7. Shape(pc'[w], txn'[w], at'[w], rolling'[w], conn'[w], db'[w])
  BY <1>3, <1>4, <1>5 DEF Shape, Linked
<1>8. QED
  BY <1>2, <1>5, <1>6, <1>7, OneWorker

LEMMA EndsInv ==
  ASSUME IInv, ExecIInv', NEW w \in Workers, OpenFails(w) \/ Finishes(w)
  PROVE  IInv'
<1>1. db[w] \in Sessions /\ faults \in 0..MaxFaults
  BY IInvParts DEF Typed
<1>2. CASE OpenFails(w)
  <2>1. pc' = [pc EXCEPT ![w] = "gone"] /\ UNCHANGED <<txn, at, rolling, acked, blind>>
    BY <1>2 DEF OpenFails, ConnectFails, ReconnectFails, Goes
  <2>2. faults' \in 0..MaxFaults
    BY <1>1, <1>2, ChargesType DEF OpenFails
  <2>3. QED
    BY <1>1, <1>2, <2>1, <2>2, Hung DEF OpenFails
<1>3. CASE Finishes(w)
  <2>1. pc' = [pc EXCEPT ![w] = "done"] /\ UNCHANGED <<txn, at, rolling, acked, blind, faults>>
    BY <1>3 DEF Finishes, LoopEnds, Goes
  <2>2. QED
    BY <1>1, <1>3, <2>1, Hung DEF Finishes
<1>4. QED
  BY <1>2, <1>3

LEMMA StartsAttemptInv ==
  ASSUME IInv, ExecIInv', NEW w \in Workers, StartsAttempt(w)
  PROVE  IInv'
<1>1. Typed /\ ShapeOf(w) /\ pc \in [Workers -> Places \cup Ends]
  BY IInvParts DEF ExecIInv, ExecTypeOK
<1>2. /\ pc[w] = "retry" /\ pc' = [pc EXCEPT ![w] = "attempt"]
      /\ at' = [at EXCEPT ![w] = 1]
      /\ db' = [db EXCEPT ![w].durable = {}]
      /\ acked' = [acked EXCEPT ![w] = {}]
      /\ blind' = [blind EXCEPT ![w] = FALSE]
      /\ UNCHANGED <<txn, rolling, conn, faults>>
  BY DEF StartsAttempt, StartAttempt, Goes
<1>3. db[w] \in Sessions
  BY <1>1 DEF Typed
<1>4. [db[w] EXCEPT !.durable = {}] \in Sessions
  BY <1>3 DEF Sessions
<1>5. /\ db' \in [Workers -> Sessions] /\ at' \in [Workers -> Nat]
      /\ acked' \in [Workers -> SUBSET Nat] /\ blind' \in [Workers -> BOOLEAN]
      /\ db'[w] = [db[w] EXCEPT !.durable = {}]
      /\ at'[w] = 1 /\ pc'[w] = "attempt"
      /\ \A v \in Workers \ {w} : db'[v] = db[v] /\ at'[v] = at[v] /\ pc'[v] = pc[v]
  BY <1>1, <1>2, <1>4 DEF Typed
<1>6. db'[w].session = db[w].session /\ db'[w].work = db[w].work
  BY <1>3, <1>5 DEF Sessions
<1>7. Linked(conn'[w], db'[w])
  BY <1>1, <1>2, <1>4, <1>5, <1>6 DEF ShapeOf, Shape, Linked, Coherent
<1>8. 1 \in 1..Last(txn[w])
  BY OlCntAssumption, DistrictsAssumption DEF Last
<1>9. db'[w].session = "open" => conn'[w].lost
  BY <1>1, <1>2, <1>6 DEF ShapeOf, Shape
<1>10. Typed'
  BY <1>1, <1>2, <1>5 DEF Typed
<1>11. conn[w].lost \in BOOLEAN
  BY <1>1 DEF Typed, Conns
<1>12. Shape(pc'[w], txn'[w], at'[w], rolling'[w], conn'[w], db'[w])
  BY <1>2, <1>5, <1>7, <1>8, <1>9 DEF Shape
<1>13. QED
  BY <1>2, <1>5, <1>10, <1>12, OneWorker

\* The steps that leave the connection and the program alone.
LEMMA ExecutorStepInv ==
  ASSUME IInv, ExecIInv', NEW w \in Workers, ExecutorStep(w)
  PROVE  IInv'
<1>1. Typed /\ ShapeOf(w) /\ pc \in [Workers -> Places \cup Ends] /\ txn \in [Workers -> Mix]
  BY IInvParts DEF ExecIInv, ExecTypeOK
<1>2. /\ pc[w] # "attempt"
      /\ \E place \in Places \ {"attempt"} : pc' = [pc EXCEPT ![w] = place]
      /\ UNCHANGED txn \/ \E type \in Mix : txn' = [txn EXCEPT ![w] = type]
      /\ UNCHANGED attemptVars
  BY DEF ExecutorStep, NextTransaction, StopRetrying, Committed, Aborted, Lost, Goes, Places
<1>3. /\ pc'[w] # "attempt"
      /\ \A v \in Workers \ {w} : pc'[v] = pc[v] /\ txn'[v] = txn[v]
  BY <1>1, <1>2
<1>4. Typed'
  BY <1>1, <1>2 DEF Typed, attemptVars
<1>5. Shape(pc'[w], txn'[w], at'[w], rolling'[w], conn'[w], db'[w])
  BY <1>1, <1>2, <1>3 DEF Shape, ShapeOf, attemptVars
<1>6. QED
  BY <1>2, <1>3, <1>4, <1>5, OneWorker DEF attemptVars

\* The steps that leave every worker where it is.
LEMMA Rests ==
  ASSUME IInv, ExecIInv', UNCHANGED <<pc, txn>>, UNCHANGED attemptVars
  PROVE  IInv'
BY DEF IInv, TypeOK, ExecIInv, LateShape, SessionShape, Current, attemptVars

LEMMA InvInit == Init => IInv
<1> SUFFICES ASSUME Init PROVE IInv
  OBVIOUS
<1>1. ExecIInv
  BY ExecInvInit DEF Init
<1>2. Typed
  <2>1. NewConn("none") \in Conns /\ NewSession \in Sessions
    BY EmptySeq DEF NewConn, Conns, Links, NewSession, Sessions
  <2>2. QED
    BY <2>1, FaultsAssumption DEF Init, Typed
<1>3. \A w \in Workers : ShapeOf(w)
  <2>1. NewConn("none").late = <<>> /\ NewConn("none").link = "none"
    BY DEF NewConn
  <2>2. Linked(NewConn("none"), NewSession) /\ NewSession.session = "auto"
    BY EmptySeq DEF NewConn, Conns, Links, NewSession, Sessions, Linked, Coherent
  <2>3. QED
    BY <2>2 DEF Init, ExecInit, ShapeOf, Shape
<1>4. QED
  BY <1>1, <1>2, <1>3, IInvParts

LEMMA InvStep == IInv /\ [Next]_vars => IInv'
<1> SUFFICES ASSUME IInv, [Next]_vars PROVE IInv'
  OBVIOUS
<1>1. ExecIInv'
  BY NextRefines, ExecInvStep DEF IInv
<1>2. ASSUME NEW w \in Workers, Step(w) PROVE IInv'
  BY <1>1, <1>2, BeginsInv, SelectsInv, PanicsInv, FindsOldestInv, DoesWriteInv,
     ReportsInv, CommitsInv, RollsBackInv, OpensInv, EndsInv, StartsAttemptInv,
     ExecutorStepInv DEF Step, ProgramStep
<1>3. CASE OtherTasks
  <2>1. UNCHANGED <<pc, txn>> /\ UNCHANGED attemptVars
    BY <1>3 DEF OtherTasks, Others, Interrupt, ProgressEnds, JoinWorkers, Report,
                Returned, execVars, loopVars
  <2>2. QED
    BY <1>1, <2>1, Rests
<1>4. CASE UNCHANGED vars
  BY <1>1, <1>4, Rests DEF vars, execVars, loopVars
<1>5. QED
  BY <1>2, <1>3, <1>4 DEF Next

---------------------------------------------------------------------------
(* The theorems. *)

LEMMA InvHolds == Spec => []IInv
BY InvInit, InvStep, PTL DEF Spec

\* Every variable keeps its type; a running attempt is at a statement of its
\* program, whatever answers or failures brought it there.
THEOREM TypeCorrect == Spec => []TypeOK
<1>1. IInv => TypeOK
  BY DEF IInv
<1>2. QED
  BY <1>1, InvHolds, PTL

\* Every way out of the five transactions (transaction/*.rs) has closed the
\* transaction that its BEGIN opened, unless a call gave up on its answer.
THEOREM NothingLeftOpenHolds == Spec => []NothingLeftOpen
<1>1. IInv => NothingLeftOpen
  <2> SUFFICES ASSUME IInv, NEW w \in Workers, pc[w] \in {"verdict", "retry", "next"},
                      ~conn[w].lost
               PROVE  db[w].session = "auto" /\ db[w].work = {}
    BY DEF NothingLeftOpen
  <2>1. db[w].session \in {"auto", "open"}
    BY DEF IInv, TypeOK, Sessions
  <2>2. QED
    BY <2>1 DEF IInv, SessionShape
<1>2. QED
  BY <1>1, InvHolds, PTL

\* What is counted is complete: with statements, connections and faults as
\* with one-step attempts, an uninterrupted run whose workers all finish
\* reports threads * txn_per_thread transactions.
COROLLARY QuotaHoldsOfTransactions == Spec => []QuotaMet
BY Implementation, QuotaHolds, PTL DEF ImplementsExecutor
---------------------------------------------------------------------------
(* Units of writes. *)

LEMMA LastType == ASSUME NEW type PROVE Last(type) \in Nat \ {0}
BY OlCntAssumption, DistrictsAssumption DEF Last

LEMMA UnitsOfWrites ==
  ASSUME NEW type, NEW unit \in Units(type)
  PROVE  unit \subseteq Writes(type)
<1>1. CASE type = "Delivery"
  BY <1>1 DEF Units
<1>2. CASE type # "Delivery"
  BY <1>2 DEF Units
<1>3. QED
  BY <1>1, <1>2

LEMMA WritesType ==
  ASSUME NEW type
  PROVE  /\ Writes(type) \subseteq 1..Last(type)
         /\ Writes(type) \subseteq Nat \ {0}
         /\ \A i \in 1..Last(type) : i \in Writes(type) <=> Program(type)[i].op = "write"
<1>1. \A i \in 1..Last(type) : i \in Nat \ {0}
  BY LastType
<1>2. QED
  BY <1>1 DEF Writes

LEMMA NothingIsWhole == ASSUME NEW type PROVE Whole(type, {})
BY DEF Whole

LEMMA WholeAtStart == ASSUME NEW type PROVE WholeBefore(type, 1, {})
<1>1. \A j \in Writes(type) : ~(j < 1)
  BY WritesType
<1>2. {j \in Writes(type) : j < 1} = {}
  BY <1>1
<1>3. \A unit \in Units(type) : {j \in unit : j < 1} = {}
  BY <1>1, UnitsOfWrites
<1>4. QED
  BY <1>2, <1>3 DEF WholeBefore

\* Past a statement that does not write.
LEMMA WholePast ==
  ASSUME NEW type, NEW i \in 1..Last(type), Program(type)[i].op # "write",
         NEW W, WholeBefore(type, i, W)
  PROVE  WholeBefore(type, i + 1, W)
<1>1. i \in Nat /\ i \notin Writes(type)
  BY LastType, WritesType
<1>2. \A j \in Writes(type) : j < i <=> j < i + 1
  BY <1>1, WritesType
<1>3. {j \in Writes(type) : j < i} = {j \in Writes(type) : j < i + 1}
  BY <1>2
<1>4. \A unit \in Units(type) : {j \in unit : j < i} = {j \in unit : j < i + 1}
  BY <1>2, UnitsOfWrites
<1>5. QED
  BY <1>3, <1>4 DEF WholeBefore

\* Past a write that was done.
LEMMA WholeWith ==
  ASSUME NEW type, NEW i \in 1..Last(type), Program(type)[i].op = "write",
         NEW W, WholeBefore(type, i, W)
  PROVE  WholeBefore(type, i + 1, W \cup {i})
<1>1. i \in Nat /\ i \in Writes(type)
  BY LastType, WritesType
<1>2. \A j \in Writes(type) : j < i + 1 <=> j < i \/ j = i
  BY <1>1, WritesType
<1>3. {j \in Writes(type) : j < i + 1} = {j \in Writes(type) : j < i} \cup {i}
  BY <1>1, <1>2
<1>4. W \cup {i} \subseteq {j \in Writes(type) : j < i + 1}
  BY <1>3 DEF WholeBefore
<1>5. ASSUME NEW unit \in Units(type)
      PROVE  LET before == {j \in unit : j < i + 1}
             IN  /\ unit \cap (W \cup {i}) \in {{}, before}
                 /\ before \notin {{}, unit} => unit \cap (W \cup {i}) = before
  <2> DEFINE old == {j \in unit : j < i}
             new == {j \in unit : j < i + 1}
  <2>1. /\ unit \cap W \in {{}, old}
        /\ old \notin {{}, unit} => unit \cap W = old
    BY DEF WholeBefore
  <2>2. \A j \in unit : j < i + 1 <=> j < i \/ j = i
    BY <1>2, UnitsOfWrites
  <2>3. CASE i \in unit
    <3>1. new = old \cup {i} /\ unit \cap (W \cup {i}) = (unit \cap W) \cup {i}
      BY <2>2, <2>3
    <3>2. i \notin old
      BY <1>1
    <3>3. unit \cap W = old
      BY <2>1, <2>3, <3>2
    <3>4. QED
      BY <3>1, <3>3
  <2>4. CASE i \notin unit
    <3>1. new = old /\ unit \cap (W \cup {i}) = unit \cap W
      BY <2>2, <2>4
    <3>2. QED
      BY <2>1, <3>1
  <2>5. QED
    BY <2>3, <2>4
<1>6. type \in {"NewOrder", "Payment"} => W \cup {i} = {j \in Writes(type) : j < i + 1}
  BY <1>3 DEF WholeBefore
<1>7. QED
  BY <1>4, <1>5, <1>6 DEF WholeBefore

\* The MIN query is the first statement of a district's round, which has seven.
LEMMA RoundBegins ==
  ASSUME NEW i \in 1..Last("Delivery"), Delivery[i].op = "min"
  PROVE  i \in Nat /\ (i - 2) % 7 = 0 /\ i >= 2
<1>1. Last("Delivery") = 2 + 7 * Districts /\ i \in 1..(2 + 7 * Districts) /\ Districts \in Nat
  BY DistrictsAssumption DEF Last
<1>2. i # 1 /\ i # 2 + 7 * Districts
  BY <1>1 DEF Delivery, Begin, Commit, Plain
<1> DEFINE k == ((i - 2) % 7) + 1
<1>3. k \in 1..7
  BY <1>1, <1>2
<1>4. Delivery[i] = DeliveryRound[k]
  BY <1>1, <1>2 DEF Delivery
<1> HIDE DEF k
<1>5. k = 1
  BY <1>3, <1>4 DEF DeliveryRound, Query, Write, Plain
<1>6. QED
  BY <1>1, <1>2, <1>5 DEF k

LEMMA OnlyDeliveryLooks ==
  ASSUME NEW type \in Types, NEW i \in 1..Last(type), Program(type)[i].op = "min"
  PROVE  type = "Delivery" /\ Delivery[i].op = "min"
<1>1. CASE type = "NewOrder"
  BY <1>1, NewOrderShape DEF Program
<1>2. CASE type = "Payment"
  BY <1>2, PaymentShape DEF Program
<1>3. CASE type = "Delivery"
  BY <1>3 DEF Program
<1>4. CASE type \in ReadOnly
  <2>1. Last(type) = 1 /\ i = 1
    BY <1>4 DEF Last, ReadOnly
  <2>2. Program(type) \in {OrderStatus, StockLevel}
    BY <1>4 DEF Program, ReadOnly
  <2>3. QED
    BY <2>1, <2>2 DEF OrderStatus, StockLevel, Query
<1>5. QED
  BY <1>1, <1>2, <1>3, <1>4 DEF Types, ReadOnly

\* `continue`: a whole round is left out.
LEMMA WholeSkip ==
  ASSUME NEW type \in Types, NEW i \in 1..Last(type), Program(type)[i].op = "min",
         NEW W, WholeBefore(type, i, W)
  PROVE  WholeBefore(type, NextRound(i), W)
<1>1. type = "Delivery" /\ i \in Nat /\ (i - 2) % 7 = 0 /\ i >= 2
  BY OnlyDeliveryLooks, RoundBegins
<1>2. NextRound(i) = i + 7
  BY DEF NextRound
<1>3. \A j \in Writes(type) : j \in Nat \ {0}
  BY WritesType
<1>4. W \subseteq {j \in Writes(type) : j < i}
  BY DEF WholeBefore
<1>5. W \subseteq {j \in Writes(type) : j < i + 7}
  BY <1>1, <1>3, <1>4
<1>6. ASSUME NEW unit \in Units(type)
      PROVE  LET before == {j \in unit : j < i + 7}
             IN  /\ unit \cap W \in {{}, before}
                 /\ before \notin {{}, unit} => unit \cap W = before
  <2> DEFINE old == {j \in unit : j < i}
             new == {j \in unit : j < i + 7}
  <2>1. unit \cap W \in {{}, old}
    BY DEF WholeBefore
  <2>2. PICK d \in 0..(Districts - 1) : unit = {j \in Writes(type) : (j - 2) \div 7 = d}
    BY <1>1 DEF Units
  <2>3. d \in Int
    OBVIOUS
  <2>4. \A j \in unit : j \in Nat \ {0} /\ (j - 2) \div 7 = d
    BY <1>3, <2>2
  <2>5. PICK r \in Int : i = 7 * r + 2
    <3>1. i - 2 = 7 * ((i - 2) \div 7) + 0 /\ (i - 2) \div 7 \in Int
      BY <1>1
    <3>2. i = 7 * ((i - 2) \div 7) + 2
      BY <1>1, <3>1
    <3>3. QED
      BY <3>1, <3>2
  <2>6. \A j \in unit : 7 * d <= j - 2 /\ j - 2 < 7 * d + 7
    BY <2>3, <2>4
  <2>7. CASE d < r
    <3>1. \A j \in unit : j < i
      BY <2>3, <2>4, <2>5, <2>6, <2>7
    <3>2. \A j \in unit : j < i + 7
      BY <1>1, <2>4, <3>1
    <3>3. old = unit /\ new = unit
      BY <3>1, <3>2
    <3>4. QED
      BY <2>1, <3>3
  <2>8. CASE d >= r
    <3>1. \A j \in unit : ~(j < i)
      BY <2>3, <2>4, <2>5, <2>6, <2>8
    <3>2. old = {}
      BY <3>1
    <3>3. unit \cap W = {}
      BY <2>1, <3>2
    <3>4. CASE d = r
      <4>1. \A j \in unit : j < i + 7
        BY <2>3, <2>4, <2>5, <2>6, <3>4
      <4>2. new = unit
        BY <4>1
      <4>3. QED
        BY <3>3, <4>2
    <3>5. CASE d > r
      <4>1. \A j \in unit : ~(j < i + 7)
        BY <2>3, <2>4, <2>5, <2>6, <3>5
      <4>2. new = {}
        BY <4>1
      <4>3. QED
        BY <3>3, <4>2
    <3>6. QED
      BY <2>3, <2>5, <2>8, <3>4, <3>5
  <2>9. QED
    BY <2>3, <2>5, <2>7, <2>8
<1>7. QED
  BY <1>1, <1>2, <1>5, <1>6 DEF WholeBefore

LEMMA CommitIsLast ==
  ASSUME NEW type \in Types, NEW i \in 1..Last(type), Program(type)[i].op = "commit"
  PROVE  i = Last(type)
<1>1. CASE type = "NewOrder"
  BY <1>1, NewOrderShape DEF Program
<1>2. CASE type = "Payment"
  BY <1>2, PaymentShape DEF Program
<1>3. CASE type = "Delivery"
  BY <1>3, DeliveryShape DEF Program
<1>4. CASE type \in ReadOnly
  BY <1>4 DEF Last, ReadOnly
<1>5. QED
  BY <1>1, <1>2, <1>3, <1>4 DEF Types, ReadOnly

\* Before COMMIT: everything there is.
LEMMA WholeAtEnd ==
  ASSUME NEW type \in Types, NEW i \in 1..Last(type), Program(type)[i].op = "commit",
         NEW W, WholeBefore(type, i, W)
  PROVE  /\ Whole(type, W)
         /\ type \in {"NewOrder", "Payment"} => W = Writes(type)
<1>1. i = Last(type) /\ i \in Nat /\ i \notin Writes(type)
  BY CommitIsLast, LastType, WritesType
<1>2. \A j \in Writes(type) : j < i
  BY <1>1, WritesType
<1>3. {j \in Writes(type) : j < i} = Writes(type)
  BY <1>2
<1>4. \A unit \in Units(type) : {j \in unit : j < i} = unit
  BY <1>2, UnitsOfWrites
<1>5. QED
  BY <1>3, <1>4 DEF WholeBefore, Whole

---------------------------------------------------------------------------
(* What a call does to the writes of an attempt, while no call gave up.     *)

\* Ended and its variants keep what is durable.
LEMMA EndedKeeps == ASSUME NEW d \in Sessions PROVE Ended(d).durable = d.durable
BY DEF Ended, Sessions

\* The answer is the server's own, with its effect.
Heard(x, served) == \E e \in served : x.result = e.answer /\ x.db = e.db

\* The connection is gone; the server did the request, or never got it.
Gone(c, d, x, served) ==
  /\ x.result.kind = "connection" /\ x.conn.link = "dead"
  /\ \/ x.db.durable = d.durable
     \/ c.link # "dead" /\ \E e \in served : x.db.durable = e.db.durable

LEMMA CallEffect ==
  ASSUME NEW c, NEW d, Linked(c, d), NEW served, \A e \in served : Proper(e),
         NEW x \in Outcomes(c, d, served), ~x.conn.lost
  PROVE  Gone(c, d, x, served) \/ (c.link # "dead" /\ Heard(x, served))
<1>1. c \in Conns /\ d \in Sessions /\ c.late \in Seq(Answers)
  BY DEF Linked, Coherent, Conns
<1>2. CASE x \in Broken(c, d)
  <2>1. x = Outcome(Failure("connection"), [c EXCEPT !.link = "dead"], Ended(d), {"drop"})
    BY <1>2 DEF Broken
  <2>2. QED
    BY <1>1, <2>1, EndedKeeps DEF Outcome, Failure, Gone, Conns
<1>3. CASE c.link = "dead" /\ x \in Dead(c, d)
  <2>1. CASE x = Outcome(Failure("connection"), c, d, {})
    BY <1>3, <2>1 DEF Outcome, Failure, Gone
  <2>2. CASE c.late # <<>> /\ x \in Reads(c, c.late, d, {})
    <3>1. x.conn.lost = c.lost
      BY <1>1, <2>2, ReadsShape
    <3>2. QED
      BY <2>2, <3>1 DEF Linked
  <2>3. QED
    BY <1>3, <2>1, <2>2 DEF Dead
<1>4. ASSUME NEW e \in served, x \in Answered(c, e), c.link # "dead"
      PROVE  Gone(c, d, x, served) \/ Heard(x, served)
  <2> DEFINE q == Append(c.late, e.answer)
  <2>1. Proper(e) /\ e.db \in Sessions
    BY DEF Proper, Coherent
  <2>2. q \in Seq(Answers) /\ q # <<>>
    BY <1>1, <2>1, AppendProperties DEF Proper
  <2>3. c.late = <<>> => Head(q) = e.answer
    OBVIOUS
  <2> HIDE DEF q
  <2>4. CASE x \in Reads(c, q, e.db, e.fault)
    <3>1. /\ x.conn.lost = c.lost /\ x.db = e.db
          /\ c.late = <<>> => x.result = Head(q)
      BY <1>1, <2>2, <2>4, ReadsShape
    <3>2. c.late = <<>>
      BY <3>1 DEF Linked
    <3>3. QED
      BY <2>3, <3>1, <3>2 DEF Heard
  <2>5. CASE x = Outcome(Failure("timeout"), [c EXCEPT !.late = q, !.lost = TRUE],
                         e.db, e.fault \cup {"timeout"})
    BY <1>1, <2>5 DEF Outcome, Conns
  <2>6. CASE x = Outcome(Failure("connection"), [c EXCEPT !.late = <<>>, !.link = "dead"],
                         Ended(e.db), e.fault \cup {"drop"})
    <3>1. x.db.durable = e.db.durable
      BY <2>1, <2>6, EndedKeeps DEF Outcome
    <3>2. x.result.kind = "connection" /\ x.conn.link = "dead"
      BY <1>1, <2>6 DEF Outcome, Failure, Conns
    <3>3. QED
      BY <1>4, <3>1, <3>2 DEF Gone
  <2>7. QED
    BY <1>4, <2>4, <2>5, <2>6 DEF Answered, q
<1>5. QED
  BY <1>2, <1>3, <1>4 DEF Outcomes

\* What a statement that is done does to the writes.
LEMMA DoneEffect ==
  ASSUME NEW d \in Sessions, NEW s \in Statement, NEW i \in Nat, NEW e \in Done(d, s, i)
  PROVE  /\ s.op \in {"select", "report", "min"} => e.db = d
         /\ s.op = "begin" =>
              e.db.session = "open" /\ e.db.work = d.work /\ e.db.durable = d.durable
         /\ s.op = "write" /\ d.session = "open" =>
              /\ e.db.session = "open" /\ e.db.work = d.work \cup {i}
              /\ e.db.durable = d.durable
         /\ s.op = "commit" => e.db.durable = d.durable \cup d.work
<1> USE DEF Served
<1>1. d = [session |-> d.session, work |-> d.work, durable |-> d.durable]
  BY DEF Sessions
<1>2. CASE s.op = "begin"
  <2>1. e = Served(Answer("command", 0), [d EXCEPT !.session = "open"], {})
    BY <1>2 DEF Done
  <2>2. QED
    BY <1>1, <1>2, <2>1
<1>3. CASE s.op \in {"select", "report"}
  <2>1. e = Served(Answer("rows", s.cols), d, {})
    BY <1>3 DEF Done
  <2>2. QED
    BY <1>3, <2>1
<1>4. CASE s.op = "min"
  <2>1. PICK kind \in {"rows", "null", "none"} : e = Served(Answer(kind, 1), d, {})
    BY <1>4 DEF Done
  <2>2. QED
    BY <1>4, <2>1
<1>5. CASE s.op = "write"
  <2>1. d.session = "open" =>
          e = Served(Answer("command", 0), [d EXCEPT !.work = @ \cup {i}], {})
    BY <1>5 DEF Done
  <2>2. QED
    BY <1>1, <1>5, <2>1
<1>6. CASE s.op = "commit"
  <2>1. e = Served(Answer("command", 0), Ended([d EXCEPT !.durable = @ \cup d.work]), {})
    BY <1>6 DEF Done
  <2>2. [d EXCEPT !.durable = @ \cup d.work] \in Sessions
    BY <1>1 DEF Sessions
  <2>3. QED
    BY <1>1, <1>6, <2>1, <2>2, EndedKeeps
<1>7. QED
  BY <1>2, <1>3, <1>4, <1>5, <1>6 DEF Statement, Ops

LEMMA NotDoneEffect ==
  ASSUME NEW d \in Sessions, NEW s \in Statement, NEW e \in NotDone(d, s)
  PROVE  e.db.durable = d.durable
<1>1. e.db \in {Ended(d), d}
  BY DEF NotDone, Served
<1>2. QED
  BY <1>1, EndedKeeps

LEMMA RolledBackEffect ==
  ASSUME NEW d \in Sessions, NEW e \in RolledBack(d)
  PROVE  e.db.durable = d.durable
<1>1. e.db \in {Ended(d), d}
  BY DEF RolledBack, Served
<1>2. QED
  BY <1>1, EndedKeeps

LEMMA DoneAnswers ==
  ASSUME NEW d, NEW s \in Statement, NEW i, NEW e \in Done(d, s, i)
  PROVE  /\ e.answer.kind \notin Errors
         /\ s.op = "select" => e.answer.kind = "rows"
<1> USE DEF Served, Answer, Errors
<1>1. CASE s.op = "begin"
  <2>1. e = Served(Answer("command", 0), [d EXCEPT !.session = "open"], {})
    BY <1>1 DEF Done
  <2>2. QED
    BY <1>1, <2>1
<1>2. CASE s.op \in {"select", "report"}
  <2>1. e = Served(Answer("rows", s.cols), d, {})
    BY <1>2 DEF Done
  <2>2. QED
    BY <1>2, <2>1
<1>3. CASE s.op = "min"
  <2>1. PICK kind \in {"rows", "null", "none"} : e = Served(Answer(kind, 1), d, {})
    BY <1>3 DEF Done
  <2>2. QED
    BY <1>3, <2>1
<1>4. CASE s.op = "write"
  <2>1. \E f : e = Served(Answer("command", 0), f, {})
    BY <1>4 DEF Done
  <2>2. QED
    BY <1>4, <2>1
<1>5. CASE s.op = "commit"
  <2>1. \E f : e = Served(Answer("command", 0), f, {})
    BY <1>5 DEF Done
  <2>2. QED
    BY <1>5, <2>1
<1>6. QED
  BY <1>1, <1>2, <1>3, <1>4, <1>5 DEF Statement, Ops

---------------------------------------------------------------------------
(* The statements of a sound attempt. *)

\* What holds before a call of a statement, and what its outcome x can be.
LEMMA AtCall ==
  ASSUME IInv, NEW w \in Workers, WorkShape(w), ~blind[w],
         NEW op, AtStatement(w, op),
         NEW x \in Execute(w), Happens(w, x), ~x.conn.lost
  PROVE  /\ conn'[w] = x.conn /\ db'[w] = x.db
         /\ db[w] \in Sessions /\ Current(w) \in Statement /\ Current(w).op = op
         /\ pc[w] = "attempt" /\ ~rolling[w] /\ txn[w] \in Types
         /\ at[w] \in 1..Last(txn[w]) /\ at[w] \in Nat
         /\ db[w].durable = {} /\ db[w].work = acked[w]
         /\ op \in {"begin", "report"} => acked[w] = {}
         /\ op \notin {"begin", "report"} => db[w].session = "open"
         /\ WholeBefore(txn[w], at[w], acked[w])
         /\ Failed(x) =>
              \/ x.db.durable = {}
              \/ op = "commit" /\ x.conn.link = "dead" /\ x.db.durable = acked[w]
         /\ ~Failed(x) =>
              \/ \E e \in Done(db[w], Current(w), at[w]) : x.result = e.answer /\ x.db = e.db
              \/ x.result.kind = "none" /\ op \in {"select", "report"} /\ x.db.durable = {}
<1>1. /\ pc[w] = "attempt" /\ txn[w] \in Types
      /\ at[w] \in 1..Last(txn[w]) /\ at[w] \in Nat
      /\ Current(w) \in Statement /\ Current(w).op = op
      /\ Coherent(db[w]) /\ \A e \in ServedTo(w) : Proper(e)
      /\ op \in {"begin", "report"} /\ ~conn[w].lost => db[w].session = "auto"
  BY AtStatementFacts
<1>2. ~rolling[w]
  BY DEF AtStatement
<1>3. x \in Outcomes(conn[w], db[w], ServedTo(w))
  BY DEF Execute, ServedTo
<1>4. conn'[w] = x.conn /\ db'[w] = x.db /\ ~conn[w].lost
  BY <1>1, <1>3, CallHappens
<1>5. /\ db[w].durable = {} /\ db[w].work = acked[w]
      /\ Current(w).op \in {"begin", "report"} \/ db[w].session = "open"
      /\ WholeBefore(txn[w], at[w], acked[w])
  BY <1>1, <1>2, <1>4 DEF WorkShape, Sound
<1>6. db[w] \in Sessions
  BY <1>1 DEF Coherent
<1>7. op \in {"begin", "report"} => acked[w] = {}
  BY <1>1, <1>4, <1>5 DEF Coherent
<1>8. op \notin {"begin", "report"} => db[w].session = "open"
  BY <1>1, <1>5
<1>9. Linked(conn[w], db[w])
  BY IInvParts DEF ShapeOf, Shape
<1>10. Gone(conn[w], db[w], x, ServedTo(w)) \/ Heard(x, ServedTo(w))
  BY <1>1, <1>3, <1>9, CallEffect
<1>11. ASSUME NEW e \in ServedTo(w)
       PROVE  e.db.durable = {} \/ (op = "commit" /\ e.db.durable = acked[w])
  <2>1. CASE e \in NotDone(db[w], Current(w))
    BY <1>1, <1>5, <1>6, <2>1, NotDoneEffect
  <2>2. CASE e \in Done(db[w], Current(w), at[w])
    <3>1. op \in Ops
      BY <1>1 DEF Statement
    <3>2. CASE op \in {"select", "report", "min", "begin"}
      BY <1>1, <1>5, <1>6, <2>2, <3>2, DoneEffect
    <3>3. CASE op = "write"
      BY <1>1, <1>5, <1>6, <1>8, <2>2, <3>3, DoneEffect
    <3>4. CASE op = "commit"
      <4>1. e.db.durable = db[w].durable \cup db[w].work
        BY <1>1, <1>6, <2>2, <3>4, DoneEffect
      <4>2. QED
        BY <1>5, <3>4, <4>1
    <3>5. QED
      BY <3>1, <3>2, <3>3, <3>4 DEF Ops
  <2>3. QED
    BY <2>1, <2>2 DEF ServedTo
<1>12. ASSUME Failed(x)
       PROVE  \/ x.db.durable = {}
              \/ op = "commit" /\ x.conn.link = "dead" /\ x.db.durable = acked[w]
  <2>1. CASE Gone(conn[w], db[w], x, ServedTo(w))
    BY <1>5, <1>11, <2>1 DEF Gone
  <2>2. CASE Heard(x, ServedTo(w))
    <3>1. PICK e \in ServedTo(w) : x.result = e.answer /\ x.db = e.db
      BY <2>2 DEF Heard
    <3>2. e \in NotDone(db[w], Current(w))
      BY <1>1, <1>12, <3>1, DoneAnswers DEF Failed, ServedTo
    <3>3. QED
      BY <1>5, <1>6, <1>1, <3>1, <3>2, NotDoneEffect
  <2>3. QED
    BY <1>10, <2>1, <2>2
<1>13. ASSUME ~Failed(x)
       PROVE  \/ \E e \in Done(db[w], Current(w), at[w]) : x.result = e.answer /\ x.db = e.db
              \/ x.result.kind = "none" /\ op \in {"select", "report"} /\ x.db.durable = {}
  <2>1. PICK e \in ServedTo(w) : x.result = e.answer /\ x.db = e.db
    BY <1>10, <1>13 DEF Gone, Heard, Failed, Errors
  <2>2. CASE e \in NotDone(db[w], Current(w))
    <3>1. e.answer.kind = "none" /\ op \in {"select", "report"}
      BY <1>1, <1>13, <2>1, <2>2, NotDoneProper DEF Failed
    <3>2. e.db.durable = {}
      BY <1>1, <1>5, <1>6, <2>2, NotDoneEffect
    <3>3. QED
      BY <2>1, <3>1, <3>2
  <2>3. QED
    BY <2>1, <2>2 DEF ServedTo
<1>14. QED
  BY <1>1, <1>2, <1>4, <1>5, <1>6, <1>7, <1>8, <1>12, <1>13

\* The ways on: to another statement, to ROLLBACK, or out of the program.
LEMMA Proceeds ==
  ASSUME IInv, NEW w \in Workers, pc[w] = "attempt", ~rolling[w], NEW j, GoesTo(w, j),
         db'[w].durable = {}, db'[w].work = acked'[w], db'[w].session = "open",
         WholeBefore(txn[w], j, acked'[w])
  PROVE  WorkShape(w)'
<1>1. at'[w] = j /\ pc'[w] = "attempt" /\ ~rolling'[w] /\ txn'[w] = txn[w]
  BY IInvParts DEF Typed, GoesTo, execVars, loopVars
<1>2. QED
  BY <1>1 DEF WorkShape

LEMMA Retreats ==
  ASSUME IInv, NEW w \in Workers, pc[w] = "attempt", GoesToRollback(w),
         \/ db'[w].durable = {}
         \/ /\ Whole(txn[w], db'[w].durable)
            /\ conn'[w].link = "dead" /\ Current(w).op = "commit"
  PROVE  WorkShape(w)'
<1>1. at'[w] = at[w] /\ pc'[w] = "attempt" /\ rolling'[w] /\ txn'[w] = txn[w]
  BY IInvParts DEF Typed, GoesToRollback, execVars, loopVars
<1>2. Current(w)' = Current(w)
  BY <1>1 DEF Current
<1>3. QED
  BY <1>1, <1>2 DEF WorkShape

LEMMA VerdictFacts ==
  ASSUME IInv, NEW w \in Workers, NEW v, AttemptEnds(w, v), UNCHANGED at
  PROVE  /\ pc'[w] = "verdict" /\ verdict'[w] = v /\ txn'[w] = txn[w]
         /\ Current(w)' = Current(w)
<1>1. pc \in [Workers -> Places \cup Ends] /\ verdict \in [Workers -> Verdicts]
  BY DEF IInv, ExecIInv, ExecTypeOK
<1>2. pc'[w] = "verdict" /\ verdict'[w] = v /\ txn' = txn /\ at' = at
  BY <1>1 DEF AttemptEnds, Goes
<1>3. QED
  BY <1>2 DEF Current

LEMMA Fails ==
  ASSUME IInv, NEW w \in Workers, NEW v, v # "ok", AttemptEnds(w, v), UNCHANGED at,
         \/ db'[w].durable = {}
         \/ /\ Whole(txn[w], db'[w].durable)
            /\ conn'[w].link = "dead" /\ Current(w).op = "commit"
  PROVE  WorkShape(w)'
BY VerdictFacts DEF WorkShape

LEMMA Succeeds ==
  ASSUME IInv, NEW w \in Workers, AttemptEnds(w, "ok"), UNCHANGED at,
         db'[w].durable = acked'[w], Whole(txn[w], acked'[w]),
         txn[w] \in {"NewOrder", "Payment"} => acked'[w] = Writes(txn[w])
  PROVE  WorkShape(w)'
BY VerdictFacts DEF WorkShape

LEMMA BeginsWhole ==
  ASSUME IInv, NEW w \in Workers, WorkShape(w), Begins(w)
  PROVE  WorkShape(w)'
<1> SUFFICES ASSUME Sound(w)' PROVE WorkShape(w)'
  BY DEF WorkShape
<1>1. AtStatement(w, "begin") /\ UNCHANGED <<acked, blind>>
  BY DEF Begins
<1>2. PICK x \in Execute(w) :
        /\ Happens(w, x)
        /\ \/ ~Failed(x) /\ GoesTo(w, at[w] + 1)
           \/ Failed(x) /\ Returns(w, Kind(x))
  BY DEF Begins
<1>3. ~blind[w] /\ ~x.conn.lost
  BY <1>1, <1>2, IInvParts DEF Sound, Happens, Typed
<1>4. CASE ~Failed(x) /\ GoesTo(w, at[w] + 1)
  <2>1. PICK e \in Done(db[w], Current(w), at[w]) : x.result = e.answer /\ x.db = e.db
    BY <1>1, <1>2, <1>3, <1>4, AtCall
  <2>2. x.db.session = "open" /\ x.db.work = acked[w] /\ x.db.durable = {}
    BY <1>1, <1>2, <1>3, <2>1, AtCall, DoneEffect
  <2>3. WholeBefore(txn[w], at[w] + 1, acked[w])
    BY <1>1, <1>2, <1>3, AtCall, WholePast DEF Current
  <2>4. QED
    BY <1>1, <1>2, <1>3, <1>4, <2>2, <2>3, AtCall, Proceeds
<1>5. CASE Failed(x) /\ Returns(w, Kind(x))
  <2>1. db'[w].durable = {}
    BY <1>1, <1>2, <1>3, <1>5, AtCall
  <2>2. Kind(x) # "ok"
    BY DEF Kind
  <2>3. QED
    BY <1>5, <2>1, <2>2, Fails DEF Returns
<1>6. QED
  BY <1>2, <1>4, <1>5

LEMMA SelectsWhole ==
  ASSUME IInv, NEW w \in Workers, WorkShape(w), Selects(w)
  PROVE  WorkShape(w)'
<1> SUFFICES ASSUME Sound(w)' PROVE WorkShape(w)'
  BY DEF WorkShape
<1>1. AtStatement(w, "select") /\ UNCHANGED <<acked, blind>>
  BY DEF Selects
<1>2. PICK x \in Execute(w) :
        /\ Happens(w, x)
        /\ \/ (Failed(x) \/ NoRows(x)) /\ GoesToRollback(w)
           \/ ~(Failed(x) \/ NoRows(x)) /\ GoesTo(w, at[w] + 1)
  BY DEF Selects
<1>3. ~blind[w] /\ ~x.conn.lost
  BY <1>1, <1>2, IInvParts DEF Sound, Happens, Typed
<1>4. CASE ~(Failed(x) \/ NoRows(x)) /\ GoesTo(w, at[w] + 1)
  <2>1. PICK e \in Done(db[w], Current(w), at[w]) : x.result = e.answer /\ x.db = e.db
    BY <1>1, <1>2, <1>3, <1>4, AtCall DEF NoRows
  <2>2. x.db = db[w]
    BY <1>1, <1>2, <1>3, <2>1, AtCall, DoneEffect
  <2>3. WholeBefore(txn[w], at[w] + 1, acked[w])
    BY <1>1, <1>2, <1>3, AtCall, WholePast DEF Current
  <2>4. QED
    BY <1>1, <1>2, <1>3, <1>4, <2>2, <2>3, AtCall, Proceeds
<1>5. CASE (Failed(x) \/ NoRows(x)) /\ GoesToRollback(w)
  <2>1. CASE Failed(x)
    BY <1>1, <1>2, <1>3, <1>5, <2>1, AtCall, Retreats
  <2>2. CASE ~Failed(x)
    <3>1. x.db.durable = {}
      <4>1. ASSUME NEW e \in Done(db[w], Current(w), at[w]), x.db = e.db
            PROVE  x.db.durable = {}
        BY <1>1, <1>2, <1>3, <4>1, AtCall, DoneEffect
      <4>2. QED
        BY <1>1, <1>2, <1>3, <2>2, <4>1, AtCall
    <3>2. QED
      BY <1>1, <1>2, <1>3, <1>5, <3>1, AtCall, Retreats
  <2>3. QED
    BY <2>1, <2>2
<1>6. QED
  BY <1>2, <1>4, <1>5

LEMMA FindsOldestWhole ==
  ASSUME IInv, NEW w \in Workers, WorkShape(w), FindsOldest(w)
  PROVE  WorkShape(w)'
<1> SUFFICES ASSUME Sound(w)' PROVE WorkShape(w)'
  BY DEF WorkShape
<1>1. AtStatement(w, "min") /\ UNCHANGED acked
  BY DEF FindsOldest
<1>2. PICK x \in Execute(w) :
        /\ Happens(w, x)
        /\ GoesTo(w, at[w] + 1) \/ GoesTo(w, NextRound(at[w]))
        /\ blind' = [blind EXCEPT ![w] = @ \/ Failed(x)]
  BY DEF FindsOldest
<1>3. ~blind[w] /\ ~x.conn.lost /\ ~Failed(x)
  <2>1. conn'[w] = x.conn /\ blind'[w] = (blind[w] \/ Failed(x))
    BY <1>2, IInvParts DEF Happens, Typed
  <2>2. QED
    BY <2>1 DEF Sound
<1>4. PICK e \in Done(db[w], Current(w), at[w]) : x.result = e.answer /\ x.db = e.db
  BY <1>1, <1>2, <1>3, AtCall
<1>5. x.db = db[w]
  BY <1>1, <1>2, <1>3, <1>4, AtCall, DoneEffect
<1>6. WholeBefore(txn[w], at[w] + 1, acked[w])
  BY <1>1, <1>2, <1>3, AtCall, WholePast DEF Current
<1>7. WholeBefore(txn[w], NextRound(at[w]), acked[w])
  BY <1>1, <1>2, <1>3, AtCall, WholeSkip DEF Current
<1>8. QED
  BY <1>1, <1>2, <1>3, <1>5, <1>6, <1>7, AtCall, Proceeds

LEMMA DoesWriteWhole ==
  ASSUME IInv, NEW w \in Workers, WorkShape(w), DoesWrite(w)
  PROVE  WorkShape(w)'
<1> SUFFICES ASSUME Sound(w)' PROVE WorkShape(w)'
  BY DEF WorkShape
<1>1. AtStatement(w, "write") /\ UNCHANGED blind
  BY DEF DoesWrite
<1>2. PICK x \in Execute(w) :
        /\ Happens(w, x)
        /\ \/ Failed(x) /\ GoesToRollback(w) /\ UNCHANGED acked
           \/ /\ ~Failed(x)
              /\ GoesTo(w, at[w] + 1)
              /\ acked' = [acked EXCEPT ![w] = @ \cup {at[w]}]
  BY DEF DoesWrite
<1>3. ~blind[w] /\ ~x.conn.lost
  BY <1>1, <1>2, IInvParts DEF Sound, Happens, Typed
<1>4. CASE Failed(x) /\ GoesToRollback(w)
  BY <1>1, <1>2, <1>3, <1>4, AtCall, Retreats
<1>5. CASE /\ ~Failed(x) /\ GoesTo(w, at[w] + 1)
           /\ acked' = [acked EXCEPT ![w] = @ \cup {at[w]}]
  <2>1. PICK e \in Done(db[w], Current(w), at[w]) : x.result = e.answer /\ x.db = e.db
    BY <1>1, <1>2, <1>3, <1>5, AtCall
  <2>2. acked'[w] = acked[w] \cup {at[w]}
    BY <1>5, IInvParts DEF Typed
  <2>3. x.db.session = "open" /\ x.db.work = acked'[w] /\ x.db.durable = {}
    BY <1>1, <1>2, <1>3, <2>1, <2>2, AtCall, DoneEffect
  <2>4. WholeBefore(txn[w], at[w] + 1, acked'[w])
    BY <1>1, <1>2, <1>3, <2>2, AtCall, WholeWith DEF Current
  <2>5. pc[w] = "attempt" /\ ~rolling[w] /\ db'[w] = x.db
    BY <1>1, <1>2, <1>3, AtCall
  <2>6. QED
    BY <1>5, <2>3, <2>4, <2>5, Proceeds
<1>6. QED
  BY <1>2, <1>4, <1>5

LEMMA ReportsWhole ==
  ASSUME IInv, NEW w \in Workers, WorkShape(w), Reports(w)
  PROVE  WorkShape(w)'
<1> SUFFICES ASSUME Sound(w)' PROVE WorkShape(w)'
  BY DEF WorkShape
<1>1. AtStatement(w, "report") /\ UNCHANGED <<acked, blind>>
  BY DEF Reports
<1>2. PICK x \in Execute(w) :
        Happens(w, x) /\ (Returns(w, "failed") \/ Returns(w, "ok"))
  BY DEF Reports
<1>3. ~blind[w] /\ ~x.conn.lost
  BY <1>1, <1>2, IInvParts DEF Sound, Happens, Typed
<1>4. x.db.durable = {} /\ acked[w] = {}
  <2>1. ASSUME NEW e \in Done(db[w], Current(w), at[w]), x.db = e.db
        PROVE  x.db.durable = {}
    BY <1>1, <1>2, <1>3, <2>1, AtCall, DoneEffect
  <2>2. QED
    BY <1>1, <1>2, <1>3, <2>1, AtCall
<1>5. txn[w] \notin {"NewOrder", "Payment"}
  <2>1. /\ txn[w] \in Types /\ at[w] \in 1..Last(txn[w])
        /\ Program(txn[w])[at[w]].op = "report"
    BY <1>1, <1>2, <1>3, AtCall DEF Current
  <2>2. CASE txn[w] = "NewOrder"
    BY <2>1, <2>2, NewOrderShape DEF Program
  <2>3. CASE txn[w] = "Payment"
    BY <2>1, <2>3, PaymentShape DEF Program
  <2>4. QED
    BY <2>2, <2>3
<1>6. db'[w].durable = {} /\ acked'[w] = {}
  BY <1>1, <1>2, <1>3, <1>4, AtCall
<1>7. QED
  BY <1>2, <1>5, <1>6, Fails, Succeeds, NothingIsWhole DEF Returns

LEMMA CommitsWhole ==
  ASSUME IInv, NEW w \in Workers, WorkShape(w), Commits(w)
  PROVE  WorkShape(w)'
<1> SUFFICES ASSUME Sound(w)' PROVE WorkShape(w)'
  BY DEF WorkShape
<1>1. AtStatement(w, "commit") /\ UNCHANGED <<acked, blind>>
  BY DEF Commits
<1>2. PICK x \in Execute(w) :
        /\ Happens(w, x)
        /\ \/ Failed(x) /\ GoesToRollback(w)
           \/ ~Failed(x) /\ Returns(w, "ok")
  BY DEF Commits
<1>3. ~blind[w] /\ ~x.conn.lost
  BY <1>1, <1>2, IInvParts DEF Sound, Happens, Typed
<1>4. /\ Whole(txn[w], acked[w])
      /\ txn[w] \in {"NewOrder", "Payment"} => acked[w] = Writes(txn[w])
  BY <1>1, <1>2, <1>3, AtCall, WholeAtEnd DEF Current
<1>5. CASE Failed(x) /\ GoesToRollback(w)
  BY <1>1, <1>2, <1>3, <1>4, <1>5, AtCall, Retreats
<1>6. CASE ~Failed(x) /\ Returns(w, "ok")
  <2>1. PICK e \in Done(db[w], Current(w), at[w]) : x.result = e.answer /\ x.db = e.db
    BY <1>1, <1>2, <1>3, <1>6, AtCall
  <2>2. x.db.durable = acked[w]
    <3>1. x.db.durable = db[w].durable \cup db[w].work
      BY <1>1, <1>2, <1>3, <2>1, AtCall, DoneEffect
    <3>2. db[w].durable = {} /\ db[w].work = acked[w]
      BY <1>1, <1>2, <1>3, AtCall
    <3>3. QED
      BY <3>1, <3>2
  <2>3. db'[w].durable = acked'[w] /\ acked'[w] = acked[w]
    BY <1>1, <1>2, <1>3, <2>2, AtCall
  <2>4. QED
    BY <1>4, <1>6, <2>3, Succeeds DEF Returns
<1>7. QED
  BY <1>2, <1>5, <1>6

LEMMA RollsBackWhole ==
  ASSUME IInv, NEW w \in Workers, WorkShape(w), RollsBack(w)
  PROVE  WorkShape(w)'
<1> SUFFICES ASSUME Sound(w)' PROVE WorkShape(w)'
  BY DEF WorkShape
<1>1. /\ pc[w] = "attempt" /\ rolling[w] /\ UNCHANGED <<at, blind>>
      /\ AttemptEnds(w, "failed")
  BY DEF RollsBack
<1>2. PICK x \in Outcomes(conn[w], db[w], RolledBack(db[w])) : Happens(w, x)
  BY DEF RollsBack
<1>3. Linked(conn[w], db[w]) /\ Coherent(db[w]) /\ db[w] \in Sessions
  BY IInvParts DEF ShapeOf, Shape, Linked, Coherent
<1>4. \A e \in RolledBack(db[w]) : Proper(e) /\ e.db.durable = db[w].durable
  BY <1>3, RolledBackProper, RolledBackEffect
<1>5. conn'[w] = x.conn /\ db'[w] = x.db
  BY <1>2, IInvParts DEF Happens, Typed
<1>6. ~blind[w] /\ ~x.conn.lost
  BY <1>1, <1>5 DEF Sound
<1>7. ~conn[w].lost
  BY <1>2, <1>4, <1>6, CallHappens
<1>8. Gone(conn[w], db[w], x, RolledBack(db[w]))
      \/ (conn[w].link # "dead" /\ Heard(x, RolledBack(db[w])))
  BY <1>2, <1>3, <1>4, <1>6, CallEffect
<1>9. /\ x.db.durable = db[w].durable
      /\ conn[w].link = "dead" => x.conn.link = "dead"
  BY <1>4, <1>8 DEF Gone, Heard
<1>10. \/ db[w].durable = {}
       \/ /\ Whole(txn[w], db[w].durable)
          /\ conn[w].link = "dead" /\ Current(w).op = "commit"
  BY <1>1, <1>6, <1>7 DEF WorkShape, Sound
<1>11. QED
  BY <1>1, <1>5, <1>9, <1>10, Fails

---------------------------------------------------------------------------
(* Every step. *)

\* A step of w leaves what another worker has alone.
LEMMA Elsewhere ==
  ASSUME IInv, NEW w \in Workers, Step(w), NEW v \in Workers \ {w}
  PROVE  /\ pc'[v] = pc[v] /\ verdict'[v] = verdict[v] /\ txn'[v] = txn[v]
         /\ at'[v] = at[v] /\ rolling'[v] = rolling[v]
         /\ conn'[v] = conn[v] /\ db'[v] = db[v]
         /\ acked'[v] = acked[v] /\ blind'[v] = blind[v]
<1>1. Typed /\ ExecTypeOK
  BY IInvParts DEF ExecIInv
<1>2. CASE Begins(w) \/ Selects(w) \/ Reports(w) \/ Commits(w) \/ RollsBack(w)
  BY <1>1, <1>2 DEF Begins, Selects, Reports, Commits, RollsBack, Happens, GoesTo,
     GoesToRollback, Returns, AttemptEnds, Goes, Typed, ExecTypeOK, execVars, loopVars
<1>3. CASE FindsOldest(w) \/ DoesWrite(w)
  BY <1>1, <1>3 DEF FindsOldest, DoesWrite, Happens, GoesTo, GoesToRollback,
     Typed, execVars, loopVars
<1>4. CASE Panics(w)
  BY <1>1, <1>4 DEF Panics, Panic, Hangs, Goes, Typed, ExecTypeOK
<1>5. CASE Opens(w)
  BY <1>1, <1>5 DEF Opens, Connect, Reconnect, Goes, Typed, ExecTypeOK
<1>6. CASE OpenFails(w)
  BY <1>1, <1>6 DEF OpenFails, ConnectFails, ReconnectFails, Hangs, Goes, Typed, ExecTypeOK
<1>7. CASE Finishes(w)
  BY <1>1, <1>7 DEF Finishes, LoopEnds, Hangs, Goes, Typed, ExecTypeOK
<1>8. CASE StartsAttempt(w)
  BY <1>1, <1>8 DEF StartsAttempt, StartAttempt, Goes, Typed, ExecTypeOK
<1>9. CASE ExecutorStep(w)
  BY <1>1, <1>9 DEF ExecutorStep, NextTransaction, StopRetrying, Committed, Aborted, Lost,
     Goes, Typed, ExecTypeOK, attemptVars
<1>10. QED
  BY <1>2, <1>3, <1>4, <1>5, <1>6, <1>7, <1>8, <1>9 DEF Step, ProgramStep

\* An attempt begins with nothing written.
LEMMA StartsWhole ==
  ASSUME IInv, NEW w \in Workers, StartsAttempt(w)
  PROVE  WorkShape(w)'
<1> SUFFICES ASSUME Sound(w)' PROVE WorkShape(w)'
  BY DEF WorkShape
<1>1. Typed /\ ShapeOf(w) /\ pc \in [Workers -> Places \cup Ends] /\ txn[w] \in Types
  BY IInvParts, MixAssumption DEF ExecIInv, ExecTypeOK
<1>2. /\ pc[w] = "retry" /\ pc' = [pc EXCEPT ![w] = "attempt"]
      /\ at' = [at EXCEPT ![w] = 1]
      /\ db' = [db EXCEPT ![w].durable = {}]
      /\ acked' = [acked EXCEPT ![w] = {}]
      /\ UNCHANGED <<txn, rolling, conn>>
  BY DEF StartsAttempt, StartAttempt, Goes
<1>3. /\ pc'[w] = "attempt" /\ at'[w] = 1 /\ acked'[w] = {} /\ txn'[w] = txn[w]
      /\ db'[w] = [db[w] EXCEPT !.durable = {}]
  BY <1>1, <1>2 DEF Typed
<1>4. db[w] \in Sessions
  BY <1>1 DEF Typed
<1>5. db'[w].durable = {} /\ db'[w].work = db[w].work
  BY <1>3, <1>4 DEF Sessions
<1>6. ~conn[w].lost
  BY <1>2 DEF Sound
<1>7. db[w].work = {}
  BY <1>1, <1>2, <1>4, <1>6 DEF ShapeOf, Shape, Linked, Coherent, Sessions
<1>8. Program(txn[w])[1].op \in {"begin", "report"}
  <2>1. CASE txn[w] = "NewOrder"
    <3>1. 1 \in 1..(7 + 4 * OlCnt) /\ NewOrder[1] = OrderEntry[1]
      BY OlCntAssumption DEF NewOrder
    <3>2. QED
      BY <2>1, <3>1 DEF Program, OrderEntry, Begin, Plain
  <2>2. CASE txn[w] = "Payment"
    BY <2>2 DEF Program, Payment, Begin, Plain
  <2>3. CASE txn[w] = "Delivery"
    <3>1. Delivery[1] = Begin
      BY DistrictsAssumption DEF Delivery
    <3>2. QED
      BY <2>3, <3>1 DEF Program, Begin, Plain
  <2>4. CASE txn[w] \in ReadOnly
    <3>1. Program(txn[w]) \in {OrderStatus, StockLevel}
      BY <2>4 DEF Program, ReadOnly
    <3>2. QED
      BY <3>1 DEF OrderStatus, StockLevel, Query
  <2>5. QED
    BY <1>1, <2>1, <2>2, <2>3, <2>4 DEF Types, ReadOnly
<1>9. WholeBefore(txn[w], 1, {})
  BY WholeAtStart
<1>10. QED
  BY <1>3, <1>5, <1>7, <1>8, <1>9 DEF WorkShape, Current

\* Between attempts nothing is asked of the writes.
LEMMA IdleWhole ==
  ASSUME NEW w \in Workers, pc'[w] \notin {"attempt", "verdict"}
  PROVE  WorkShape(w)'
BY DEF WorkShape

LEMMA SameWhole ==
  ASSUME NEW v \in Workers, WorkShape(v),
         /\ pc'[v] = pc[v] /\ verdict'[v] = verdict[v] /\ txn'[v] = txn[v]
         /\ at'[v] = at[v] /\ rolling'[v] = rolling[v]
         /\ conn'[v] = conn[v] /\ db'[v] = db[v]
         /\ acked'[v] = acked[v] /\ blind'[v] = blind[v]
  PROVE  WorkShape(v)'
BY DEF WorkShape, Sound, Current

LEMMA WorkInit == Init => \A w \in Workers : WorkShape(w)
BY DEF Init, ExecInit, WorkShape

LEMMA WorkOfStep ==
  ASSUME IInv, NEW w \in Workers, WorkShape(w), Step(w)
  PROVE  WorkShape(w)'
<1>1. pc \in [Workers -> Places \cup Ends]
  BY DEF IInv, ExecIInv, ExecTypeOK
<1>2. CASE Panics(w) \/ Opens(w) \/ OpenFails(w) \/ Finishes(w) \/ ExecutorStep(w)
  <2>1. pc'[w] \notin {"attempt", "verdict"}
    BY <1>1, <1>2 DEF Panics, Panic, Opens, Connect, Reconnect, OpenFails, ConnectFails,
       ReconnectFails, Finishes, LoopEnds, ExecutorStep, NextTransaction, StopRetrying,
       Committed, Aborted, Lost, Goes
  <2>2. QED
    BY <2>1, IdleWhole
<1>3. QED
  BY <1>2, BeginsWhole, SelectsWhole, FindsOldestWhole, DoesWriteWhole, ReportsWhole,
     CommitsWhole, RollsBackWhole, StartsWhole DEF Step, ProgramStep

LEMMA WorkStep == WorkIInv /\ [Next]_vars => WorkIInv'
<1> SUFFICES ASSUME WorkIInv, [Next]_vars PROVE WorkIInv'
  OBVIOUS
<1>1. IInv' /\ IInv /\ \A v \in Workers : WorkShape(v)
  BY InvStep DEF WorkIInv
<1>2. ASSUME NEW w \in Workers, Step(w), NEW v \in Workers PROVE WorkShape(v)'
  <2>1. CASE v = w
    BY <1>1, <1>2, <2>1, WorkOfStep
  <2>2. CASE v # w
    <3>1. /\ pc'[v] = pc[v] /\ verdict'[v] = verdict[v] /\ txn'[v] = txn[v]
          /\ at'[v] = at[v] /\ rolling'[v] = rolling[v]
          /\ conn'[v] = conn[v] /\ db'[v] = db[v]
          /\ acked'[v] = acked[v] /\ blind'[v] = blind[v]
      BY <1>1, <1>2, <2>2, Elsewhere
    <3>2. QED
      BY <1>1, <3>1, SameWhole
  <2>3. QED
    BY <2>1, <2>2
<1>3. ASSUME UNCHANGED <<pc, txn, verdict, attemptVars>>, NEW v \in Workers
      PROVE  WorkShape(v)'
  BY <1>1, <1>3, SameWhole DEF attemptVars
<1>4. CASE OtherTasks
  <2>1. UNCHANGED <<pc, txn, verdict, attemptVars>>
    BY <1>4 DEF OtherTasks, Others, Interrupt, ProgressEnds, JoinWorkers, Report,
                Returned, execVars, loopVars
  <2>2. QED
    BY <1>1, <1>3, <2>1 DEF WorkIInv
<1>5. CASE UNCHANGED vars
  <2>1. UNCHANGED <<pc, txn, verdict, attemptVars>>
    BY <1>5 DEF vars, execVars, loopVars
  <2>2. QED
    BY <1>1, <1>3, <2>1 DEF WorkIInv
<1>6. QED
  BY <1>1, <1>2, <1>4, <1>5 DEF Next, WorkIInv

LEMMA WorkHolds == Spec => []WorkIInv
<1>1. Init => WorkIInv
  BY InvInit, WorkInit DEF WorkIInv
<1>2. QED
  BY <1>1, WorkStep, PTL DEF Spec

---------------------------------------------------------------------------
(* The theorems. *)

\* At every moment of an attempt of NewOrder or Payment all of its writes are
\* durable or none, and of a Delivery those of whole districts
\* (transaction/*.rs), however many workers run and wherever a statement fails.
THEOREM AttemptsAreAtomic == Spec => []AttemptIsAtomic
<1>1. WorkIInv => AttemptIsAtomic
  <2> SUFFICES ASSUME WorkIInv, NEW w \in Workers, pc[w] \in {"attempt", "verdict"}, Sound(w)
               PROVE  Whole(txn[w], db[w].durable)
    BY DEF AttemptIsAtomic, Whole
  <2>1. WorkShape(w) /\ rolling[w] \in BOOLEAN
    BY DEF WorkIInv, IInv, TypeOK
  <2>2. CASE db[w].durable = {}
    BY <2>2, NothingIsWhole
  <2>3. CASE db[w].durable # {}
    BY <2>1, <2>3 DEF WorkShape
  <2>4. QED
    BY <2>2, <2>3
<1>2. QED
  BY <1>1, WorkHolds, PTL

\* What the executor counts as committed is durable, exactly as far as the
\* server acknowledged it, and in NewOrder and Payment that is every write.
THEOREM CountedAreDurable == Spec => []CountedIsDurable
<1>1. WorkIInv => CountedIsDurable
  BY DEF WorkIInv, WorkShape, CountedIsDurable
<1>2. QED
  BY <1>1, WorkHolds, PTL

\* A failed attempt, which the executor repeats, left nothing behind, unless
\* the connection broke while its COMMIT was answered.
THEOREM FailuresLeaveNothing == Spec => []FailedLeavesNothing
<1>1. WorkIInv => FailedLeavesNothing
  BY DEF WorkIInv, WorkShape, FailedLeavesNothing
<1>2. QED
  BY <1>1, WorkHolds, PTL
=============================================================================
