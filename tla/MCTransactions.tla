--------------------------- MODULE MCTransactions ---------------------------
(* One worker, every type of transaction and every kind of fault.  Workers    *)
(* meet only in the counters, the flag and the results of Executor, and in    *)
(* the database, which is external; so one of them says what each does.       *)
EXTENDS Transactions

MCTypes == Types
MCFaults == FaultKinds
=============================================================================
