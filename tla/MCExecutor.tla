----------------------------- MODULE MCExecutor -----------------------------
(* Two workers with two transactions each: one commits while the other fails, *)
(* reconnects, gives up, panics or has not connected yet.                      *)
EXTENDS Executor

MCMix == {"NewOrder", "StockLevel"}
=============================================================================
