-------------------------------- MODULE Mix --------------------------------
(***************************************************************************)
(* Which transaction an attempt runs (src/src/transaction/mod.rs), and the  *)
(* percentiles of its latencies that the report prints (src/src/report.rs). *)
(* A random f64 of 0..1 is u / Grain for a u \in 0..Grain - 1, and so is    *)
(* rw_ratio; probabilities are integer weights.  Rounding errors of f64 are *)
(* left out.                                                                *)
(***************************************************************************)
EXTENDS Integers, Sequences, FiniteSetsExt

CONSTANT Grain

ASSUME GrainAssumption == Grain \in Nat \ {0}

all == <<"NewOrder", "Payment", "Delivery", "OrderStatus", "StockLevel">>

SumTo(weights, i) == MapThenSumSet(LAMBDA j : weights[j], 1..i)

\* mutant: r is not reduced by the weights passed over.
WeightedChoiceUnreduced(weights, u) ==
  LET total == SumTo(weights, Len(weights))
      hits  == {i \in DOMAIN weights : u * total <= weights[i] * Grain}
  IN  IF total <= 0 THEN "NewOrder" ELSE IF hits = {} THEN all[1] ELSE all[Min(hits)]

\* r = u * total / Grain; each weight is taken off it until r <= 0.
weighted_choice(weights, u) ==
  LET total == SumTo(weights, Len(weights))
      hits  == {i \in DOMAIN weights : u * total <= SumTo(weights, i) * Grain}
  IN  IF total <= 0 THEN "NewOrder" ELSE IF hits = {} THEN all[1] ELSE all[Min(hits)]

select_transaction_type(rw_ratio, probs, v, u) ==
  IF v < rw_ratio
  THEN weighted_choice(<<probs[1], probs[2], probs[3], 0, 0>>, u)
  ELSE weighted_choice(<<0, 0, 0, probs[4], probs[5]>>, u)

\* mutant: pct% of len.
PercentileOfLen(sorted, pct) ==
  IF sorted = <<>> THEN 0
  ELSE LET idx == (2 * pct * Len(sorted) + 100) \div 200
       IN  sorted[1 + Min({idx, Len(sorted) - 1})]

\* Index pct% of len - 1, rounded half away from zero.
percentile(sorted, pct) ==
  IF sorted = <<>> THEN 0
  ELSE LET idx == (2 * pct * (Len(sorted) - 1) + 100) \div 200
       IN  sorted[1 + Min({idx, Len(sorted) - 1})]
=============================================================================
