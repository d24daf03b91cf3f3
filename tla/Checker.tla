------------------------------ MODULE Checker ------------------------------
(***************************************************************************)
(* --check and --stats (src/src/checker.rs).  Every query is a statement of *)
(* its own: other runs may change the database between two of them.         *)
(***************************************************************************)
EXTENDS Stage

CheckOrder == <<"warehouse", "district", "item", "customer", "stock",
                "orders", "order_line", "new_orders", "history">>

StatsOrder == <<"warehouse", "district", "customer", "item", "stock",
                "orders", "order_line", "new_orders", "history">>

Reading(place) == stage = place /\ UNCHANGED dbVars

\* The check ends with `good`, all_ok: on to the next one.
Closes(good) == alarms' = IF good THEN alarms ELSE alarms \cup {stage}

\* all_ok is `good` from here on.
Goes(next, good, answers) ==
  /\ i' = next /\ seen' = answers /\ ok' = good
  /\ UNCHANGED <<stage, exit, alarms>> /\ Keeps

---------------------------------------------------------------------------
(* Check 1: every table has the rows it was loaded with.  An answer without *)
(* a row is passed over.                                                    *)

\* mutant: at least the rows it was loaded with.
CountAtLeast(r) == IF HasRow(r) THEN r.n >= FileRows(CheckOrder[i]) ELSE ~Fails(r)

CountOk(r) == IF HasRow(r) THEN r.n = FileRows(CheckOrder[i]) ELSE ~Fails(r)

AfterCount(r) ==
  LET good == ok /\ CountOk(r)
  IN  IF i < Len(CheckOrder)
      THEN Goes(i + 1, good, <<>>)
      ELSE Closes(good) /\ GoesTo("districts")

CheckTableCounts ==
  /\ Reading("count")
  /\ LET own == About(CheckOrder[i], Rows(CountOf(CheckOrder[i])))
     IN  \E r \in Results(own) : (Asks(own, r) \/ Misses(r)) /\ AfterCount(r)

---------------------------------------------------------------------------
(* Checks 2, 3 and 4 ask two or three questions about every district.       *)

\* MIN, MAX and SUM of nothing are NULL: taken for 0, or in text a blank line
\* that is no row.
OrNull(n) == IF n = 0 /\ legacy THEN NoRows ELSE Rows(n)

Greatest(S) == OrNull(IF S = {} THEN 0 ELSE Max(S))
Least(S)    == OrNull(IF S = {} THEN 0 ELSE Min(S))

NextId(d) == IF copies["district"] = 0 THEN NoRows ELSE Rows(Len(book[d]) + 1)

Questions(d) ==
  [districts |-> <<About("district", NextId(d)),
                   About("orders", Greatest(Ordered(d))),
                   About("new_orders", Greatest(Waiting(d)))>>,
   queue     |-> <<About("new_orders", Rows(NumWaiting(d))),
                   About("new_orders", Greatest(Waiting(d))),
                   About("new_orders", Least(Waiting(d)))>>,
   lines     |-> <<About("orders", OrNull(NumLines("orders", d))),
                   About("order_line", Rows(NumLines("order_line", d)))>>]

\* mutant: the number of ids is taken for their distance.
ConsistentButOne(answers) ==
  CASE stage = "districts" -> answers[1] - 1 = answers[2] /\ answers[1] - 1 = answers[3]
    [] stage = "queue"     -> answers[1] = answers[2] - answers[3]
    [] stage = "lines"     -> answers[1] = answers[2]

Consistent(answers) ==
  CASE stage = "districts" -> answers[1] - 1 = answers[2] /\ answers[1] - 1 = answers[3]
    [] stage = "queue"     -> answers[1] = answers[2] - answers[3] + 1
    [] stage = "lines"     -> answers[1] = answers[2]

\* mutant: the run goes on after a check that failed.
AfterAnyChecks == Follows(2)

\* After the last check: the run goes on, or process::exit(1).
AfterChecks == IF alarms' = {} THEN Follows(2) ELSE Ends("failed")

AfterCheck ==
  CASE stage = "districts" -> GoesTo("queue")
    [] stage = "queue"     -> GoesTo("lines")
    [] stage = "lines"     -> AfterChecks

Judges(good) ==
  IF i < Cardinality(Districts)
  THEN Goes(i + 1, ok /\ good, <<>>)
  ELSE Closes(ok /\ good) /\ AfterCheck

\* A question without an answer ends the district.
AfterQuestion(r) ==
  LET answers == Append(seen, r.n)
  IN  IF ~HasRow(r) THEN Judges(FALSE)
      ELSE IF Len(answers) = Len(Questions(i)[stage]) THEN Judges(Consistent(answers))
      ELSE Goes(i, ok, answers)

CheckDistricts ==
  /\ stage \in {"districts", "queue", "lines"}
  /\ UNCHANGED dbVars
  /\ LET own == Questions(i)[stage][Len(seen) + 1]
     IN  \E r \in Results(own) : (Asks(own, r) \/ Misses(r)) /\ AfterQuestion(r)

---------------------------------------------------------------------------

AfterStats(r) == Continues(Len(StatsOrder), Follows(3))

ShowStats ==
  /\ Reading("stats")
  /\ UNCHANGED alarms
  /\ LET own == About(StatsOrder[i], Rows(CountOf(StatsOrder[i])))
     IN  \E r \in Results(own) : (Asks(own, r) \/ Misses(r)) /\ AfterStats(r)

CheckerNext == CheckTableCounts \/ CheckDistricts \/ ShowStats
=============================================================================
