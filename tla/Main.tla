-------------------------------- MODULE Main --------------------------------
(***************************************************************************)
(* Runs of the program, one after the other (src/src/main.rs): connect,     *)
(* ping, and the work asked for.  A run can be killed anywhere.  Benchmarks *)
(* work on connections of their own; their transactions are one step each   *)
(* (module Tables), and those of another run can fall between any two       *)
(* queries of a check.                                                      *)
(***************************************************************************)
EXTENDS Loader, Checker

CONSTANT Requests  \* what a run may be asked to do: sets of work

ASSUME RequestsAssumption ==
  Requests \subseteq SUBSET {"init", "check", "stats", "benchmark"}

Init ==
  /\ created = {}
  /\ copies = [t \in Tables |-> 0]
  /\ Book!Init
  /\ txns = 0
  /\ legacy = FALSE
  /\ link = "down" /\ late = <<>> /\ lost = FALSE /\ clean = TRUE
  /\ alone = TRUE
  /\ faults = 0
  /\ flags = {}
  /\ stage = "off" /\ i = 1 /\ seen = <<>> /\ ok = TRUE
  /\ alarms = {}
  /\ exit = "ok"
  /\ runs = 0

\* An init after transactions would mix old and new orders; it is left out.
Starts ==
  /\ stage = "off"
  /\ runs < MaxRuns
  /\ runs' = runs + 1
  /\ flags' \in Requests
  /\ "init" \in flags' => txns = 0
  /\ legacy' \in BOOLEAN
  /\ lost' = FALSE /\ clean' = TRUE /\ alone' = TRUE
  /\ link' = "down" /\ late' = <<>>
  /\ alarms' = {}
  /\ exit' = "running"
  /\ stage' = "connect"
  /\ UNCHANGED <<dbVars, faults, i, seen, ok>>

Connects ==
  /\ stage = "connect"
  /\ \/ NoFault /\ link' = "up" /\ GoesTo("ping")
     \/ Fault /\ UNCHANGED link /\ Ends("failed")
  /\ UNCHANGED <<dbVars, late, lost, alarms>>

\* show tables, or BEGIN and COMMIT; a ping that fails is warned of.
AfterPing(r) ==
  IF legacy /\ i = 1 /\ r.kind \notin {"timeout", "connection"} THEN Stays(2) ELSE Follows(0)

Ping ==
  /\ stage = "ping"
  /\ LET own == IF legacy THEN Command ELSE Rows(Cardinality(created))
     IN  \E r \in Results(own) : (Asks(own, r) \/ Misses(r)) /\ AfterPing(r)
  /\ UNCHANGED <<dbVars, alarms>>

\* mutant: the run stops without an exit code.
BenchmarkStops ==
  /\ stage = "benchmark"
  /\ GoesTo("off")
  /\ UNCHANGED <<dbVars, connVars, alarms>>

BenchmarkEnds ==
  /\ stage = "benchmark"
  /\ Ends("ok")
  /\ UNCHANGED <<dbVars, connVars, alarms>>

Killed ==
  /\ stage # "off"
  /\ Fault
  /\ Ends("killed")
  /\ UNCHANGED <<dbVars, link, late, lost, alarms>>

\* A transaction of the benchmark of this run, or of another run; it needs
\* every table.
Transacts ==
  /\ txns < MaxTxns
  /\ stage \notin {"create", "index", "load", "verify"}
  /\ \A t \in Tables : copies[t] > 0
  /\ txns' = txns + 1
  /\ \/ \E d \in Districts, order \in Book!Orders : Book!NewOrder(d, order)
     \/ \E k \in Districts \X Customers, amount \in Amounts : Book!Payment(k, amount)
     \/ \E S \in SUBSET Districts : S # {} /\ Book!Delivery(S)
  /\ alone' = (alone /\ stage = "benchmark")
  /\ UNCHANGED <<created, copies, connVars, legacy, flags, alarms, exit, runs, placeVars>>

\* Every run the bound allows is over.
Stops == stage = "off" /\ runs = MaxRuns /\ UNCHANGED vars

Next ==
  \/ Starts \/ Connects \/ Ping \/ LoaderNext \/ CheckerNext
  \/ BenchmarkEnds \/ Killed \/ Transacts \/ Stops

Spec == Init /\ [][Next]_vars
---------------------------------------------------------------------------

TypeOK ==
  /\ created \subseteq Tables
  /\ copies \in [Tables -> 0..MaxRuns]
  /\ \A t \in Tables : copies[t] > 0 => t \in created
  /\ link \in {"up", "down"} /\ Len(late) <= MaxFaults
  /\ {legacy, lost, clean, alone, ok} \subseteq BOOLEAN
  /\ alarms \subseteq {"count", "districts", "queue", "lines"}
  /\ exit \in {"ok", "failed", "killed", "running"}
  /\ (stage = "off") = (exit # "running")
  /\ Len(seen) <= 2

\* The database as a first init leaves it.
Pristine ==
  /\ \A t \in Tables : copies[t] = 1
  /\ txns = 0

\* A run that was asked for an init and ends well has loaded every table,
\* unless a call timed out or the text protocol hid an error from it.
DoneMeansLoaded ==
  exit = "ok" /\ "init" \in flags /\ ~lost /\ ~legacy => \A t \in Tables : copies[t] > 0

\* A check that passes, on its own and with every answer its own, has seen the
\* database as it was loaded: once, completely, and nothing after it.
PassMeansPristine ==
  exit = "ok" /\ "check" \in flags /\ "benchmark" \notin flags /\ alone /\ ~lost /\ ~legacy
    => Pristine

\* What a check that meets no fault and runs on its own says of a database
\* that was loaded once: the row counts are wrong if there was a transaction,
\* checks 2 and 3 fail if a district has no order that waits, even though
\* nothing is wrong with it, and the order lines always add up.
AlarmsMean ==
  /\ exit \in {"ok", "failed"} /\ "check" \in flags /\ "benchmark" \notin flags
  /\ clean /\ alone
  /\ \A t \in Tables : copies[t] = 1
  => /\ "count" \in alarms <=> txns > 0
     /\ {"districts", "queue"} \cap alarms # {} <=> \E d \in Districts : Waiting(d) = {}
     /\ "districts" \in alarms <=> "queue" \in alarms
     /\ "lines" \notin alarms

\* When check 3 reports a hole in the queue of a district, some district has
\* one: ids that wait with one between them that does not.
HolesAreThere ==
  clean /\ alone /\ stage = "off" /\ "queue" \in alarms /\ (\A t \in Tables : copies[t] = 1) =>
    \E d \in Districts : \E o, p \in Waiting(d) : (o..p) \ Waiting(d) # {}

\* A benchmark behind a check in the same run begins on a pristine database.
BenchmarkBeginsPristine ==
  [][stage # "benchmark" /\ stage' = "benchmark" /\ "check" \in flags
       /\ alone /\ ~lost' /\ ~legacy => Pristine]_vars
=============================================================================
