----------------------------- MODULE MainProofs -----------------------------
(***************************************************************************)
(* For any districts, loaded orders, numbers of runs and faults: an init    *)
(* that ends well has loaded every table, a check that passes has seen the  *)
(* database as it was loaded, and what its alarms mean.                     *)
(*                                                                          *)
(* A check asks question by question while other runs may change the        *)
(* database.  CheckIInv says what its answers tell as long as they are its  *)
(* own and nothing changes under it; that counts and queues without a       *)
(* fault leave only the loaded database is arithmetic of sums.              *)
(***************************************************************************)
EXTENDS Main, Sums

\* No answer is owed, no error hidden.
Exact == ~lost /\ ~legacy

AllLoaded == \A t \in Tables : copies[t] > 0

\* The stages behind the load.
Later == {"verify", "count", "districts", "queue", "lines", "stats", "benchmark"}

LoadIInv ==
  /\ copies = [t \in Tables |-> copies[t]]
  /\ \A t \in Tables : copies[t] \in Nat
  /\ i \in Nat \ {0}
  /\ ~lost => late = <<>>
  /\ stage = "off" <=> exit # "running"
  /\ Exact /\ stage = "load" => \A j \in 1..9 : j < i => copies[LoadOrder[j]] > 0
  /\ Exact /\ "init" \in flags /\ stage \in Later => AllLoaded
  /\ Exact /\ "init" \in flags /\ exit = "ok" => AllLoaded

LEMMA LoadOrderCovers ==
  /\ Len(LoadOrder) = 9
  /\ \A t \in Tables : \E j \in 1..9 : LoadOrder[j] = t
  /\ \A j \in 1..9 : LoadOrder[j] \in Tables
BY DEF LoadOrder, Tables

\* The stage that follows.
LEMMA WorkIs ==
  /\ Work \in Seq({Work[1], Work[2], Work[3], Work[4]}) /\ Len(Work) = 4
  /\ Work[1] = <<"init", "create">> /\ Work[2] = <<"check", "count">>
  /\ Work[3] = <<"stats", "stats">> /\ Work[4] = <<"benchmark", "benchmark">>
<1>1. ASSUME NEW a, NEW b, NEW c, NEW d
      PROVE  LET s == <<a, b, c, d>>
             IN  s \in Seq({a, b, c, d}) /\ Len(s) = 4
                 /\ s[1] = a /\ s[2] = b /\ s[3] = c /\ s[4] = d
  OBVIOUS
<1>2. QED
  BY <1>1, Zenon DEF Work

LEMMA WorkFrom ==
  ASSUME NEW n \in 0..3
  PROVE  /\ DOMAIN SubSeq(Work, n + 1, Len(Work)) = 1..(4 - n)
         /\ \A k \in 1..(4 - n) : SubSeq(Work, n + 1, Len(Work))[k] = Work[n + k]
BY WorkIs

LEMMA LeastOf ==
  ASSUME NEW T, T \subseteq 1..4, T # {}
  PROVE  Min(T) \in T /\ \A y \in T : Min(T) <= y
<1>1. \E x \in T : \A y \in T : x <= y
  <2>1. CASE 1 \in T
    BY <2>1
  <2>2. CASE 1 \notin T /\ 2 \in T
    BY <2>2
  <2>3. CASE 1 \notin T /\ 2 \notin T /\ 3 \in T
    BY <2>3
  <2>4. CASE 1 \notin T /\ 2 \notin T /\ 3 \notin T
    <3>1. \A y \in T : y \in 1..4 /\ y # 1 /\ y # 2 /\ y # 3
      BY <2>4
    <3>2. \A x, y \in T : x <= y
      BY <3>1
    <3>3. QED
      BY <3>2
  <2>5. QED
    BY <2>1, <2>2, <2>3, <2>4
<1>2. QED
  BY <1>1 DEF Min

LEMMA First ==
  ASSUME NEW n \in 0..3
  PROVE  LET place == FirstOf(SubSeq(Work, n + 1, Len(Work)), "off")
         IN  /\ n = 0 /\ "init" \in flags => place = "create"
             /\ n > 0 => place \in {"count", "stats", "benchmark", "off"}
<1> DEFINE stages == SubSeq(Work, n + 1, Len(Work))
           T == {k \in DOMAIN stages : stages[k][1] \in flags}
<1>1. /\ DOMAIN stages = 1..(4 - n)
      /\ \A k \in 1..(4 - n) : stages[k] = Work[n + k]
  BY WorkFrom
<1> HIDE DEF stages
<1>2. FirstOf(stages, "off") = IF T # {} THEN stages[Min(T)][2] ELSE "off"
  BY DEF FirstOf
<1>3. T \subseteq 1..4 /\ (T # {} => Min(T) \in T /\ \A y \in T : Min(T) <= y)
  <2>1. T \subseteq 1..4
    BY <1>1
  <2> HIDE DEF T
  <2>2. QED
    BY <2>1, LeastOf
<1>4. n = 0 /\ "init" \in flags => FirstOf(stages, "off") = "create"
  <2>1. SUFFICES ASSUME n = 0, "init" \in flags
                 PROVE  FirstOf(stages, "off") = "create"
    OBVIOUS
  <2>2. 1 \in T
    BY <1>1, <2>1, WorkIs
  <2>3. Min(T) = 1
    <3>1. Min(T) \in 1..4 /\ Min(T) <= 1
      <4> HIDE DEF T
      <4>1. QED
        BY <1>3, <2>2
    <3>2. QED
      BY <3>1
  <2>4. QED
    BY <1>1, <1>2, <2>1, <2>2, <2>3, WorkIs
<1>5. n > 0 => FirstOf(stages, "off") \in {"count", "stats", "benchmark", "off"}
  <2>1. \A k \in 2..4 : Work[k][2] \in {"count", "stats", "benchmark"}
    BY WorkIs
  <2>2. T # {} /\ n > 0 => n + Min(T) \in 2..4 /\ stages[Min(T)] = Work[n + Min(T)]
    BY <1>1, <1>3
  <2>3. QED
    BY <1>2, <2>1, <2>2
<1>6. QED
  BY <1>4, <1>5 DEF stages

---------------------------------------------------------------------------
(* A step of the run. *)

\* While no call timed out, a call that does not fail got its own answer.
LEMMA CallIsExact ==
  ASSUME LoadIInv, NEW own, NEW r, Asks(own, r) \/ Misses(r) \/ NoFile(r)
  PROVE  /\ ~lost' => ~lost /\ late' = <<>>
         /\ Exact /\ ~lost' /\ ~Fails(r) => r = own /\ ~Misses(r) /\ ~NoFile(r)
<1>1. lost = FALSE => late = <<>>
  BY DEF LoadIInv
<1>2. ASSUME NEW any, late = <<>>, Receives(any, r)
      PROVE  r = any /\ late' = <<>> /\ lost' = lost
  <2>1. Append(late, any) = <<any>>
    BY <1>2
  <2>2. Head(<<any>>) = any /\ Tail(<<any>>) = <<>>
    OBVIOUS
  <2>3. QED
    BY <1>2, <2>1, <2>2 DEF Receives
<1>3. ~legacy => \A why \in {"abort", "error", "timeout", "connection", "local"} : Fails(Error(why))
  BY DEF Fails, Error
<1>4. Breaks => late' = <<>> /\ lost' = lost
  BY DEF Breaks
<1>5. CASE lost
  <2>1. lost' = lost \/ lost' = TRUE
    BY <1>5 DEF Asks, Misses, NoFile, Receives, Breaks
  <2>2. QED
    BY <1>5, <2>1 DEF Exact
<1>6. CASE ~lost /\ Misses(r)
  <2>1. \/ \E why \in {"abort", "error"} : Receives(Error(why), r)
        \/ r = Error("connection") /\ (Breaks \/ UNCHANGED <<link, late, lost>>)
    BY <1>6 DEF Misses
  <2>2. late' = <<>> /\ lost' = lost /\ (~legacy => Fails(r))
    BY <1>1, <1>2, <1>3, <1>4, <1>6, <2>1
  <2>3. QED
    BY <1>6, <2>2 DEF Exact
<1>7. CASE ~lost /\ NoFile(r)
  <2>1. r = Error("local") /\ UNCHANGED <<link, late, lost>>
    BY <1>7 DEF NoFile
  <2>2. QED
    BY <1>1, <1>3, <1>7, <2>1 DEF Exact
<1>8. CASE ~lost /\ Asks(own, r) /\ ~Misses(r) /\ ~NoFile(r)
  <2>1. \/ Receives(own, r)
        \/ lost' = TRUE
        \/ r = Error("connection") /\ Breaks
    BY <1>8 DEF Asks
  <2>2. QED
    BY <1>1, <1>2, <1>3, <1>4, <1>8, <2>1 DEF Exact
<1>9. QED
  BY <1>5, <1>6, <1>7, <1>8

\* The run goes to another stage, to another statement, or to its end.
LEMMA Moves ==
  ASSUME LoadIInv, copies' = copies, legacy' = legacy, flags' = flags,
         ~lost' => ~lost /\ late' = <<>>,
         i' \in Nat \ {0}, stage' = "load" => i' = 1,
         stage' = "off" <=> exit' # "running",
         "init" \in flags /\ (stage' \in Later \/ exit' = "ok") => stage \in Later
  PROVE  LoadIInv'
<1>1. AllLoaded' <=> AllLoaded
  BY DEF AllLoaded
<1>2. Exact' => Exact
  BY DEF Exact
<1>3. Exact' /\ stage' = "load" => \A j \in 1..9 : j < i' => copies'[LoadOrder[j]] > 0
  BY DEF LoadIInv
<1>4. QED
  BY <1>1, <1>2, <1>3 DEF LoadIInv

LEMMA FollowsTo ==
  ASSUME NEW n \in 0..3, Follows(n), stage # "off", LoadIInv
  PROVE  /\ legacy' = legacy /\ flags' = flags /\ i' = 1
         /\ stage' = "off" <=> exit' # "running"
         /\ n = 0 /\ "init" \in flags => stage' = "create" /\ exit' = "running"
<1> DEFINE place == FirstOf(SubSeq(Work, n + 1, Len(Work)), "off")
<1>1. exit = "running"
  BY DEF LoadIInv
<1>2. n = 0 /\ "init" \in flags => place = "create"
  BY First
<1> HIDE DEF place
<1>3. IF place = "off" THEN Ends("ok") ELSE GoesTo(place)
  BY DEF Follows, place
<1>4. QED
  BY <1>1, <1>2, <1>3 DEF Ends, GoesTo, Keeps

\* The next statement of a stage, or the stage after it.
LEMMA ContinuesTo ==
  ASSUME NEW total, NEW place, stage # "off", LoadIInv, Continues(total, GoesTo(place)),
         place # "off"
  PROVE  /\ legacy' = legacy /\ flags' = flags /\ exit' = "running"
         /\ \/ i' = i + 1 /\ stage' = stage
            \/ i' = 1 /\ stage' = place
BY DEF Continues, Stays, GoesTo, Keeps, LoadIInv

LEMMA LoaderKeeps ==
  ASSUME LoadIInv, LoaderNext
  PROVE  LoadIInv'
<1>1. CASE CreateTable
  <2>1. /\ stage = "create" /\ UNCHANGED copies
        /\ \E own, r : (Asks(own, r) \/ Misses(r) \/ NoFile(r)) /\ AfterCreate(r)
    BY <1>1 DEF CreateTable, InStage
  <2>2. PICK own, r : (Asks(own, r) \/ Misses(r) \/ NoFile(r)) /\ AfterCreate(r)
    BY <2>1
  <2>3. ~lost' => ~lost /\ late' = <<>>
    BY <2>2, CallIsExact
  <2>4. Ends("failed") \/ Continues(Len(CreateOrder), GoesTo("index"))
    BY <2>2 DEF AfterCreate
  <2>5. /\ legacy' = legacy /\ flags' = flags /\ stage' # "load" /\ i' \in Nat \ {0}
        /\ stage' = "off" <=> exit' # "running"
        /\ stage' \notin Later /\ exit' # "ok"
    BY <2>1, <2>4, ContinuesTo DEF Ends, Keeps, Later, LoadIInv
  <2>6. QED
    BY <2>1, <2>3, <2>5, Moves
<1>2. CASE CreateIndex
  <2>1. /\ stage = "index" /\ UNCHANGED copies
        /\ \E own, r : /\ Asks(own, r) \/ Misses(r) \/ NoFile(r)
                       /\ AfterIndex(r) \/ Ends("failed")
    BY <1>2 DEF CreateIndex, InStage
  <2>2. PICK own, r : /\ Asks(own, r) \/ Misses(r) \/ NoFile(r)
                      /\ AfterIndex(r) \/ Ends("failed")
    BY <2>1
  <2>3. ~lost' => ~lost /\ late' = <<>>
    BY <2>2, CallIsExact
  <2>4. Ends("failed") \/ Continues(NumIndexes, GoesTo("load"))
    BY <2>2 DEF AfterIndex
  <2>5. /\ legacy' = legacy /\ flags' = flags /\ i' \in Nat \ {0}
        /\ stage' = "load" => i' = 1
        /\ stage' = "off" <=> exit' # "running"
        /\ stage' \notin Later /\ exit' # "ok"
    BY <2>1, <2>4, ContinuesTo DEF Ends, Keeps, Later, LoadIInv
  <2>6. QED
    BY <2>1, <2>3, <2>5, Moves
<1>3. CASE Load
  <2> DEFINE t == LoadOrder[i]
             own == About(t, Command)
  <2>1. PICK r : /\ \/ /\ Asks(own, r)
                       /\ copies' = [copies EXCEPT ![t] = IF t \in created THEN @ + 1 ELSE @]
                    \/ (Misses(r) \/ NoFile(r)) /\ UNCHANGED copies
                 /\ AfterLoad(r)
    BY <1>3 DEF Load
  <2> HIDE DEF own
  <2>2. /\ ~lost' => ~lost /\ late' = <<>>
        /\ Exact /\ ~lost' /\ ~Fails(r) => r = own /\ ~Misses(r) /\ ~NoFile(r)
    BY <2>1, CallIsExact
  <2>3. /\ copies' = [u \in Tables |-> copies'[u]]
        /\ \A u \in Tables : copies'[u] \in Nat /\ copies'[u] >= copies[u]
    BY <2>1 DEF LoadIInv
  <2>4. stage = "load" /\ exit = "running"
    BY <1>3 DEF Load, InStage, LoadIInv
  <2>5. CASE Fails(r)
    <3>1. Ends("failed")
      BY <2>1, <2>5 DEF AfterLoad
    <3>2. /\ legacy' = legacy /\ flags' = flags /\ i' = 1 /\ stage' = "off" /\ exit' = "failed"
      BY <3>1 DEF Ends, Keeps
    <3>3. QED
      BY <2>2, <2>3, <3>2 DEF LoadIInv, Later, Exact
  <2>6. CASE ~Fails(r)
    <3>1. Continues(Len(LoadOrder), GoesTo("verify"))
      BY <2>1, <2>6 DEF AfterLoad
    <3>2. /\ legacy' = legacy /\ flags' = flags /\ exit' = "running"
          /\ \/ i' = i + 1 /\ stage' = "load"
             \/ i' = 1 /\ stage' = "verify" /\ i >= 9
      <4>1. i \in Nat
        BY DEF LoadIInv
      <4>2. QED
        BY <2>4, <3>1, <4>1, LoadOrderCovers DEF Continues, Stays, GoesTo, Keeps
    <3>3. ASSUME Exact', NEW j \in 1..9, j <= i
          PROVE  copies'[LoadOrder[j]] > 0
      <4>1. Exact /\ ~lost'
        BY <2>2, <3>2, <3>3 DEF Exact
      <4>2. /\ r = own
            /\ copies' = [copies EXCEPT ![t] = IF t \in created THEN @ + 1 ELSE @]
        BY <2>1, <2>2, <2>6, <4>1
      <4>3. t \in created
        BY <2>6, <4>1, <4>2 DEF own, About, Fails, Error, Exact
      <4>4. LoadOrder[j] \in Tables
        BY LoadOrderCovers
      <4>5. CASE j = i
        BY <4>2, <4>3, <4>4, <4>5 DEF LoadIInv
      <4>6. CASE j # i
        <5>1. j < i
          BY <3>3, <4>6 DEF LoadIInv
        <5>2. copies[LoadOrder[j]] > 0
          BY <2>4, <4>1, <5>1 DEF LoadIInv
        <5>3. QED
          BY <2>3, <4>4, <5>2 DEF LoadIInv
      <4>7. QED
        BY <4>5, <4>6
    <3>4. CASE stage' = "load"
      <4>1. i' = i + 1 /\ i \in Nat
        BY <3>2, <3>4 DEF LoadIInv
      <4>2. Exact' => \A j \in 1..9 : j < i' => copies'[LoadOrder[j]] > 0
        BY <3>3, <4>1
      <4>3. QED
        BY <2>2, <2>3, <3>2, <3>4, <4>1, <4>2 DEF LoadIInv, Later
    <3>5. CASE stage' = "verify"
      <4>1. i' = 1 /\ i >= 9 /\ i \in Nat
        BY <3>2, <3>5 DEF LoadIInv
      <4>2. Exact' => \A j \in 1..9 : copies'[LoadOrder[j]] > 0
        BY <3>3, <4>1
      <4>3. Exact' => AllLoaded'
        BY <4>2, LoadOrderCovers DEF AllLoaded
      <4>4. QED
        BY <2>2, <2>3, <3>2, <3>5, <4>1, <4>3 DEF LoadIInv, Later
    <3>6. QED
      BY <3>2, <3>4, <3>5
  <2>7. QED
    BY <2>5, <2>6
<1>4. CASE VerifyCounts
  <2>1. /\ stage = "verify" /\ UNCHANGED copies
        /\ \E own, r : (Asks(own, r) \/ Misses(r)) /\ AfterVerify(r)
    BY <1>4 DEF VerifyCounts, InStage
  <2>2. PICK own, r : (Asks(own, r) \/ Misses(r)) /\ AfterVerify(r)
    BY <2>1
  <2>3. ~lost' => ~lost /\ late' = <<>>
    BY <2>2, CallIsExact
  <2>4. Stays(i + 1) \/ Follows(1)
    BY <2>2 DEF AfterVerify, Continues
  <2>5. /\ legacy' = legacy /\ flags' = flags /\ i' \in Nat \ {0}
        /\ stage' = "load" => i' = 1
        /\ stage' = "off" <=> exit' # "running"
    BY <2>1, <2>4, FollowsTo DEF Stays, Keeps, LoadIInv
  <2>6. QED
    BY <2>1, <2>3, <2>5, Moves DEF Later
<1>5. QED
  BY <1>1, <1>2, <1>3, <1>4 DEF LoaderNext

LEMMA CheckerKeeps ==
  ASSUME LoadIInv, CheckerNext
  PROVE  LoadIInv'
<1>1. CASE CheckTableCounts
  <2>1. stage = "count" /\ UNCHANGED dbVars
    BY <1>1 DEF CheckTableCounts, Reading
  <2>2. PICK own, r : (Asks(own, r) \/ Misses(r)) /\ AfterCount(r)
    BY <1>1 DEF CheckTableCounts
  <2>3. ~lost' => ~lost /\ late' = <<>>
    BY <2>2, CallIsExact
  <2>4. \/ i' = i + 1 /\ stage' = stage /\ exit' = exit /\ Keeps
        \/ GoesTo("districts")
    BY <2>2 DEF AfterCount, Goes
  <2>5. /\ legacy' = legacy /\ flags' = flags /\ i' \in Nat \ {0} /\ stage' # "load"
        /\ stage' = "off" <=> exit' # "running"
    BY <2>1, <2>4 DEF GoesTo, Keeps, LoadIInv
  <2>6. QED
    BY <2>1, <2>3, <2>5, Moves DEF Later, dbVars
<1>2. CASE CheckDistricts
  <2>1. stage \in {"districts", "queue", "lines"} /\ UNCHANGED dbVars
    BY <1>2 DEF CheckDistricts
  <2>2. PICK own, r : (Asks(own, r) \/ Misses(r)) /\ AfterQuestion(r)
    BY <1>2 DEF CheckDistricts
  <2>3. ~lost' => ~lost /\ late' = <<>>
    BY <2>2, CallIsExact
  <2>4. \/ (i' = i + 1 \/ i' = i) /\ stage' = stage /\ exit' = exit /\ Keeps
        \/ AfterCheck
    BY <2>2 DEF AfterQuestion, Judges, Goes
  <2>5. AfterCheck => \/ GoesTo("queue") \/ GoesTo("lines")
                      \/ Follows(2) \/ Ends("failed")
    BY <2>1 DEF AfterCheck, AfterChecks
  <2>6. /\ legacy' = legacy /\ flags' = flags /\ i' \in Nat \ {0}
        /\ stage' = "load" => i' = 1
        /\ stage' = "off" <=> exit' # "running"
    BY <2>1, <2>4, <2>5, FollowsTo DEF GoesTo, Ends, Keeps, LoadIInv
  <2>7. QED
    BY <2>1, <2>3, <2>6, Moves DEF Later, dbVars
<1>3. CASE ShowStats
  <2>1. stage = "stats" /\ UNCHANGED dbVars
    BY <1>3 DEF ShowStats, Reading
  <2>2. PICK own, r : (Asks(own, r) \/ Misses(r)) /\ AfterStats(r)
    BY <1>3 DEF ShowStats
  <2>3. ~lost' => ~lost /\ late' = <<>>
    BY <2>2, CallIsExact
  <2>4. Stays(i + 1) \/ Follows(3)
    BY <2>2 DEF AfterStats, Continues
  <2>5. /\ legacy' = legacy /\ flags' = flags /\ i' \in Nat \ {0}
        /\ stage' = "load" => i' = 1
        /\ stage' = "off" <=> exit' # "running"
    BY <2>1, <2>4, FollowsTo DEF Stays, Keeps, LoadIInv
  <2>6. QED
    BY <2>1, <2>3, <2>5, Moves DEF Later, dbVars
<1>4. QED
  BY <1>1, <1>2, <1>3 DEF CheckerNext

LEMMA RunKeeps ==
  ASSUME LoadIInv,
         Starts \/ Connects \/ Ping \/ BenchmarkEnds \/ Killed \/ Transacts
  PROVE  LoadIInv'
<1>1. CASE Starts
  <2>1. /\ UNCHANGED <<dbVars, i>> /\ late' = <<>>
        /\ stage' = "connect" /\ exit' = "running"
    BY <1>1 DEF Starts
  <2>2. QED
    BY <2>1 DEF LoadIInv, dbVars, Later
<1>2. CASE Connects
  <2>1. stage = "connect" /\ UNCHANGED <<dbVars, late, lost>> /\ (GoesTo("ping") \/ Ends("failed"))
    BY <1>2 DEF Connects
  <2>2. /\ legacy' = legacy /\ flags' = flags /\ i' = 1 /\ stage' \notin Later /\ exit' # "ok"
        /\ stage' = "off" <=> exit' # "running"
    BY <2>1 DEF GoesTo, Ends, Keeps, Later, LoadIInv
  <2>3. QED
    BY <2>1, <2>2, Moves DEF dbVars, LoadIInv
<1>3. CASE Ping
  <2>1. stage = "ping" /\ UNCHANGED dbVars
    BY <1>3 DEF Ping
  <2>2. PICK own, r : (Asks(own, r) \/ Misses(r)) /\ AfterPing(r)
    BY <1>3 DEF Ping
  <2>3. ~lost' => ~lost /\ late' = <<>>
    BY <2>2, CallIsExact
  <2>4. Stays(2) \/ Follows(0)
    BY <2>2 DEF AfterPing
  <2>5. /\ legacy' = legacy /\ flags' = flags /\ i' \in Nat \ {0}
        /\ stage' = "load" => i' = 1
        /\ stage' = "off" <=> exit' # "running"
    BY <2>1, <2>4, FollowsTo DEF Stays, Keeps, LoadIInv
  <2>6. "init" \in flags => stage' \notin Later /\ exit' # "ok"
    BY <2>1, <2>4, FollowsTo DEF Stays, Later, LoadIInv
  <2>7. QED
    BY <2>1, <2>3, <2>5, <2>6, Moves DEF dbVars
<1>4. CASE BenchmarkEnds
  <2>1. stage = "benchmark" /\ UNCHANGED <<dbVars, connVars>> /\ Ends("ok")
    BY <1>4 DEF BenchmarkEnds
  <2>2. /\ legacy' = legacy /\ flags' = flags /\ i' = 1 /\ stage' = "off" /\ exit' = "ok"
        /\ late' = late /\ lost' = lost /\ copies' = copies /\ stage \in Later
    BY <2>1 DEF Ends, Keeps, Later, dbVars, connVars
  <2>3. QED
    BY <2>2, Moves DEF LoadIInv
<1>5. CASE Killed
  <2>1. UNCHANGED <<dbVars, late, lost>> /\ Ends("killed")
    BY <1>5 DEF Killed
  <2>2. /\ legacy' = legacy /\ flags' = flags /\ i' = 1 /\ stage' = "off" /\ exit' = "killed"
        /\ late' = late /\ lost' = lost /\ copies' = copies
    BY <2>1 DEF Ends, Keeps, dbVars
  <2>3. QED
    BY <2>2, Moves DEF LoadIInv, Later
<1>6. CASE Transacts
  <2>1. /\ UNCHANGED <<copies, connVars, legacy, flags, exit, placeVars>>
    BY <1>6 DEF Transacts
  <2>2. QED
    BY <2>1 DEF LoadIInv, connVars, placeVars, Exact, AllLoaded
<1>7. QED
  BY <1>1, <1>2, <1>3, <1>4, <1>5, <1>6

LEMMA LoadStep == ASSUME LoadIInv, [Next]_vars PROVE LoadIInv'
<1>1. CASE LoaderNext
  BY <1>1, LoaderKeeps
<1>2. CASE CheckerNext
  BY <1>2, CheckerKeeps
<1>3. CASE Starts \/ Connects \/ Ping \/ BenchmarkEnds \/ Killed \/ Transacts
  BY <1>3, RunKeeps
<1>4. CASE UNCHANGED vars
  <2>1. UNCHANGED <<copies, i, late, lost, legacy, flags, exit, stage>>
    BY <1>4 DEF vars, dbVars, connVars, mainVars, placeVars
  <2>2. QED
    BY <2>1 DEF LoadIInv, Exact, AllLoaded
<1>5. CASE Stops
  BY <1>4, <1>5 DEF Stops
<1>6. QED
  BY <1>1, <1>2, <1>3, <1>4, <1>5 DEF Next

---------------------------------------------------------------------------
(* The invariant. *)

Order == [c : Customers, lines : Lines]

Number(d) == Len(book[d])

\* What no transaction has changed yet.
Untouched ==
  /\ \A d \in Districts : Number(d) = Len(Loaded)
  /\ \A d \in Districts : delivered[d] = Len(Loaded) - Undelivered[d]
  /\ \A k \in Districts \X Customers : paid[k].number = 0

DbIInv ==
  /\ created \subseteq Tables
  /\ copies \in [Tables -> Nat]
  /\ \A t \in Tables : copies[t] > 0 => t \in created
  /\ DOMAIN book = Districts
  /\ \A d \in Districts :
       /\ book[d] \in Seq(Order)
       /\ Number(d) >= Len(Loaded)
       /\ \A o \in DOMAIN Loaded : book[d][o] = Loaded[o]
  /\ delivered \in [Districts -> Nat]
  /\ \A d \in Districts : delivered[d] \in (Len(Loaded) - Undelivered[d])..Number(d)
  /\ DOMAIN paid = Districts \X Customers
  /\ \A k \in Districts \X Customers : paid[k].number \in Nat
  /\ txns \in Nat
  /\ txns > 0 => \A t \in Tables : copies[t] > 0
  /\ txns = 0 <=> Untouched

---------------------------------------------------------------------------

Checks == {"count", "districts", "queue", "lines"}

Steps == [create |-> 9, index |-> 8, load |-> 9, verify |-> 9, count |-> 9, stats |-> 9,
          districts |-> Cardinality(Districts), queue |-> Cardinality(Districts),
          lines |-> Cardinality(Districts)]

Questioned == [districts |-> 3, queue |-> 3, lines |-> 2]

\* The checks before a stage.
Earlier == [count |-> {}, districts |-> {"count"}, queue |-> {"count", "districts"},
            lines |-> {"count", "districts", "queue"}]

IsSeq(s) == \E S : s \in Seq(S)

\* Where a run is.
Stands ==
  /\ stage \in {"off", "connect", "ping", "benchmark"} \cup DOMAIN Steps
  /\ stage = "off" <=> exit # "running"
  /\ exit \in {"ok", "failed", "killed", "running"}
  /\ i \in Nat \ {0}
  /\ stage \in DOMAIN Steps => i <= Steps[stage]
  /\ IsSeq(seen)
  /\ IF stage \in DOMAIN Questioned THEN Len(seen) < Questioned[stage] ELSE seen = <<>>
  /\ ok \in BOOLEAN
  /\ stage \in Checks => "check" \in flags
  /\ stage = "benchmark" => "benchmark" \in flags
  /\ IF stage \in Checks THEN alarms \subseteq Earlier[stage]
     ELSE alarms \subseteq Checks /\ (alarms # {} => exit \in {"failed", "killed"})

\* What a run without a fault has of its connection.
Linked ==
  /\ {legacy, lost, clean, alone} \subseteq BOOLEAN
  /\ clean => ~lost /\ late = <<>>
  /\ clean /\ stage \notin {"off", "connect"} => link = "up"

PlaceIInv == Stands /\ Linked

\* Runs and answers that the bounds allow.
BoundIInv ==
  /\ link \in {"up", "down"}
  /\ faults \in 0..MaxFaults /\ runs \in 0..MaxRuns
  /\ IsSeq(late) /\ Len(late) <= faults
  /\ \A t \in Tables : copies[t] <= runs
  /\ stage \in {"connect", "ping", "create", "index"} => \A t \in Tables : copies[t] < runs
  /\ stage = "load" => \A j \in i..9 : copies[LoadOrder[j]] < runs

\* In a run without a fault an init has what it needs.
CleanIInv ==
  clean =>
    /\ stage = "create" => \A j \in 1..9 : j < i => CreateOrder[j] \in created
    /\ stage \in {"index", "load"} => created = Tables

---------------------------------------------------------------------------
(* What a check has seen. *)

OwnCount(t) == About(t, Rows(CountOf(t)))

CountRight(t) ==
  IF HasRow(OwnCount(t)) THEN CountOf(t) = FileRows(t) ELSE ~Fails(OwnCount(t))

Adds(check, a) ==
  /\ check = "districts" => a[1] - 1 = a[2] /\ a[1] - 1 = a[3]
  /\ check = "queue"     => a[1] = a[2] - a[3] + 1
  /\ check = "lines"     => a[1] = a[2]

DistrictRight(check, d) ==
  LET q == Questions(d)[check]
  IN  /\ \A n \in 1..Questioned[check] : HasRow(q[n])
      /\ Adds(check, [n \in 1..Questioned[check] |-> q[n].n])

Right(check, n) ==
  IF check = "count" THEN CountRight(CheckOrder[n]) ELSE DistrictRight(check, n)

AllRight(check) == \A n \in 1..Steps[check] : Right(check, n)

\* The checks that are over.
Over ==
  IF stage \in Checks THEN Earlier[stage]
  ELSE IF /\ "check" \in flags
          /\ \/ stage = "stats"
             \/ "benchmark" \notin flags /\ (exit = "ok" \/ (exit = "failed" /\ clean))
  THEN Checks ELSE {}

\* Every answer of the run is its own, and nothing changes under it.
Sure == alone /\ ~lost /\ (legacy => clean)

\* Of the checks in C: an alarm is right, and so is none.
Told(C) ==
  /\ \A c \in C : c \in alarms \/ AllRight(c)
  /\ clean => \A c \in C : c \in alarms => ~AllRight(c)

\* The running check: all_ok of the districts or tables before the one it is at.
Tells ==
  /\ ok => \A n \in 1..(i - 1) : Right(stage, n)
  /\ clean /\ ~ok => \E n \in 1..(i - 1) : ~Right(stage, n)

\* What was seen of the district a check is at.
SeenRight ==
  \A n \in DOMAIN seen :
    HasRow(Questions(i)[stage][n]) /\ seen[n] = Questions(i)[stage][n].n

CheckIInv ==
  Sure =>
    /\ Told(Over)
    /\ stage \in Checks => Tells
    /\ stage \in DOMAIN Questioned => SeenRight

\* A run without a fault that fails was refused by a check.
FailIInv == clean /\ exit = "failed" => alarms # {} /\ "check" \in flags

---------------------------------------------------------------------------
(* Counts and sums of the database. *)

LEMMA SumFunctionIs == ASSUME NEW f PROVE SumFunction(f) = SumOver(f, DOMAIN f)
BY DEF SumFunction, SumFunctionOnSet, FoldFunctionOnSet, MapThenFoldSet, SumOver, Acc, Chosen

LEMMA Constants ==
  /\ Cardinality(Districts) \in Nat \ {0} /\ Districts = 1..Cardinality(Districts)
  /\ IsFiniteSet(Districts) /\ IsFiniteSet(Customers) /\ IsFiniteSet(Districts \X Customers)
  /\ Len(Loaded) \in Nat \ {0} /\ DOMAIN Loaded = 1..Len(Loaded)
  /\ \A o \in DOMAIN Loaded : Loaded[o] \in Order /\ Len(Loaded[o].lines) \in Nat \ {0}
  /\ \A d \in Districts : Undelivered[d] \in 0..Len(Loaded)
  /\ DOMAIN Undelivered = Districts
<1>1. /\ Cardinality(Districts) \in Nat \ {0} /\ Districts = 1..Cardinality(Districts)
      /\ IsFiniteSet(Customers)
      /\ Undelivered \in [Districts -> 0..Len(Loaded)]
  BY StageAssumption
<1>2. IsFiniteSet(Districts)
  BY <1>1, FS_Interval
<1>3. IsFiniteSet(Districts \X Customers)
  BY <1>1, <1>2, FS_Product
<1>4. Loaded \in Seq(Order) /\ Loaded # <<>>
  BY StageAssumption DEF Order
<1>5. Len(Loaded) \in Nat \ {0} /\ DOMAIN Loaded = 1..Len(Loaded)
  BY <1>4
<1>6. ASSUME NEW o \in DOMAIN Loaded
      PROVE  Loaded[o] \in Order /\ Len(Loaded[o].lines) \in Nat \ {0}
  <2>1. Loaded[o] \in Order
    BY <1>4, <1>6
  <2>2. Loaded[o].lines \in Seq(Nat \X Nat) /\ Loaded[o].lines # <<>>
    BY <2>1 DEF Order, Lines
  <2>3. QED
    BY <2>1, <2>2
<1>7. QED
  BY <1>1, <1>2, <1>3, <1>5, <1>6

LEMMA BookShape ==
  ASSUME DbIInv, NEW d \in Districts
  PROVE  /\ Number(d) \in Nat /\ Number(d) >= Len(Loaded) /\ DOMAIN book[d] = 1..Number(d)
         /\ delivered[d] \in 0..Number(d) /\ delivered[d] >= Len(Loaded) - Undelivered[d]
         /\ \A o \in 1..Number(d) : book[d][o] \in Order /\ Len(book[d][o].lines) \in Nat \ {0}
<1>1. /\ book[d] \in Seq(Order) /\ Number(d) >= Len(Loaded)
      /\ delivered[d] \in (Len(Loaded) - Undelivered[d])..Number(d) /\ delivered[d] \in Nat
  BY DEF DbIInv
<1>2. Number(d) \in Nat /\ DOMAIN book[d] = 1..Number(d)
  BY <1>1 DEF Number
<1>3. ASSUME NEW o \in 1..Number(d)
      PROVE  book[d][o] \in Order /\ Len(book[d][o].lines) \in Nat \ {0}
  <2>1. book[d][o] \in Order
    BY <1>1, <1>2
  <2>2. book[d][o].lines \in Seq(Nat \X Nat) /\ book[d][o].lines # <<>>
    BY <2>1 DEF Order, Lines
  <2>3. QED
    BY <2>1, <2>2
<1>4. QED
  BY <1>1, <1>2, <1>3, Constants

\* A table was never loaded only if nothing happened yet.
LEMMA Unloaded ==
  ASSUME DbIInv, NEW t \in Tables, copies[t] = 0
  PROVE  Untouched
<1>1. ~(txns > 0) /\ txns \in Nat
  BY DEF DbIInv
<1>2. txns = 0
  BY <1>1
<1>3. QED
  BY <1>2 DEF DbIInv

LEMMA TimesIs ==
  ASSUME DbIInv, NEW t \in Tables, NEW o \in Nat
  PROVE  /\ Times(t, o) \in Nat
         /\ o <= Len(Loaded) => Times(t, o) = copies[t]
         /\ o > Len(Loaded) => Times(t, o) = 1
BY Constants DEF Times, DbIInv

LEMMA WaitingIs ==
  ASSUME DbIInv, NEW d \in Districts, NEW c \in Nat,
         \A o \in (delivered[d] + 1)..Number(d) : Times("new_orders", o) = c
  PROVE  /\ Waiting(d) = IF c > 0 THEN (delivered[d] + 1)..Number(d) ELSE {}
         /\ NumWaiting(d) = c * (Number(d) - delivered[d])
<1> DEFINE W == (delivered[d] + 1)..Number(d)
           f == [o \in Waiting(d) |-> Times("new_orders", o)]
<1>1. /\ Number(d) \in Nat /\ delivered[d] \in 0..Number(d)
      /\ \A o \in W : Times("new_orders", o) = c
  BY BookShape
<1>2. Waiting(d) = {o \in W : Times("new_orders", o) > 0}
  BY DEF Waiting, Number
<1>3. IsFiniteSet(W) /\ Cardinality(W) = Number(d) - delivered[d]
  <2>1. delivered[d] + 1 \in Int /\ Number(d) \in Int
    BY <1>1
  <2>2. /\ IsFiniteSet(W)
        /\ Cardinality(W) = IF delivered[d] + 1 > Number(d) THEN 0
                            ELSE Number(d) - (delivered[d] + 1) + 1
    BY <2>1, FS_Interval
  <2>3. QED
    BY <1>1, <2>2
<1>4. NumWaiting(d) = SumOver(f, Waiting(d))
  BY SumFunctionIs DEF NumWaiting
<1>5. CASE c > 0
  <2>1. Waiting(d) = W
    BY <1>1, <1>2, <1>5
  <2>2. \A o \in W : f[o] = c
    BY <1>1, <2>1
  <2> HIDE DEF f, W
  <2>3. SumOver(f, W) = c * Cardinality(W)
    BY <1>3, <2>2, SumOfSame
  <2>4. QED
    BY <1>3, <1>4, <1>5, <2>1, <2>3 DEF W
<1>6. CASE c = 0
  <2>1. Waiting(d) = {}
    BY <1>1, <1>2, <1>6
  <2> HIDE DEF f
  <2>2. NumWaiting(d) = 0
    BY <1>4, <2>1, SumOfNone
  <2>3. QED
    BY <1>1, <1>6, <2>1, <2>2
<1>7. QED
  BY <1>5, <1>6

LEMMA OrderedIs ==
  ASSUME DbIInv, NEW d \in Districts
  PROVE  /\ copies["orders"] = 0 => NumOrders(d) = 0
         /\ copies["orders"] > 0 => /\ Ordered(d) = 1..Number(d)
                                    /\ NumOrders(d) \in Int
                                    /\ NumOrders(d) >= Number(d)
         /\ copies["orders"] = 1 <=> copies["orders"] > 0 /\ NumOrders(d) = Number(d)
<1> DEFINE f == [o \in Ordered(d) |-> Times("orders", o)]
           D == 1..Number(d)
           c == copies["orders"]
<1>1. /\ Number(d) \in Nat /\ Number(d) >= Len(Loaded) /\ Len(Loaded) >= 1 /\ c \in Nat
      /\ "orders" \in Tables
  BY BookShape, Constants DEF DbIInv, Tables
<1>2. NumOrders(d) = SumOver(f, Ordered(d)) /\ Ordered(d) = {o \in D : Times("orders", o) > 0}
  BY SumFunctionIs DEF NumOrders, Ordered, Number
<1>3. IsFiniteSet(D) /\ Cardinality(D) = Number(d)
  BY <1>1, FS_Interval
<1>4. \A o \in D : /\ Times("orders", o) \in Nat
                   /\ o <= Len(Loaded) => Times("orders", o) = c
                   /\ o > Len(Loaded) => Times("orders", o) = 1
  BY <1>1, TimesIs
<1>5. CASE c = 0
  <2>1. Number(d) = Len(Loaded)
    BY <1>1, <1>5, Unloaded DEF Untouched
  <2>2. Ordered(d) = {}
    BY <1>2, <1>4, <1>5, <2>1
  <2> HIDE DEF f
  <2>3. NumOrders(d) = 0
    BY <1>2, <2>2, SumOfNone
  <2>4. QED
    BY <1>5, <2>3
<1>6. CASE c > 0
  <2> DEFINE one == [o \in D |-> 1]
  <2>1. Ordered(d) = D
    BY <1>1, <1>2, <1>4, <1>6
  <2>2. \A o \in D : f[o] \in Int /\ one[o] \in Int /\ f[o] >= one[o]
    BY <1>1, <1>4, <1>6, <2>1
  <2>3. \A o \in D : one[o] = 1
    OBVIOUS
  <2>4. 1 \in D /\ f[1] = c
    BY <1>1, <1>4, <2>1
  <2>5. c = 1 => \A o \in D : f[o] = 1
    BY <1>1, <1>4, <2>1
  <2> HIDE DEF f, one, D
  <2>6. SumOver(one, D) = Number(d)
    BY <1>3, <2>3, SumOfOnes
  <2>7. /\ SumOver(f, D) \in Int /\ SumOver(f, D) >= SumOver(one, D)
        /\ SumOver(f, D) = SumOver(one, D) => \A o \in D : f[o] = one[o]
    BY <1>3, <2>2, SumAtLeast
  <2>8. c = 1 => SumOver(f, D) = Number(d)
    BY <1>3, <2>5, SumOfOnes
  <2>9. NumOrders(d) = SumOver(f, D)
    BY <1>2, <2>1
  <2>10. NumOrders(d) = Number(d) => c = 1
    BY <2>3, <2>4, <2>6, <2>7, <2>9
  <2>11. QED
    BY <1>6, <2>1, <2>6, <2>7, <2>8, <2>9, <2>10 DEF D
<1>7. QED
  BY <1>1, <1>5, <1>6

LEMMA OrdersCounted ==
  ASSUME DbIInv
  PROVE  CountOf("orders") = FileRows("orders")
           <=> copies["orders"] = 1 /\ \A d \in Districts : Number(d) = Len(Loaded)
<1> DEFINE f == [d \in Districts |-> NumOrders(d)]
           e == [d \in Districts |-> Len(Loaded)]
           N == Cardinality(Districts)
           L == Len(Loaded)
<1>1. CountOf("orders") = SumOver(f, Districts) /\ FileRows("orders") = N * L
  BY SumFunctionIs DEF CountOf, FileRows
<1>2. /\ N \in Nat \ {0} /\ L \in Nat \ {0} /\ IsFiniteSet(Districts)
      /\ \E d \in Districts : TRUE
  <2>1. 1 \in Districts
    BY Constants
  <2>2. QED
    BY <2>1, Constants
<1>3. SumOver(e, Districts) = L * N
  <2>1. \A d \in Districts : e[d] = L
    OBVIOUS
  <2> HIDE DEF e, L
  <2>2. L \in Int
    BY <1>2
  <2>3. QED
    BY <1>2, <2>1, <2>2, SumOfSame
<1>4. copies["orders"] \in Nat
  BY DEF DbIInv, Tables
<1>5. N * L = L * N /\ N * L > 0
  <2> HIDE DEF N, L
  <2>1. QED
    BY <1>2
<1>6. CASE copies["orders"] = 0
  <2>1. \A d \in Districts : f[d] = 0
    BY <1>6, OrderedIs
  <2> HIDE DEF f, N, L
  <2>2. SumOver(f, Districts) = 0
    BY <1>2, <2>1, SumOfZeros
  <2>3. QED
    BY <1>1, <1>5, <1>6, <2>2
<1>7. CASE copies["orders"] > 0
  <2>1. \A d \in Districts : /\ f[d] \in Int /\ f[d] >= Number(d)
                             /\ f[d] = Number(d) <=> copies["orders"] = 1
    BY <1>7, OrderedIs
  <2>2. \A d \in Districts : /\ e[d] = L /\ e[d] \in Int /\ Number(d) \in Int
                             /\ Number(d) >= L
    BY <1>2, BookShape
  <2> HIDE DEF f, e, L, N
  <2>3. \A d \in Districts : f[d] >= e[d]
    BY <1>2, <2>1, <2>2
  <2>4. SumOver(f, Districts) = SumOver(e, Districts) => \A d \in Districts : f[d] = e[d]
    BY <1>2, <2>1, <2>2, <2>3, SumAtLeast
  <2>5. (\A d \in Districts : f[d] = L) => SumOver(f, Districts) = L * N
    <3>1. L \in Int
      BY <1>2
    <3>2. QED
      BY <1>2, <3>1, SumOfSame DEF N
  <2>6. (\A d \in Districts : f[d] = L)
          <=> copies["orders"] = 1 /\ \A d \in Districts : Number(d) = L
    <3>1. ASSUME \A d \in Districts : f[d] = L, NEW d \in Districts
          PROVE  Number(d) = L /\ copies["orders"] = 1
      BY <1>2, <2>1, <2>2, <3>1
    <3>2. QED
      BY <1>2, <2>1, <3>1
  <2>7. QED
    BY <1>1, <1>3, <1>5, <2>2, <2>4, <2>5, <2>6 DEF L
<1>8. QED
  BY <1>4, <1>6, <1>7

LEMMA WaitingCounted ==
  ASSUME DbIInv, copies["new_orders"] = 1, \A d \in Districts : Number(d) = Len(Loaded)
  PROVE  CountOf("new_orders") = FileRows("new_orders")
           <=> \A d \in Districts : delivered[d] = Len(Loaded) - Undelivered[d]
<1> DEFINE f == [d \in Districts |-> NumWaiting(d)]
           L == Len(Loaded)
<1>1. /\ CountOf("new_orders") = SumOver(f, Districts)
      /\ FileRows("new_orders") = SumOver(Undelivered, Districts)
  BY SumFunctionIs, Constants DEF CountOf, FileRows
<1>2. ASSUME NEW d \in Districts
      PROVE  /\ f[d] \in Int /\ Undelivered[d] \in Int /\ Undelivered[d] >= f[d]
             /\ Undelivered[d] = f[d] <=> delivered[d] = L - Undelivered[d]
  <2>1. /\ Number(d) = L /\ L \in Nat /\ delivered[d] \in 0..L /\ Undelivered[d] \in 0..L
        /\ delivered[d] >= L - Undelivered[d] /\ "new_orders" \in Tables
    BY <1>2, BookShape, Constants DEF Tables
  <2>2. \A o \in (delivered[d] + 1)..Number(d) : Times("new_orders", o) = 1
    BY <2>1 DEF Times
  <2>3. NumWaiting(d) = L - delivered[d]
    BY <2>1, <2>2, WaitingIs
  <2>4. QED
    BY <2>1, <2>3
<1> HIDE DEF f, L
<1>3. SumOver(Undelivered, Districts) = SumOver(f, Districts)
        => \A d \in Districts : Undelivered[d] = f[d]
  BY <1>2, Constants, SumAtLeast
<1>4. (\A d \in Districts : Undelivered[d] = f[d])
        => SumOver(Undelivered, Districts) = SumOver(f, Districts)
  BY Constants, SumSame
<1>5. QED
  BY <1>1, <1>2, <1>3, <1>4 DEF L

\* Lines of the file of order_line, per district.
FileLines == SumFunction([o \in DOMAIN Loaded |-> Len(Loaded[o].lines)])

LEMMA FileLinesIs == FileLines \in Nat \ {0}
<1> DEFINE f == [o \in DOMAIN Loaded |-> Len(Loaded[o].lines)]
           one == [o \in DOMAIN Loaded |-> 1]
           L == Len(Loaded)
<1>1. /\ L \in Nat \ {0} /\ DOMAIN Loaded = 1..L
      /\ \A o \in DOMAIN Loaded : Len(Loaded[o].lines) \in Nat \ {0}
  BY Constants
<1>2. IsFiniteSet(DOMAIN Loaded) /\ Cardinality(DOMAIN Loaded) = L
  BY <1>1, FS_Interval
<1>3. \A o \in DOMAIN Loaded : f[o] \in Int /\ one[o] \in Int /\ f[o] >= one[o]
  BY <1>1
<1>4. \A o \in DOMAIN Loaded : one[o] = 1
  OBVIOUS
<1>5. FileLines = SumOver(f, DOMAIN Loaded)
  BY SumFunctionIs DEF FileLines
<1> HIDE DEF f, one
<1>6. /\ SumOver(f, DOMAIN Loaded) \in Int
      /\ SumOver(f, DOMAIN Loaded) >= SumOver(one, DOMAIN Loaded)
  BY <1>2, <1>3, SumAtLeast
<1>7. SumOver(one, DOMAIN Loaded) = L
  BY <1>2, <1>4, SumOfOnes
<1>8. QED
  BY <1>1, <1>5, <1>6, <1>7

LEMMA LoadedIsFinite == IsFiniteSet(DOMAIN Loaded)
<1>1. DOMAIN Loaded = 1..Len(Loaded) /\ Len(Loaded) \in Nat
  BY Constants
<1>2. \A n \in Nat : IsFiniteSet(1..n)
  BY FS_Interval
<1>3. QED
  BY <1>1, <1>2

LEMMA LinesIs ==
  ASSUME DbIInv, NEW t \in Tables, NEW d \in Districts, Number(d) = Len(Loaded)
  PROVE  NumLines(t, d) = copies[t] * FileLines
<1> DEFINE h == [o \in DOMAIN book[d] |-> Times(t, o) * Len(book[d][o].lines)]
           f == [o \in DOMAIN Loaded |-> Len(Loaded[o].lines)]
           D == DOMAIN Loaded
           c == copies[t]
<1>1. /\ D = 1..Len(Loaded) /\ DOMAIN book[d] = D /\ Len(Loaded) \in Nat /\ c \in Nat
      /\ \A o \in D : Len(Loaded[o].lines) \in Int /\ book[d][o] = Loaded[o]
  <2>1. /\ DOMAIN Loaded = 1..Len(Loaded) /\ Len(Loaded) \in Nat
        /\ \A o \in DOMAIN Loaded : Len(Loaded[o].lines) \in Int
    BY Constants
  <2>2. DOMAIN book[d] = 1..Len(Loaded)
    BY BookShape
  <2>3. copies[t] \in Nat /\ \A o \in DOMAIN Loaded : book[d][o] = Loaded[o]
    BY DEF DbIInv
  <2>4. QED
    BY <2>1, <2>2, <2>3
<1>2. IsFiniteSet(D)
  BY LoadedIsFinite
<1>3. ASSUME NEW o \in D
      PROVE  f[o] \in Int /\ h[o] = c * f[o]
  <2>1. o \in Nat /\ o <= Len(Loaded)
    BY <1>1
  <2>2. Times(t, o) = c
    BY <2>1 DEF Times
  <2>3. QED
    BY <1>1, <2>2
<1>4. NumLines(t, d) = SumOver(h, D) /\ FileLines = SumOver(f, D)
  BY <1>1, SumFunctionIs DEF NumLines, FileLines
<1> HIDE DEF h, f, D, c
<1>5. c \in Int
  BY <1>1
<1>6. SumOver(h, D) = c * SumOver(f, D)
  BY <1>2, <1>3, <1>5, SumTimes
<1>7. QED
  BY <1>4, <1>6 DEF c

\* Orders and their lines, of a database that was loaded once.
LEMMA LinesAgree ==
  ASSUME DbIInv, NEW d \in Districts, copies["orders"] = 1, copies["order_line"] = 1
  PROVE  /\ NumLines("orders", d) = NumLines("order_line", d)
         /\ NumLines("orders", d) \in Nat \ {0}
<1> DEFINE D == DOMAIN book[d]
           h(t) == [o \in D |-> Times(t, o) * Len(book[d][o].lines)]
           f == h("orders")
           one == [o \in D |-> 1]
<1>1. /\ D = 1..Number(d) /\ Number(d) \in Nat \ {0}
      /\ \A o \in D : Len(book[d][o].lines) \in Nat \ {0}
  <2>1. Len(Loaded) \in Nat \ {0}
    BY Constants
  <2>2. /\ Number(d) \in Nat /\ Number(d) >= Len(Loaded) /\ D = 1..Number(d)
        /\ \A o \in 1..Number(d) : Len(book[d][o].lines) \in Nat \ {0}
    BY BookShape
  <2> HIDE DEF D
  <2>3. QED
    BY <2>1, <2>2
<1>2. IsFiniteSet(D) /\ Cardinality(D) = Number(d)
  BY <1>1, FS_Interval
<1>3. \A o \in D : Times("orders", o) = 1 /\ Times("order_line", o) = 1
  BY <1>1 DEF Times
<1>4. h("order_line") = f
  BY <1>3
<1>5. \A o \in D : f[o] \in Int /\ one[o] \in Int /\ f[o] >= one[o] /\ one[o] = 1
  BY <1>1, <1>3
<1>6. /\ NumLines("orders", d) = SumOver(f, D)
      /\ NumLines("order_line", d) = SumOver(h("order_line"), D)
  BY SumFunctionIs DEF NumLines
<1>7. NumLines("orders", d) = SumOver(f, D) /\ NumLines("order_line", d) = SumOver(f, D)
  BY <1>4, <1>6
<1> HIDE DEF f, one, D
<1>8. SumOver(one, D) = Number(d)
  BY <1>2, <1>5, SumOfOnes
<1>9. SumOver(f, D) \in Int /\ SumOver(f, D) >= SumOver(one, D)
  BY <1>2, <1>5, SumAtLeast
<1>10. QED
  BY <1>1, <1>7, <1>8, <1>9

LEMMA OneFactor ==
  ASSUME NEW c \in Nat, NEW a \in Nat \ {0}
  PROVE  /\ c * a = a <=> c = 1
         /\ a * c = c * a
<1>1. CASE c = 0
  BY <1>1
<1>2. CASE c = 1
  BY <1>2
<1>3. CASE c > 1
  <2>1. PICK b \in Nat : c = b + 2
    <3>1. c - 2 \in Nat /\ c = (c - 2) + 2
      BY <1>3
    <3>2. QED
      BY <3>1
  <2>2. c * a = b * a + 2 * a /\ b * a \in Nat
    BY <2>1
  <2>3. c * a > a
    BY <2>2
  <2>4. QED
    BY <1>3, <2>3
<1>4. QED
  BY <1>1, <1>2, <1>3

LEMMA LinesCounted ==
  ASSUME DbIInv, \A d \in Districts : Number(d) = Len(Loaded)
  PROVE  CountOf("order_line") = FileRows("order_line") <=> copies["order_line"] = 1
<1> DEFINE f == [d \in Districts |-> NumLines("order_line", d)]
           N == Cardinality(Districts)
           c == copies["order_line"]
           K == FileLines
<1>1. CountOf("order_line") = SumOver(f, Districts) /\ FileRows("order_line") = N * K
  BY SumFunctionIs DEF CountOf, FileRows, FileLines
<1>2. /\ N \in Nat \ {0} /\ IsFiniteSet(Districts) /\ c \in Nat /\ K \in Nat \ {0}
      /\ "order_line" \in Tables
  BY Constants, FileLinesIs DEF DbIInv, Tables
<1>3. \A d \in Districts : f[d] = c * K
  BY <1>2, LinesIs
<1> HIDE DEF f, N, c, K
<1>4. c * K \in Int
  BY <1>2
<1>5. SumOver(f, Districts) = (c * K) * N
  BY <1>2, <1>3, <1>4, SumOfSame DEF N
<1>6. (c * K) * N = c * (N * K) /\ N * K \in Nat \ {0}
  BY <1>2
<1>7. c * (N * K) = N * K <=> c = 1
  BY <1>2, <1>6, OneFactor
<1>8. QED
  BY <1>1, <1>5, <1>6, <1>7 DEF c

LEMMA HistoryCounted ==
  ASSUME DbIInv
  PROVE  CountOf("history") = FileRows("history")
           <=> copies["history"] = 1 /\ \A k \in Districts \X Customers : paid[k].number = 0
<1> DEFINE D == Districts \X Customers
           f == [k \in D |-> paid[k].number]
           z == [k \in D |-> 0]
           c == copies["history"]
<1>1. /\ IsFiniteSet(D) /\ DOMAIN paid = D /\ c \in Nat
      /\ \A k \in D : paid[k].number \in Nat
  BY Constants DEF DbIInv, Tables
<1>2. CountOf("history") = c + SumOver(f, D) /\ FileRows("history") = 1
  BY <1>1, SumFunctionIs DEF CountOf, FileRows, Payments
<1>3. \A k \in D : f[k] \in Int /\ z[k] \in Int /\ f[k] >= z[k] /\ z[k] = 0
  BY <1>1
<1>4. c = 0 => \A k \in D : f[k] = 0
  BY Unloaded DEF Untouched, Tables
<1>5. \A k \in D : f[k] = paid[k].number
  OBVIOUS
<1> HIDE DEF f, z, D
<1>6. SumOver(z, D) = 0
  BY <1>1, <1>3, SumOfZeros
<1>7. /\ SumOver(f, D) \in Int /\ SumOver(f, D) >= SumOver(z, D)
      /\ SumOver(f, D) = SumOver(z, D) => \A k \in D : f[k] = z[k]
  BY <1>1, <1>3, SumAtLeast
<1>8. (\A k \in D : f[k] = 0) => SumOver(f, D) = 0
  BY <1>1, SumOfZeros
<1>9. SumOver(f, D) = 0 <=> \A k \in D : paid[k].number = 0
  BY <1>3, <1>5, <1>6, <1>7, <1>8
<1>10. c + SumOver(f, D) = 1 <=> c = 1 /\ SumOver(f, D) = 0
  BY <1>1, <1>4, <1>6, <1>7, <1>8
<1>11. QED
  BY <1>2, <1>9, <1>10 DEF c, D

LEMMA OthersCounted ==
  ASSUME DbIInv, NEW t \in {"warehouse", "district", "item", "customer", "stock"}
  PROVE  CountOf(t) = FileRows(t) <=> copies[t] = 1
<1>1. copies[t] \in Nat /\ Cardinality(Districts) \in Nat \ {0}
  BY Constants DEF DbIInv, Tables
<1>2. FileRows(t) \in Nat \ {0}
  BY <1>1 DEF FileRows
<1>3. CountOf(t) = copies[t] * FileRows(t)
  BY DEF CountOf
<1>4. QED
  BY <1>1, <1>2, <1>3, OneFactor

---------------------------------------------------------------------------
(* What the checks mean. *)

\* Check 1, but for new_orders.
LEMMA CountsMean ==
  ASSUME DbIInv
  PROVE  (\A t \in Tables \ {"new_orders"} : CountOf(t) = FileRows(t))
           <=> /\ \A t \in Tables \ {"new_orders"} : copies[t] = 1
               /\ \A d \in Districts : Number(d) = Len(Loaded)
               /\ \A k \in Districts \X Customers : paid[k].number = 0
<1> DEFINE Simple == {"warehouse", "district", "item", "customer", "stock"}
           Same == \A d \in Districts : Number(d) = Len(Loaded)
           None == \A k \in Districts \X Customers : paid[k].number = 0
<1>1. \A t \in Simple : CountOf(t) = FileRows(t) <=> copies[t] = 1
  BY OthersCounted
<1>2. CountOf("orders") = FileRows("orders") <=> copies["orders"] = 1 /\ Same
  BY OrdersCounted
<1>3. Same => (CountOf("order_line") = FileRows("order_line") <=> copies["order_line"] = 1)
  BY LinesCounted
<1>4. CountOf("history") = FileRows("history") <=> copies["history"] = 1 /\ None
  BY HistoryCounted
<1>5. Tables \ {"new_orders"} = Simple \cup {"orders", "order_line", "history"}
  BY DEF Tables
<1> HIDE DEF Simple, Same, None
<1>6. QED
  BY <1>1, <1>2, <1>3, <1>4, <1>5 DEF Same, None

\* The district and customer rows of one that has seen no transaction.
LEMMA UntouchedIs ==
  ASSUME DbIInv
  PROVE  txns = 0 <=> /\ \A d \in Districts : Number(d) = Len(Loaded)
                      /\ \A d \in Districts : delivered[d] = Len(Loaded) - Undelivered[d]
                      /\ \A k \in Districts \X Customers : paid[k].number = 0
BY DEF DbIInv, Untouched

\* A database that was loaded once has its row counts only if there was no
\* transaction.
LEMMA CountsTell ==
  ASSUME DbIInv, \A t \in Tables : copies[t] = 1
  PROVE  (\A t \in Tables : CountOf(t) = FileRows(t)) <=> txns = 0
<1> DEFINE Same == \A d \in Districts : Number(d) = Len(Loaded)
           None == \A k \in Districts \X Customers : paid[k].number = 0
           Still == \A d \in Districts : delivered[d] = Len(Loaded) - Undelivered[d]
           Count(t) == CountOf(t) = FileRows(t)
<1>1. (\A t \in Tables \ {"new_orders"} : Count(t)) <=> Same /\ None
  BY CountsMean
<1>2. Same => (Count("new_orders") <=> Still)
  BY WaitingCounted DEF Tables
<1>3. txns = 0 <=> Same /\ Still /\ None
  BY UntouchedIs
<1>4. (\A t \in Tables : Count(t))
        <=> (\A t \in Tables \ {"new_orders"} : Count(t)) /\ Count("new_orders")
  <2> HIDE DEF Count
  <2>1. QED
    BY DEF Tables
<1> HIDE DEF Same, None, Still, Count
<1>5. (\A t \in Tables : Count(t)) <=> txns = 0
  BY <1>1, <1>2, <1>3, <1>4
<1>6. QED
  BY <1>5 DEF Count

---------------------------------------------------------------------------
(* What the questions of a check tell. *)

LEMMA RangeEnds ==
  ASSUME NEW a \in Int, NEW b \in Int, a <= b
  PROVE  a..b # {} /\ Max(a..b) = b /\ Min(a..b) = a
<1>1. a \in a..b /\ b \in a..b /\ \A x \in a..b : x \in Int /\ a <= x /\ x <= b
  OBVIOUS
<1>2. Max(a..b) \in a..b /\ Max(a..b) >= b
  <2>1. \E x \in a..b : \A y \in a..b : x >= y
    BY <1>1
  <2>2. Max(a..b) \in a..b /\ \A y \in a..b : Max(a..b) >= y
    BY <2>1 DEF Max
  <2>3. QED
    BY <1>1, <2>2
<1>3. Min(a..b) \in a..b /\ Min(a..b) <= a
  <2>1. \E x \in a..b : \A y \in a..b : x <= y
    BY <1>1
  <2>2. Min(a..b) \in a..b /\ \A y \in a..b : Min(a..b) <= y
    BY <2>1 DEF Min
  <2>3. QED
    BY <1>1, <2>2
<1>4. QED
  BY <1>1, <1>2, <1>3

\* Rows and NULLs.
LEMMA AnswersAre ==
  ASSUME NEW t, t \in created, NEW n \in Nat
  PROVE  /\ HasRow(About(t, Rows(n))) /\ About(t, Rows(n)).n = n
         /\ HasRow(About(t, OrNull(n))) <=> ~(n = 0 /\ legacy)
         /\ HasRow(About(t, OrNull(n))) => About(t, OrNull(n)).n = n
BY DEF About, HasRow, Rows, NoRows, OrNull

LEMMA NoTable ==
  ASSUME NEW t, t \notin created, NEW r
  PROVE  ~HasRow(About(t, r)) /\ (~legacy => Fails(About(t, r)))
BY DEF About, HasRow, Error, Fails

LEMMA GreatestIs ==
  ASSUME NEW a \in Nat, NEW b \in Nat, NEW t, t \in created
  PROVE  /\ a > b => /\ About(t, Greatest(a..b)) = About(t, OrNull(0))
                     /\ About(t, Least(a..b)) = About(t, OrNull(0))
         /\ a <= b => /\ About(t, Greatest(a..b)) = About(t, OrNull(b))
                      /\ About(t, Least(a..b)) = About(t, OrNull(a))
<1>1. a > b => a..b = {}
  OBVIOUS
<1>2. a <= b => a..b # {} /\ Max(a..b) = b /\ Min(a..b) = a
  BY RangeEnds
<1>3. QED
  BY <1>1, <1>2 DEF Greatest, Least

LEMMA QuestionsAre ==
  ASSUME NEW d
  PROVE  /\ Questions(d)["districts"][1] = About("district", NextId(d))
         /\ Questions(d)["districts"][2] = About("orders", Greatest(Ordered(d)))
         /\ Questions(d)["districts"][3] = About("new_orders", Greatest(Waiting(d)))
         /\ Questions(d)["queue"][1] = About("new_orders", Rows(NumWaiting(d)))
         /\ Questions(d)["queue"][2] = About("new_orders", Greatest(Waiting(d)))
         /\ Questions(d)["queue"][3] = About("new_orders", Least(Waiting(d)))
         /\ Questions(d)["lines"][1] = About("orders", OrNull(NumLines("orders", d)))
         /\ Questions(d)["lines"][2] = About("order_line", Rows(NumLines("order_line", d)))
         /\ \A c \in DOMAIN Questioned : Len(Questions(d)[c]) = Questioned[c]
         /\ DOMAIN Questioned = {"districts", "queue", "lines"}
<1>1. ASSUME NEW a, NEW b, NEW c
      PROVE  /\ <<a, b, c>>[1] = a /\ <<a, b, c>>[2] = b /\ <<a, b, c>>[3] = c
             /\ Len(<<a, b, c>>) = 3 /\ <<a, b>>[1] = a /\ <<a, b>>[2] = b /\ Len(<<a, b>>) = 2
  OBVIOUS
<1>2. /\ Questions(d)["districts"]
            = <<About("district", NextId(d)), About("orders", Greatest(Ordered(d))),
                About("new_orders", Greatest(Waiting(d)))>>
      /\ Questions(d)["queue"]
            = <<About("new_orders", Rows(NumWaiting(d))), About("new_orders", Greatest(Waiting(d))),
                About("new_orders", Least(Waiting(d)))>>
      /\ Questions(d)["lines"]
            = <<About("orders", OrNull(NumLines("orders", d))),
                About("order_line", Rows(NumLines("order_line", d)))>>
  BY DEF Questions
<1>3. /\ Questioned["districts"] = 3 /\ Questioned["queue"] = 3 /\ Questioned["lines"] = 2
      /\ DOMAIN Questioned = {"districts", "queue", "lines"}
  BY DEF Questioned
<1>4. ASSUME NEW c \in DOMAIN Questioned
      PROVE  Len(Questions(d)[c]) = Questioned[c]
  <2>1. c = "districts" \/ c = "queue" \/ c = "lines"
    BY <1>3
  <2>2. Len(Questions(d)["districts"]) = 3 /\ Len(Questions(d)["queue"]) = 3
    BY <1>1, <1>2
  <2>3. Len(Questions(d)["lines"]) = 2
    BY <1>1, <1>2
  <2>4. QED
    BY <1>3, <2>1, <2>2, <2>3
<1> HIDE DEF Questions, Questioned
<1>5. /\ Questions(d)["districts"][1] = About("district", NextId(d))
      /\ Questions(d)["districts"][2] = About("orders", Greatest(Ordered(d)))
      /\ Questions(d)["districts"][3] = About("new_orders", Greatest(Waiting(d)))
  BY <1>1, <1>2
<1>6. /\ Questions(d)["queue"][1] = About("new_orders", Rows(NumWaiting(d)))
      /\ Questions(d)["queue"][2] = About("new_orders", Greatest(Waiting(d)))
      /\ Questions(d)["queue"][3] = About("new_orders", Least(Waiting(d)))
  BY <1>1, <1>2
<1>7. /\ Questions(d)["lines"][1] = About("orders", OrNull(NumLines("orders", d)))
      /\ Questions(d)["lines"][2] = About("order_line", Rows(NumLines("order_line", d)))
  BY <1>1, <1>2
<1>8. QED
  BY <1>3, <1>4, <1>5, <1>6, <1>7

LEMMA RightIs ==
  ASSUME NEW d
  PROVE  /\ LET q == Questions(d)["districts"]
            IN  DistrictRight("districts", d)
                  <=> /\ HasRow(q[1]) /\ HasRow(q[2]) /\ HasRow(q[3])
                      /\ q[1].n - 1 = q[2].n /\ q[1].n - 1 = q[3].n
         /\ LET q == Questions(d)["queue"]
            IN  DistrictRight("queue", d)
                  <=> /\ HasRow(q[1]) /\ HasRow(q[2]) /\ HasRow(q[3])
                      /\ q[1].n = q[2].n - q[3].n + 1
         /\ LET q == Questions(d)["lines"]
            IN  DistrictRight("lines", d)
                  <=> HasRow(q[1]) /\ HasRow(q[2]) /\ q[1].n = q[2].n
<1>1. ASSUME NEW q
      PROVE  /\ (\A n \in 1..3 : HasRow(q[n])) <=> HasRow(q[1]) /\ HasRow(q[2]) /\ HasRow(q[3])
             /\ (\A n \in 1..2 : HasRow(q[n])) <=> HasRow(q[1]) /\ HasRow(q[2])
  <2>1. 1..3 = {1, 2, 3} /\ 1..2 = {1, 2}
    OBVIOUS
  <2>2. QED
    BY <2>1
<1>2. ASSUME NEW q
      PROVE  LET a == [n \in 1..3 |-> q[n].n]
                 b == [n \in 1..2 |-> q[n].n]
             IN  /\ a[1] = q[1].n /\ a[2] = q[2].n /\ a[3] = q[3].n
                 /\ b[1] = q[1].n /\ b[2] = q[2].n
  OBVIOUS
<1>3. Questioned["districts"] = 3 /\ Questioned["queue"] = 3 /\ Questioned["lines"] = 2
  BY DEF Questioned
<1>4. QED
  BY <1>1, <1>2, <1>3, Zenon DEF DistrictRight, Adds

\* Check 3: there is a row in new_orders, and every one is there once.
LEMMA QueueTells ==
  ASSUME DbIInv, NEW d \in Districts, NEW c \in Nat, "new_orders" \in created,
         \A o \in (delivered[d] + 1)..Number(d) : Times("new_orders", o) = c
  PROVE  DistrictRight("queue", d) <=> c = 1 /\ delivered[d] < Number(d)
<1> DEFINE q == Questions(d)["queue"]
           t == "new_orders"
           n == Number(d)
           m == delivered[d]
<1>1. /\ q[1] = About(t, Rows(NumWaiting(d))) /\ q[2] = About(t, Greatest(Waiting(d)))
      /\ q[3] = About(t, Least(Waiting(d)))
  BY QuestionsAre
<1>2. /\ Waiting(d) = IF c > 0 THEN (m + 1)..n ELSE {}
      /\ NumWaiting(d) = c * (n - m)
  BY WaitingIs
<1>3. n \in Nat /\ m \in 0..n
  BY BookShape
<1>4. DistrictRight("queue", d)
        <=> /\ HasRow(q[1]) /\ HasRow(q[2]) /\ HasRow(q[3])
            /\ q[1].n = q[2].n - q[3].n + 1
  BY RightIs
<1> HIDE DEF q, n, m
<1>5. CASE c > 0 /\ m < n
  <2>1. c * (n - m) \in Nat /\ n - m \in Nat \ {0}
    BY <1>3, <1>5
  <2>2. HasRow(q[1]) /\ q[1].n = c * (n - m)
    BY <1>1, <1>2, <2>1, AnswersAre
  <2>3. q[2] = About(t, OrNull(n)) /\ q[3] = About(t, OrNull(m + 1))
    <3>1. m + 1 \in Nat /\ n \in Nat /\ m + 1 <= n
      BY <1>3, <1>5
    <3>2. QED
      BY <1>1, <1>2, <1>5, <3>1, GreatestIs
  <2>4. HasRow(q[2]) /\ HasRow(q[3]) /\ q[2].n = n /\ q[3].n = m + 1
    <3>1. m + 1 \in Nat \ {0} /\ n \in Nat \ {0}
      BY <1>3, <1>5
    <3>2. QED
      BY <2>3, <3>1, AnswersAre
  <2>5. c * (n - m) = n - m <=> c = 1
    BY <2>1, OneFactor
  <2>6. n - (m + 1) + 1 = n - m
    BY <1>3
  <2>7. QED
    BY <1>4, <1>5, <2>2, <2>4, <2>5, <2>6 DEF n, m
<1>6. CASE ~(c > 0 /\ m < n)
  <2>1. Waiting(d) = {} /\ NumWaiting(d) = 0
    <3>1. CASE c = 0
      BY <1>2, <1>3, <3>1
    <3>2. CASE m = n
      BY <1>2, <1>3, <3>2
    <3>3. QED
      BY <1>3, <1>6, <3>1, <3>2
  <2>2. q[1] = About(t, Rows(0)) /\ q[2] = About(t, OrNull(0)) /\ q[3] = About(t, OrNull(0))
    BY <1>1, <2>1 DEF Greatest, Least
  <2>3. q[1].n = 0 /\ (HasRow(q[2]) => q[2].n = 0 /\ q[3].n = 0)
    BY <2>2, AnswersAre
  <2>4. ~DistrictRight("queue", d)
    BY <1>4, <2>3
  <2>5. QED
    BY <1>6, <2>4 DEF n, m
<1>7. QED
  BY <1>5, <1>6

\* Checks 2, 3 and 4 of a database that was loaded once.
LEMMA ChecksTell ==
  ASSUME DbIInv, \A t \in Tables : copies[t] = 1, NEW d \in Districts
  PROVE  /\ DistrictRight("districts", d) <=> Waiting(d) # {}
         /\ DistrictRight("queue", d) <=> Waiting(d) # {}
         /\ DistrictRight("lines", d)
<1> DEFINE n == Number(d)
           m == delivered[d]
<1>1. n \in Nat \ {0} /\ m \in 0..n
  <2>1. Len(Loaded) >= 1 /\ Len(Loaded) \in Nat
    BY Constants
  <2>2. n \in Nat /\ n >= Len(Loaded) /\ m \in 0..n
    BY BookShape
  <2>3. QED
    BY <2>1, <2>2
<1>2. \A t \in Tables : t \in created
  BY DEF DbIInv
<1>3. "district" \in created /\ "orders" \in created /\ "new_orders" \in created
      /\ "order_line" \in created
  BY <1>2 DEF Tables
<1>4. /\ \A o \in (m + 1)..n : Times("new_orders", o) = 1
      /\ copies["district"] = 1 /\ copies["orders"] = 1 /\ copies["order_line"] = 1
  BY DEF Times, Tables
<1>5. Waiting(d) = (m + 1)..n
  BY <1>4, WaitingIs
<1>6. Waiting(d) # {} <=> m < n
  BY <1>1, <1>5
<1>7. Ordered(d) = 1..n
  BY <1>4, OrderedIs
<1>8. DistrictRight("queue", d) <=> m < n
  BY <1>3, <1>4, QueueTells
<1>9. DistrictRight("lines", d)
  <2> DEFINE q == Questions(d)["lines"]
             a == NumLines("orders", d)
  <2>1. a \in Nat \ {0} /\ NumLines("order_line", d) = a
    BY <1>4, LinesAgree
  <2>2. q[1] = About("orders", OrNull(a)) /\ q[2] = About("order_line", Rows(a))
    BY <2>1, QuestionsAre
  <2> HIDE DEF a, q
  <2>3. HasRow(q[1]) /\ q[1].n = a /\ HasRow(q[2]) /\ q[2].n = a
    BY <1>3, <2>1, <2>2, AnswersAre
  <2>4. QED
    BY <2>3, RightIs DEF q
<1>10. DistrictRight("districts", d) <=> m < n
  <2> DEFINE q == Questions(d)["districts"]
  <2>1. /\ q[1] = About("district", NextId(d)) /\ q[2] = About("orders", Greatest(1..n))
        /\ q[3] = About("new_orders", Greatest((m + 1)..n))
    BY <1>5, <1>7, QuestionsAre
  <2>2. NextId(d) = Rows(n + 1)
    BY <1>4 DEF NextId, Number
  <2>3. DistrictRight("districts", d)
          <=> /\ HasRow(q[1]) /\ HasRow(q[2]) /\ HasRow(q[3])
              /\ q[1].n - 1 = q[2].n /\ q[1].n - 1 = q[3].n
    BY RightIs
  <2> HIDE DEF q, n, m
  <2>4. n + 1 \in Nat /\ m + 1 \in Nat /\ n \in Nat /\ 1 <= n /\ 1 \in Nat
    BY <1>1
  <2>5. HasRow(q[1]) /\ q[1].n = n + 1
    BY <1>3, <2>1, <2>2, <2>4, AnswersAre
  <2>6. HasRow(q[2]) /\ q[2].n = n
    BY <1>3, <2>1, <2>4, GreatestIs, AnswersAre
  <2>7. m < n => HasRow(q[3]) /\ q[3].n = n
    BY <1>1, <1>3, <2>1, <2>4, GreatestIs, AnswersAre
  <2>8. ~(m < n) => (HasRow(q[3]) => q[3].n = 0)
    <3>1. ~(m < n) => m + 1 > n
      BY <1>1
    <3>2. QED
      BY <1>3, <2>1, <2>4, <3>1, GreatestIs, AnswersAre
  <2>9. QED
    BY <1>1, <2>3, <2>5, <2>6, <2>7, <2>8
<1>11. QED
  BY <1>6, <1>8, <1>9, <1>10

\* A database that passes checks 1 and 3 is as an init leaves it.
LEMMA ChecksProve ==
  ASSUME DbIInv, ~legacy, AllRight("count"), AllRight("queue")
  PROVE  Pristine
<1>1. ASSUME NEW t \in Tables
      PROVE  t \in created /\ CountOf(t) = FileRows(t)
  <2>1. PICK n \in 1..9 : CheckOrder[n] = t
    BY DEF CheckOrder, Tables
  <2>2. CountRight(t)
    <3>1. Steps["count"] = 9
      BY DEF Steps
    <3>2. QED
      BY <2>1, <3>1 DEF AllRight, Right
  <2>3. t \in created
    BY <2>2, NoTable DEF CountRight, OwnCount
  <2>4. HasRow(OwnCount(t))
    BY <2>3 DEF OwnCount, About, Rows, HasRow
  <2>5. QED
    BY <2>2, <2>3, <2>4 DEF CountRight
<1>2. /\ \A t \in Tables \ {"new_orders"} : copies[t] = 1
      /\ \A d \in Districts : Number(d) = Len(Loaded)
      /\ \A k \in Districts \X Customers : paid[k].number = 0
  BY <1>1, CountsMean
<1>3. copies["new_orders"] = 1
  <2>1. 1 \in Districts /\ 1 \in 1..Steps["queue"]
    BY Constants DEF Steps
  <2>2. DistrictRight("queue", 1)
    BY <2>1 DEF AllRight, Right
  <2>3. copies["new_orders"] \in Nat /\ "new_orders" \in created
    BY <1>1 DEF DbIInv, Tables
  <2>4. Number(1) = Len(Loaded) /\ delivered[1] \in Nat
    BY <1>2, <2>1, BookShape
  <2>5. \A o \in (delivered[1] + 1)..Number(1) : Times("new_orders", o) = copies["new_orders"]
    BY <2>4, Constants DEF Times
  <2>6. QED
    BY <2>1, <2>2, <2>3, <2>5, QueueTells
<1>4. \A t \in Tables : copies[t] = 1
  BY <1>2, <1>3
<1>5. txns = 0
  BY <1>1, <1>4, CountsTell
<1>6. QED
  BY <1>4, <1>5 DEF Pristine

---------------------------------------------------------------------------
(* Sequences, and steps of the database. *)

LEMMA SeqOps ==
  ASSUME NEW s, IsSeq(s)
  PROVE  /\ Len(s) \in Nat /\ DOMAIN s = 1..Len(s)
         /\ \A e : /\ IsSeq(Append(s, e)) /\ Len(Append(s, e)) = Len(s) + 1
                   /\ \A n \in 1..Len(s) : Append(s, e)[n] = s[n]
                   /\ Append(s, e)[Len(s) + 1] = e
                   /\ IsSeq(Tail(Append(s, e))) /\ Len(Tail(Append(s, e))) = Len(s)
<1>1. PICK S : s \in Seq(S)
  BY DEF IsSeq
<1>2. Len(s) \in Nat /\ DOMAIN s = 1..Len(s)
  BY <1>1
<1>3. ASSUME NEW e
      PROVE  /\ Append(s, e) \in Seq(S \cup {e}) /\ Len(Append(s, e)) = Len(s) + 1
             /\ \A n \in 1..Len(s) : Append(s, e)[n] = s[n]
             /\ Append(s, e)[Len(s) + 1] = e
             /\ Tail(Append(s, e)) \in Seq(S \cup {e}) /\ Len(Tail(Append(s, e))) = Len(s)
  <2>1. s \in Seq(S \cup {e}) /\ e \in S \cup {e}
    BY <1>1
  <2>2. /\ Append(s, e) \in Seq(S \cup {e}) /\ Len(Append(s, e)) = Len(s) + 1
        /\ \A n \in 1..Len(s) : Append(s, e)[n] = s[n]
        /\ Append(s, e)[Len(s) + 1] = e
    BY <2>1
  <2>3. Append(s, e) # <<>>
    BY <1>2, <2>2
  <2>4. Tail(Append(s, e)) \in Seq(S \cup {e}) /\ Len(Tail(Append(s, e))) = Len(Append(s, e)) - 1
    BY <2>2, <2>3
  <2>5. QED
    BY <1>2, <2>2, <2>4
<1>4. QED
  BY <1>2, <1>3 DEF IsSeq

LEMMA EmptySeq == IsSeq(<<>>) /\ Len(<<>>) = 0
<1>1. <<>> \in Seq({}) /\ Len(<<>>) = 0
  OBVIOUS
<1>2. QED
  BY <1>1 DEF IsSeq

---------------------------------------------------------------------------
(* The database. *)

\* An init creates tables and loads files.
LEMMA DbLoads ==
  ASSUME DbIInv, UNCHANGED <<bookVars, txns>>,
         created \subseteq created', created' \subseteq Tables,
         copies' \in [Tables -> Nat],
         \A t \in Tables : copies'[t] >= copies[t] /\ (copies'[t] > 0 => t \in created')
  PROVE  DbIInv'
<1>1. /\ book' = book /\ delivered' = delivered /\ paid' = paid /\ txns' = txns
      /\ copies \in [Tables -> Nat]
  BY DEF bookVars, DbIInv
<1>2. \A t \in Tables : copies[t] > 0 => copies'[t] > 0
  BY <1>1
<1>3. Untouched' <=> Untouched
  BY <1>1 DEF Untouched, Number
<1>4. QED
  BY <1>1, <1>2, <1>3 DEF DbIInv, Number

LEMMA DbTransacts == ASSUME DbIInv, Transacts PROVE DbIInv'
<1> USE DEF Number
<1>1. /\ txns' = txns + 1 /\ txns \in Nat /\ created' = created /\ copies' = copies
      /\ \A t \in Tables : copies[t] > 0
      /\ created \subseteq Tables /\ copies \in [Tables -> Nat]
      /\ \A t \in Tables : copies[t] > 0 => t \in created
  BY DEF Transacts, DbIInv
<1>2. SUFFICES
        /\ DOMAIN book' = Districts
        /\ \A d \in Districts :
             /\ book'[d] \in Seq(Order)
             /\ Len(book'[d]) >= Len(Loaded)
             /\ \A o \in DOMAIN Loaded : book'[d][o] = Loaded[o]
             /\ delivered'[d] \in (Len(Loaded) - Undelivered[d])..Len(book'[d])
        /\ delivered' \in [Districts -> Nat]
        /\ DOMAIN paid' = Districts \X Customers
        /\ \A k \in Districts \X Customers : paid'[k].number \in Nat
        /\ ~Untouched'
  BY <1>1 DEF DbIInv
<1>3. ASSUME NEW d \in Districts
      PROVE  /\ book[d] \in Seq(Order) /\ Len(book[d]) \in Nat /\ Len(book[d]) >= Len(Loaded)
             /\ \A o \in DOMAIN Loaded : book[d][o] = Loaded[o] /\ o \in 1..Len(book[d])
             /\ delivered[d] \in (Len(Loaded) - Undelivered[d])..Len(book[d])
             /\ delivered[d] \in Nat /\ Undelivered[d] \in 0..Len(Loaded)
  BY Constants DEF DbIInv
<1>4. /\ DOMAIN book = Districts /\ delivered \in [Districts -> Nat]
      /\ DOMAIN paid = Districts \X Customers /\ Len(Loaded) \in Nat
      /\ \A k \in Districts \X Customers : paid[k].number \in Nat
  BY Constants DEF DbIInv
<1>5. \/ \E d \in Districts, order \in Book!Orders : Book!NewOrder(d, order)
      \/ \E k \in Districts \X Customers, amount \in Amounts : Book!Payment(k, amount)
      \/ \E S \in SUBSET Districts : S # {} /\ Book!Delivery(S)
  BY DEF Transacts
<1>6. CASE \E d \in Districts, order \in Book!Orders : Book!NewOrder(d, order)
  <2>1. PICK d \in Districts, order \in Book!Orders : Book!NewOrder(d, order)
    BY <1>6
  <2>2. /\ book' = [book EXCEPT ![d] = Append(book[d], order)]
        /\ delivered' = delivered /\ paid' = paid
    BY <2>1 DEF Book!NewOrder
  <2>3. order \in Order
    <3>1. Baskets \subseteq Lines
      BY StageAssumption
    <3>2. QED
      BY <3>1 DEF Book!Orders, Order
  <2>4. /\ Append(book[d], order) \in Seq(Order)
        /\ Len(Append(book[d], order)) = Len(book[d]) + 1
        /\ \A o \in 1..Len(book[d]) : Append(book[d], order)[o] = book[d][o]
    BY <1>3, <2>3
  <2>5. \A e \in Districts : book'[e] = IF e = d THEN Append(book[d], order) ELSE book[e]
    BY <1>4, <2>2
  <2>6. ~Untouched'
    <3>1. Len(book'[d]) > Len(Loaded)
      <4>1. Len(book'[d]) = Len(book[d]) + 1
        BY <2>4, <2>5
      <4>2. Len(book[d]) \in Nat /\ Len(book[d]) >= Len(Loaded)
        BY <1>3
      <4>3. QED
        BY <1>4, <4>1, <4>2
    <3>2. QED
      BY <1>4, <3>1 DEF Untouched
  <2>7. ASSUME NEW e \in Districts
        PROVE  /\ book'[e] \in Seq(Order)
               /\ Len(book'[e]) >= Len(Loaded)
               /\ \A o \in DOMAIN Loaded : book'[e][o] = Loaded[o]
               /\ delivered'[e] \in (Len(Loaded) - Undelivered[e])..Len(book'[e])
    <3>1. CASE e = d
      BY <1>3, <1>4, <2>2, <2>4, <2>5, <3>1
    <3>2. CASE e # d
      BY <1>3, <1>4, <2>2, <2>5, <3>2
    <3>3. QED
      BY <3>1, <3>2
  <2>8. QED
    BY <1>4, <2>2, <2>6, <2>7
<1>7. CASE \E k \in Districts \X Customers, amount \in Amounts : Book!Payment(k, amount)
  <2>1. PICK k \in Districts \X Customers, amount \in Amounts : Book!Payment(k, amount)
    BY <1>7
  <2>2. /\ paid' = [paid EXCEPT ![k] = [sum |-> paid[k].sum + amount,
                                        number |-> paid[k].number + 1]]
        /\ book' = book /\ delivered' = delivered
    BY <2>1 DEF Book!Payment
  <2>3. /\ DOMAIN paid' = DOMAIN paid /\ paid'[k].number = paid[k].number + 1
        /\ \A l \in DOMAIN paid : l # k => paid'[l] = paid[l]
    BY <1>4, <2>2
  <2>4. \A l \in Districts \X Customers : paid'[l].number \in Nat
    BY <1>4, <2>3
  <2>5. ~Untouched'
    <3>1. paid'[k].number # 0
      BY <1>4, <2>3
    <3>2. QED
      BY <3>1 DEF Untouched
  <2>6. QED
    BY <1>3, <1>4, <2>2, <2>3, <2>4, <2>5
<1>8. CASE \E S \in SUBSET Districts : S # {} /\ Book!Delivery(S)
  <2>1. PICK S \in SUBSET Districts : S # {} /\ Book!Delivery(S)
    BY <1>8
  <2>2. /\ \A d \in S : delivered[d] < Len(book[d])
        /\ delivered' = [d \in Districts |-> IF d \in S THEN delivered[d] + 1 ELSE delivered[d]]
        /\ book' = book /\ paid' = paid
    BY <2>1 DEF Book!Delivery
  <2>3. PICK d \in S : d \in Districts
    BY <2>1
  <2>4. ~Untouched'
    <3>1. delivered'[d] # Len(Loaded) - Undelivered[d]
      BY <1>3, <1>4, <2>2, <2>3
    <3>2. QED
      BY <2>3, <3>1 DEF Untouched
  <2>5. ASSUME NEW e \in Districts
        PROVE  /\ delivered'[e] \in (Len(Loaded) - Undelivered[e])..Len(book'[e])
               /\ delivered'[e] \in Nat
    <3>1. CASE e \in S
      <4>1. delivered'[e] = delivered[e] + 1 /\ delivered[e] < Len(book[e])
        BY <2>2, <3>1
      <4>2. QED
        BY <1>3, <1>4, <2>2, <4>1
    <3>2. CASE e \notin S
      BY <1>3, <2>2, <3>2
    <3>3. QED
      BY <3>1, <3>2
  <2>6. QED
    BY <1>3, <1>4, <2>2, <2>4, <2>5
<1>9. QED
  BY <1>5, <1>6, <1>7, <1>8

LEMMA OrdersAre ==
  /\ Len(CreateOrder) = 9 /\ \A j \in 1..9 : CreateOrder[j] \in Tables
  /\ \A t \in Tables : \E j \in 1..9 : CreateOrder[j] = t
  /\ Len(LoadOrder) = 9 /\ \A j \in 1..9 : LoadOrder[j] \in Tables
  /\ \A j, l \in 1..9 : j # l => LoadOrder[j] # LoadOrder[l]
  /\ \A t \in Tables : \E j \in 1..9 : LoadOrder[j] = t
  /\ Len(CheckOrder) = 9 /\ \A j \in 1..9 : CheckOrder[j] \in Tables
  /\ Len(StatsOrder) = 9
<1>1. Len(CreateOrder) = 9 /\ \A j \in 1..9 : CreateOrder[j] \in Tables
  BY DEF CreateOrder, Tables
<1>2. \A t \in Tables : \E j \in 1..9 : CreateOrder[j] = t
  BY DEF CreateOrder, Tables
<1>3. Len(LoadOrder) = 9 /\ \A j \in 1..9 : LoadOrder[j] \in Tables
  BY DEF LoadOrder, Tables
<1>4. \A t \in Tables : \E j \in 1..9 : LoadOrder[j] = t
  BY DEF LoadOrder, Tables
<1>5. \A j, l \in 1..9 : j # l => LoadOrder[j] # LoadOrder[l]
  BY DEF LoadOrder
<1>6. Len(CheckOrder) = 9 /\ \A j \in 1..9 : CheckOrder[j] \in Tables
  BY DEF CheckOrder, Tables
<1>7. Len(StatsOrder) = 9
  BY DEF StatsOrder
<1>8. QED
  BY <1>1, <1>2, <1>3, <1>4, <1>5, <1>6, <1>7

LEMMA DbStep == ASSUME DbIInv, PlaceIInv, [Next]_vars PROVE DbIInv'
<1>1. created \subseteq Tables /\ copies \in [Tables -> Nat]
      /\ \A t \in Tables : copies[t] > 0 => t \in created
  BY DEF DbIInv
<1>2. CASE CreateTable
  <2>1. /\ copies' = copies /\ UNCHANGED <<bookVars, txns>> /\ stage = "create"
        /\ created' = created \cup {CreateOrder[i]} \/ created' = created
    BY <1>2 DEF CreateTable, InStage
  <2>2. i \in 1..9
    BY <2>1 DEF PlaceIInv, Stands, Steps
  <2>3. created \subseteq created' /\ created' \subseteq Tables
    BY <1>1, <2>1, <2>2, OrdersAre
  <2>4. QED
    BY <1>1, <2>1, <2>3, DbLoads
<1>3. CASE Load
  <2> DEFINE t == LoadOrder[i]
  <2>1. /\ created' = created /\ UNCHANGED <<bookVars, txns>>
        /\ \/ copies' = [copies EXCEPT ![t] = IF t \in created THEN @ + 1 ELSE @]
           \/ copies' = copies
    BY <1>3 DEF Load, InStage
  <2>2. \A u \in Tables : copies'[u] \in Nat /\ copies'[u] >= copies[u]
                          /\ (copies'[u] > 0 => u \in created')
    BY <1>1, <2>1
  <2>3. copies' \in [Tables -> Nat]
    BY <1>1, <2>1, <2>2
  <2>4. QED
    BY <1>1, <2>1, <2>2, <2>3, DbLoads
<1>4. CASE Transacts
  BY <1>4, DbTransacts
<1>5. CASE UNCHANGED dbVars
  <2>1. created' = created /\ copies' = copies /\ UNCHANGED <<bookVars, txns>>
    BY <1>5 DEF dbVars
  <2>2. QED
    BY <1>1, <2>1, DbLoads
<1>6. CreateIndex \/ VerifyCounts => UNCHANGED dbVars
  BY DEF CreateIndex, VerifyCounts, InStage, dbVars
<1>7. CheckerNext => UNCHANGED dbVars
  BY DEF CheckerNext, CheckTableCounts, CheckDistricts, ShowStats, Reading
<1>8. Starts \/ Connects \/ Ping \/ BenchmarkEnds \/ Killed => UNCHANGED dbVars
  BY DEF Starts, Connects, Ping, BenchmarkEnds, Killed
<1>9. Stops \/ UNCHANGED vars => UNCHANGED dbVars
  BY DEF Stops, vars
<1>10. QED
  BY <1>2, <1>3, <1>4, <1>5, <1>6, <1>7, <1>8, <1>9 DEF Next, LoaderNext

---------------------------------------------------------------------------
(* A call. *)

LEMMA CallKeeps ==
  ASSUME PlaceIInv, BoundIInv, NEW own, NEW r, Asks(own, r) \/ Misses(r) \/ NoFile(r)
  PROVE  /\ link' \in {"up", "down"} /\ faults' \in 0..MaxFaults
         /\ IsSeq(late') /\ Len(late') <= faults'
         /\ lost' \in BOOLEAN /\ clean' \in BOOLEAN
         /\ clean' => clean /\ ~lost' /\ late' = <<>>
         /\ clean' /\ stage \notin {"off", "connect"} => link' = "up" /\ r = own
<1>1. /\ link \in {"up", "down"} /\ faults \in Nat /\ faults <= MaxFaults /\ MaxFaults \in Nat
      /\ IsSeq(late) /\ Len(late) <= faults
      /\ lost \in BOOLEAN /\ clean \in BOOLEAN
      /\ clean => ~lost /\ late = <<>>
      /\ clean /\ stage \notin {"off", "connect"} => link = "up"
  BY StageAssumption DEF PlaceIInv, Linked, BoundIInv
<1>2. \A any : /\ IsSeq(Append(late, any)) /\ Len(Append(late, any)) = Len(late) + 1
               /\ IsSeq(Tail(Append(late, any))) /\ Len(Tail(Append(late, any))) = Len(late)
               /\ Len(late) \in Nat
  BY <1>1, SeqOps
<1>3. ASSUME NEW any, late = <<>>, Receives(any, r)
      PROVE  r = any /\ late' = <<>>
  <2>1. Append(late, any) = <<any>>
    BY <1>3
  <2>2. Head(<<any>>) = any /\ Tail(<<any>>) = <<>>
    OBVIOUS
  <2>3. QED
    BY <1>3, <2>1, <2>2 DEF Receives
<1>4. ASSUME NEW any, Receives(any, r)
      PROVE  /\ IsSeq(late') /\ Len(late') = Len(late) /\ link' = link /\ lost' = lost
  BY <1>2, <1>4 DEF Receives
<1>5. Fault => faults' = faults + 1 /\ faults' \in 0..MaxFaults /\ ~clean' /\ clean' \in BOOLEAN
  <2>1. Fault => ~clean' /\ clean' \in BOOLEAN
    BY Zenon DEF Fault
  <2>2. Fault => faults' = faults + 1 /\ faults < MaxFaults
    BY DEF Fault
  <2>3. QED
    BY <1>1, <2>1, <2>2
<1>6. NoFault => faults' = faults /\ clean' = clean
  BY DEF NoFault
<1>7. Breaks => link' = "down" /\ IsSeq(late') /\ Len(late') = 0 /\ lost' = lost
  BY EmptySeq DEF Breaks
<1>8. CASE Asks(own, r)
  <2>1. CASE NoFault /\ Receives(own, r)
    BY <1>1, <1>3, <1>4, <1>6, <2>1
  <2>2. CASE Fault /\ late' = Append(late, own) /\ lost' = TRUE /\ UNCHANGED link
    <3>1. IsSeq(late') /\ Len(late') = Len(late) + 1 /\ Len(late) \in Nat
      BY <1>2, <2>2
    <3>2. lost' \in BOOLEAN /\ link' = link
      BY <2>2
    <3>3. QED
      BY <1>1, <1>5, <2>2, <3>1, <3>2
  <2>3. CASE Fault /\ Breaks
    BY <1>1, <1>5, <1>7, <2>3
  <2>4. QED
    BY <1>8, <2>1, <2>2, <2>3 DEF Asks
<1>9. CASE Misses(r)
  <2>1. CASE Fault /\ \E why \in {"abort", "error"} : Receives(Error(why), r)
    <3>1. IsSeq(late') /\ Len(late') = Len(late) /\ link' = link /\ lost' = lost
      BY <1>4, <2>1
    <3>2. Len(late) \in Nat
      BY <1>2
    <3>3. QED
      BY <1>1, <1>5, <2>1, <3>1, <3>2
  <2>2. CASE Fault /\ Breaks
    BY <1>1, <1>5, <1>7, <2>2
  <2>3. CASE link = "down" /\ NoFault /\ UNCHANGED <<link, late, lost>>
    BY <1>1, <1>6, <2>3
  <2>4. QED
    BY <1>9, <2>1, <2>2, <2>3 DEF Misses
<1>10. CASE NoFile(r)
  <2>1. Fault /\ link' = link /\ late' = late /\ lost' = lost
    BY <1>10 DEF NoFile
  <2>2. Len(late) \in Nat
    BY <1>2
  <2>3. QED
    BY <1>1, <1>5, <2>1, <2>2
<1>11. QED
  BY <1>8, <1>9, <1>10

\* While the answers of a run are its own.
LEMMA SureCall ==
  ASSUME LoadIInv, PlaceIInv, BoundIInv, stage \notin {"off", "connect"},
         NEW own, NEW r, Asks(own, r) \/ Misses(r) \/ NoFile(r),
         ~lost', legacy => clean'
  PROVE  ~lost /\ (legacy => clean) /\ (~Fails(r) => r = own)
<1>1. ~lost /\ (Exact /\ ~Fails(r) => r = own)
  BY CallIsExact
<1>2. clean' => clean /\ r = own
  BY CallKeeps
<1>3. QED
  BY <1>1, <1>2 DEF Exact

---------------------------------------------------------------------------
(* The way through the stages. *)

LEMMA FirstWork ==
  ASSUME NEW n \in 0..3
  PROVE  LET place == FirstOf(SubSeq(Work, n + 1, Len(Work)), "off")
         IN  /\ place \in {"create", "count", "stats", "benchmark", "off"}
             /\ place = "count" => "check" \in flags
             /\ place = "benchmark" => "benchmark" \in flags
             /\ n <= 1 /\ "check" \in flags => place \in {"create", "count"}
             /\ place = "create" => n = 0
             /\ place = "count" => n <= 1
<1> DEFINE stages == SubSeq(Work, n + 1, Len(Work))
           T == {k \in DOMAIN stages : stages[k][1] \in flags}
           place == FirstOf(stages, "off")
<1>1. /\ DOMAIN stages = 1..(4 - n)
      /\ \A k \in 1..(4 - n) : stages[k] = Work[n + k]
  BY WorkFrom
<1> HIDE DEF stages
<1>2. place = IF T # {} THEN stages[Min(T)][2] ELSE "off"
  BY DEF FirstOf
<1>3. T \subseteq 1..4 /\ T \subseteq 1..(4 - n)
  BY <1>1
<1>4. T # {} => Min(T) \in T /\ \A y \in T : Min(T) <= y
  <2> HIDE DEF T
  <2>1. QED
    BY <1>3, LeastOf
<1>5. \A k \in T : stages[k] = Work[n + k] /\ n + k \in 1..4 /\ Work[n + k][1] \in flags
  BY <1>1, <1>3
<1>6. /\ Work[1][1] = "init" /\ Work[1][2] = "create"
      /\ Work[2][1] = "check" /\ Work[2][2] = "count"
      /\ Work[3][1] = "stats" /\ Work[3][2] = "stats"
      /\ Work[4][1] = "benchmark" /\ Work[4][2] = "benchmark"
  BY WorkIs
<1>7. ASSUME T # {}
      PROVE  \E m \in 1..4 : m > n /\ m = n + Min(T) /\ place = Work[m][2] /\ Work[m][1] \in flags
  <2>1. Min(T) \in T /\ Min(T) \in 1..4
    BY <1>3, <1>4, <1>7
  <2>2. place = Work[n + Min(T)][2] /\ n + Min(T) \in 1..4 /\ Work[n + Min(T)][1] \in flags
    BY <1>2, <1>5, <1>7, <2>1
  <2>3. QED
    BY <2>1, <2>2
<1>8. ASSUME n <= 1, "check" \in flags
      PROVE  T # {} /\ Min(T) <= 2 - n
  <2>1. 2 - n \in 1..(4 - n) /\ n + (2 - n) = 2
    BY <1>8
  <2>2. stages[2 - n] = Work[2]
    BY <1>1, <2>1
  <2>3. 2 - n \in T
    BY <1>1, <1>6, <1>8, <2>1, <2>2
  <2>4. QED
    BY <1>4, <2>3
<1>9. CASE T = {}
  <2>1. place = "off"
    BY <1>2, <1>9
  <2>2. ~(n <= 1 /\ "check" \in flags)
    BY <1>8, <1>9
  <2> HIDE DEF place, T
  <2>3. QED
    BY <2>1, <2>2 DEF stages, place
<1>10. CASE T # {}
  <2>1. PICK m \in 1..4 : m > n /\ m = n + Min(T) /\ place = Work[m][2] /\ Work[m][1] \in flags
    BY <1>7, <1>10
  <2>2. n <= 1 /\ "check" \in flags => m <= 2
    <3>1. Min(T) \in 1..4
      BY <1>3, <1>4, <1>10
    <3>2. QED
      BY <1>8, <2>1, <3>1
  <2> HIDE DEF place, T
  <2>3. m = 1 \/ m = 2 \/ m = 3 \/ m = 4
    BY <2>1
  <2>4. /\ place \in {"create", "count", "stats", "benchmark", "off"}
        /\ place = "count" => "check" \in flags
        /\ place = "benchmark" => "benchmark" \in flags
        /\ n <= 1 /\ "check" \in flags => place \in {"create", "count"}
        /\ place = "create" => n = 0
        /\ place = "count" => n <= 1
    <3>1. CASE m = 1
      BY <1>6, <2>1, <3>1
    <3>2. CASE m = 2
      BY <1>6, <2>1, <3>2
    <3>3. CASE m = 3
      BY <1>6, <2>1, <2>2, <3>3
    <3>4. CASE m = 4
      BY <1>6, <2>1, <2>2, <3>4
    <3>5. QED
      BY <2>3, <3>1, <3>2, <3>3, <3>4
  <2>5. QED
    BY <2>4 DEF place, stages
<1>11. QED
  BY <1>9, <1>10

LEMMA Follower ==
  ASSUME NEW n \in 0..3, Follows(n), Stands, exit = "running"
  PROVE  /\ i' = 1 /\ seen' = <<>> /\ ok' = TRUE /\ Keeps
         /\ stage' \in {"create", "count", "stats", "benchmark", "off"}
         /\ exit' = IF stage' = "off" THEN "ok" ELSE "running"
         /\ stage' = "count" => "check" \in flags
         /\ stage' = "benchmark" => "benchmark" \in flags
         /\ n <= 1 /\ "check" \in flags => stage' \in {"create", "count"}
         /\ stage' = "create" => n = 0
         /\ stage' = "count" => n <= 1
<1> DEFINE place == FirstOf(SubSeq(Work, n + 1, Len(Work)), "off")
<1>1. /\ place \in {"create", "count", "stats", "benchmark", "off"}
      /\ place = "count" => "check" \in flags
      /\ place = "benchmark" => "benchmark" \in flags
      /\ n <= 1 /\ "check" \in flags => place \in {"create", "count"}
      /\ place = "create" => n = 0
      /\ place = "count" => n <= 1
  BY FirstWork
<1> HIDE DEF place
<1>2. IF place = "off" THEN Ends("ok") ELSE GoesTo(place)
  BY DEF Follows, place
<1>3. QED
  BY <1>1, <1>2 DEF Ends, GoesTo

\* A run goes on outside of a check.
LEMMA StandsOn ==
  ASSUME Stands, flags' = flags, ok' \in BOOLEAN, seen' = <<>>, alarms' = {},
         stage' \in {"off", "connect", "ping", "create", "index", "load", "verify", "count",
                     "stats", "benchmark"},
         exit' \in {"ok", "failed", "killed", "running"}, stage' = "off" <=> exit' # "running",
         i' \in Nat \ {0}, stage' \in DOMAIN Steps => i' <= Steps[stage'],
         stage' = "count" => "check" \in flags,
         stage' = "benchmark" => "benchmark" \in flags
  PROVE  Stands'
<1>1. Steps' = Steps /\ Questioned' = Questioned /\ Earlier' = Earlier
  BY DEF Steps, Questioned, Earlier
<1>2. stage' \notin DOMAIN Questioned
  BY DEF Questioned
<1>3. stage' \in {"off", "connect", "ping", "benchmark"} \cup DOMAIN Steps
  BY DEF Steps
<1>4. stage' \in Checks => stage' = "count"
  BY DEF Checks
<1>5. QED
  BY <1>1, <1>2, <1>3, <1>4, EmptySeq DEF Stands

LEMMA StepsAre ==
  /\ Steps["create"] = 9 /\ Steps["index"] = 8 /\ Steps["load"] = 9 /\ Steps["verify"] = 9
  /\ Steps["count"] = 9 /\ Steps["stats"] = 9
  /\ Steps["districts"] = Cardinality(Districts) /\ Steps["queue"] = Cardinality(Districts)
  /\ Steps["lines"] = Cardinality(Districts)
  /\ DOMAIN Steps = {"create", "index", "load", "verify", "count", "stats", "districts",
                     "queue", "lines"}
  /\ Questioned["districts"] = 3 /\ Questioned["queue"] = 3 /\ Questioned["lines"] = 2
  /\ DOMAIN Questioned = {"districts", "queue", "lines"}
  /\ Earlier["count"] = {} /\ Earlier["districts"] = {"count"}
  /\ Earlier["queue"] = {"count", "districts"}
  /\ Earlier["lines"] = {"count", "districts", "queue"}
BY DEF Steps, Questioned, Earlier

\* Outside of the checks there is no alarm while a run goes on.
LEMMA NoAlarms ==
  ASSUME Stands, exit = "running", stage \notin Checks \/ stage = "count"
  PROVE  alarms = {}
BY StepsAre DEF Stands

LEMMA CleanCall ==
  ASSUME PlaceIInv, BoundIInv, NEW own, NEW r, Asks(own, r) \/ Misses(r) \/ NoFile(r),
         clean', stage \notin {"off", "connect"}
  PROVE  clean /\ r = own /\ ~Misses(r) /\ ~NoFile(r)
<1>1. clean /\ r = own
  BY CallKeeps
<1>2. link # "down"
  BY <1>1 DEF PlaceIInv, Linked
<1>3. ~Fault
  BY Zenon DEF Fault
<1>4. QED
  BY <1>1, <1>2, <1>3 DEF Misses, NoFile

\* The ways on from a statement that is one of several.
LEMMA Onward ==
  ASSUME Stands, stage \in DOMAIN Steps, NEW place, Continues(Steps[stage], GoesTo(place)),
         place # "off", exit = "running"
  PROVE  /\ exit' = "running" /\ Keeps
         /\ \/ /\ i < Steps[stage] /\ i' = i + 1 /\ stage' = stage
               /\ seen' = seen /\ ok' = ok
            \/ i = Steps[stage] /\ i' = 1 /\ stage' = place /\ seen' = <<>> /\ ok' = TRUE
<1>1. Steps[stage] \in Nat
  BY StepsAre, Constants
<1>2. i \in Nat /\ i <= Steps[stage]
  BY DEF Stands
<1>3. CASE i < Steps[stage]
  BY <1>3 DEF Continues, Stays
<1>4. CASE ~(i < Steps[stage])
  <2>1. i = Steps[stage]
    BY <1>1, <1>2, <1>4
  <2>2. GoesTo(place)
    BY <1>4 DEF Continues
  <2>3. QED
    BY <2>1, <2>2 DEF GoesTo
<1>5. QED
  BY <1>3, <1>4

\* What the steps of an init do with the place of the run.
LEMMA CreateMoves ==
  ASSUME Stands, CreateTable
  PROVE  /\ stage = "create" /\ exit = "running" /\ alarms' = alarms /\ Keeps
         /\ \/ Ends("failed")
            \/ i < 9 /\ i' = i + 1 /\ stage' = "create"
               /\ seen' = seen /\ ok' = ok /\ exit' = "running"
            \/ i = 9 /\ GoesTo("index") /\ exit' = "running"
<1>1. stage = "create" /\ alarms' = alarms /\ \E r : AfterCreate(r)
  BY DEF CreateTable, InStage
<1>2. exit = "running"
  BY <1>1 DEF Stands
<1>3. Ends("failed") \/ Continues(Steps[stage], GoesTo("index"))
  BY <1>1, OrdersAre, StepsAre DEF AfterCreate
<1>4. stage \in DOMAIN Steps /\ Steps[stage] = 9
  BY <1>1, StepsAre
<1>5. Continues(Steps[stage], GoesTo("index"))
        => /\ exit' = "running" /\ Keeps
           /\ \/ /\ i < 9 /\ i' = i + 1 /\ stage' = "create"
                 /\ seen' = seen /\ ok' = ok
              \/ i = 9 /\ i' = 1 /\ stage' = "index" /\ seen' = <<>> /\ ok' = TRUE
  BY <1>1, <1>2, <1>4, Onward
<1>6. Ends("failed") => Keeps
  BY DEF Ends
<1>7. QED
  BY <1>1, <1>2, <1>3, <1>5, <1>6 DEF GoesTo

LEMMA IndexMoves ==
  ASSUME Stands, CreateIndex
  PROVE  /\ stage = "index" /\ exit = "running" /\ alarms' = alarms /\ Keeps
         /\ created' = created /\ copies' = copies
         /\ \/ Ends("failed") /\ \E r : NoFile(r)
            \/ i < 8 /\ i' = i + 1 /\ stage' = "index"
               /\ seen' = seen /\ ok' = ok /\ exit' = "running"
            \/ i = 8 /\ GoesTo("load") /\ exit' = "running"
<1>1. /\ stage = "index" /\ alarms' = alarms /\ created' = created /\ copies' = copies
      /\ \/ \E r : AfterIndex(r)
         \/ Ends("failed") /\ \E r : NoFile(r)
  BY DEF CreateIndex, InStage
<1>2. exit = "running"
  BY <1>1 DEF Stands
<1>3. \/ Ends("failed") /\ \E r : NoFile(r)
      \/ Continues(Steps[stage], GoesTo("load"))
  BY <1>1, StepsAre DEF AfterIndex, NumIndexes
<1>4. stage \in DOMAIN Steps /\ Steps[stage] = 8
  BY <1>1, StepsAre
<1>5. Continues(Steps[stage], GoesTo("load"))
        => /\ exit' = "running" /\ Keeps
           /\ \/ /\ i < 8 /\ i' = i + 1 /\ stage' = "index"
                 /\ seen' = seen /\ ok' = ok
              \/ i = 8 /\ i' = 1 /\ stage' = "load" /\ seen' = <<>> /\ ok' = TRUE
  BY <1>1, <1>2, <1>4, Onward
<1>6. Ends("failed") => Keeps
  BY DEF Ends
<1>7. QED
  BY <1>1, <1>2, <1>3, <1>5, <1>6 DEF GoesTo

LEMMA LoadMoves ==
  ASSUME Stands, Load
  PROVE  /\ stage = "load" /\ exit = "running" /\ alarms' = alarms /\ Keeps
         /\ created' = created
         /\ \/ Ends("failed")
            \/ i < 9 /\ i' = i + 1 /\ stage' = "load"
               /\ seen' = seen /\ ok' = ok /\ exit' = "running"
            \/ i = 9 /\ GoesTo("verify") /\ exit' = "running"
<1>1. /\ stage = "load" /\ alarms' = alarms /\ created' = created
      /\ \E r : AfterLoad(r)
  BY DEF Load, InStage
<1>2. exit = "running"
  BY <1>1 DEF Stands
<1>3. Ends("failed") \/ Continues(Steps[stage], GoesTo("verify"))
  BY <1>1, OrdersAre, StepsAre DEF AfterLoad
<1>4. stage \in DOMAIN Steps /\ Steps[stage] = 9
  BY <1>1, StepsAre
<1>5. Continues(Steps[stage], GoesTo("verify"))
        => /\ exit' = "running" /\ Keeps
           /\ \/ /\ i < 9 /\ i' = i + 1 /\ stage' = "load"
                 /\ seen' = seen /\ ok' = ok
              \/ i = 9 /\ i' = 1 /\ stage' = "verify" /\ seen' = <<>> /\ ok' = TRUE
  BY <1>1, <1>2, <1>4, Onward
<1>6. Ends("failed") => Keeps
  BY DEF Ends
<1>7. QED
  BY <1>1, <1>2, <1>3, <1>5, <1>6 DEF GoesTo

LEMMA VerifyMoves ==
  ASSUME Stands, VerifyCounts
  PROVE  /\ stage = "verify" /\ exit = "running" /\ alarms' = alarms /\ Keeps
         /\ UNCHANGED dbVars
         /\ \/ i < 9 /\ i' = i + 1 /\ stage' = "verify"
               /\ seen' = seen /\ ok' = ok /\ exit' = "running"
            \/ Follows(1)
<1>1. /\ stage = "verify" /\ alarms' = alarms /\ UNCHANGED dbVars
      /\ \E r : AfterVerify(r)
  BY DEF VerifyCounts, InStage, dbVars
<1>2. exit = "running"
  BY <1>1 DEF Stands
<1>3. IF i < 9 THEN Stays(i + 1) ELSE Follows(1)
  BY <1>1, OrdersAre DEF AfterVerify, Continues
<1>4. Follows(1) => Keeps
  BY <1>2, Follower
<1>5. QED
  BY <1>1, <1>2, <1>3, <1>4 DEF Stays

LEMMA StatsMoves ==
  ASSUME Stands, ShowStats
  PROVE  /\ stage = "stats" /\ exit = "running" /\ alarms' = alarms /\ Keeps
         /\ UNCHANGED dbVars
         /\ \/ i < 9 /\ i' = i + 1 /\ stage' = "stats"
               /\ seen' = seen /\ ok' = ok /\ exit' = "running"
            \/ Follows(3)
<1>1. /\ stage = "stats" /\ alarms' = alarms /\ UNCHANGED dbVars
      /\ \E r : AfterStats(r)
  BY DEF ShowStats, Reading
<1>2. exit = "running"
  BY <1>1 DEF Stands
<1>3. IF i < 9 THEN Stays(i + 1) ELSE Follows(3)
  BY <1>1, OrdersAre DEF AfterStats, Continues
<1>4. Follows(3) => Keeps
  BY <1>2, Follower
<1>5. QED
  BY <1>1, <1>2, <1>3, <1>4 DEF Stays

LEMMA PingMoves ==
  ASSUME Stands, Ping
  PROVE  /\ stage = "ping" /\ exit = "running" /\ alarms' = alarms /\ Keeps
         /\ UNCHANGED dbVars
         /\ \/ i' = 2 /\ stage' = "ping" /\ seen' = seen /\ ok' = ok /\ exit' = "running"
            \/ Follows(0)
<1>1. /\ stage = "ping" /\ alarms' = alarms /\ UNCHANGED dbVars
      /\ \E r : AfterPing(r)
  BY DEF Ping
<1>2. exit = "running"
  BY <1>1 DEF Stands
<1>3. Stays(2) \/ Follows(0)
  BY <1>1 DEF AfterPing
<1>4. Follows(0) => Keeps
  BY <1>2, Follower
<1>5. QED
  BY <1>1, <1>2, <1>3, <1>4 DEF Stays

LEMMA CountMoves ==
  ASSUME Stands, CheckTableCounts
  PROVE  /\ stage = "count" /\ exit = "running" /\ exit' = "running" /\ Keeps /\ UNCHANGED dbVars
         /\ \E r : /\ LET own == OwnCount(CheckOrder[i]) IN Asks(own, r) \/ Misses(r)
                   /\ LET good == ok /\ CountOk(r)
                      IN  IF i < 9
                          THEN Goes(i + 1, good, <<>>)
                          ELSE i = 9 /\ Closes(good) /\ GoesTo("districts")
<1>1. /\ stage = "count" /\ UNCHANGED dbVars
      /\ \E r : /\ LET own == OwnCount(CheckOrder[i]) IN Asks(own, r) \/ Misses(r)
                /\ AfterCount(r)
  BY DEF CheckTableCounts, Reading, OwnCount
<1>2. exit = "running"
  BY <1>1 DEF Stands
<1>3. i \in Nat /\ i <= 9 /\ Len(CheckOrder) = 9
  BY <1>1, StepsAre, OrdersAre DEF Stands
<1>4. PICK r : /\ LET own == OwnCount(CheckOrder[i]) IN Asks(own, r) \/ Misses(r)
               /\ AfterCount(r)
  BY <1>1
<1>5. LET good == ok /\ CountOk(r)
      IN  IF i < 9
          THEN Goes(i + 1, good, <<>>)
          ELSE i = 9 /\ Closes(good) /\ GoesTo("districts")
  BY <1>3, <1>4 DEF AfterCount
<1>6. exit' = exit /\ Keeps
  BY <1>5 DEF Goes, GoesTo
<1>7. QED
  BY <1>1, <1>2, <1>4, <1>5, <1>6

\* The question a check asks next.
Asked == Questions(i)[stage][Len(seen) + 1]

LEMMA DistrictMoves ==
  ASSUME Stands, CheckDistricts
  PROVE  /\ stage \in {"districts", "queue", "lines"} /\ exit = "running" /\ UNCHANGED dbVars
         /\ i \in Districts
         /\ \E r : /\ Asks(Asked, r) \/ Misses(r)
                   /\ \/ ~HasRow(r) /\ Judges(FALSE)
                      \/ /\ HasRow(r) /\ Len(seen) + 1 = Questioned[stage]
                         /\ Judges(Consistent(Append(seen, r.n)))
                      \/ /\ HasRow(r) /\ Len(seen) + 1 < Questioned[stage]
                         /\ Goes(i, ok, Append(seen, r.n))
<1>1. /\ stage \in {"districts", "queue", "lines"} /\ UNCHANGED dbVars
      /\ \E r : (Asks(Asked, r) \/ Misses(r)) /\ AfterQuestion(r)
  BY DEF CheckDistricts, Asked
<1>2. exit = "running"
  BY <1>1 DEF Stands
<1>3. i \in Districts
  <2>1. i \in Nat \ {0} /\ i <= Cardinality(Districts)
    BY <1>1, StepsAre DEF Stands
  <2>2. QED
    BY <2>1, Constants
<1>4. PICK r : (Asks(Asked, r) \/ Misses(r)) /\ AfterQuestion(r)
  BY <1>1
<1>5. /\ Len(Append(seen, r.n)) = Len(seen) + 1 /\ Len(seen) \in Nat
      /\ Len(Questions(i)[stage]) = Questioned[stage]
      /\ Len(seen) < Questioned[stage] /\ Questioned[stage] \in Nat
  <2>1. IsSeq(seen) /\ Len(seen) < Questioned[stage]
    BY <1>1, StepsAre DEF Stands
  <2>2. Questioned[stage] \in Nat /\ stage \in DOMAIN Questioned
    BY <1>1, StepsAre
  <2>3. Len(Append(seen, r.n)) = Len(seen) + 1 /\ Len(seen) \in Nat
    BY <2>1, SeqOps
  <2>4. Len(Questions(i)[stage]) = Questioned[stage]
    BY <2>2, QuestionsAre
  <2>5. QED
    BY <2>1, <2>2, <2>3, <2>4
<1>6. IF ~HasRow(r) THEN Judges(FALSE)
      ELSE IF Len(Append(seen, r.n)) = Len(Questions(i)[stage])
           THEN Judges(Consistent(Append(seen, r.n)))
           ELSE Goes(i, ok, Append(seen, r.n))
  BY <1>4 DEF AfterQuestion
<1>7. Len(Append(seen, r.n)) = Len(Questions(i)[stage]) <=> Len(seen) + 1 = Questioned[stage]
  BY <1>5
<1>8. Len(seen) + 1 # Questioned[stage] => Len(seen) + 1 < Questioned[stage]
  BY <1>5
<1>9. \/ ~HasRow(r) /\ Judges(FALSE)
      \/ /\ HasRow(r) /\ Len(seen) + 1 = Questioned[stage]
         /\ Judges(Consistent(Append(seen, r.n)))
      \/ /\ HasRow(r) /\ Len(seen) + 1 < Questioned[stage]
         /\ Goes(i, ok, Append(seen, r.n))
  BY <1>6, <1>7, <1>8
<1>10. QED
  BY <1>1, <1>2, <1>3, <1>4, <1>9

\* A judgement of a district: the next one, the next check, or what follows
\* the checks.
LEMMA JudgeMoves ==
  ASSUME Stands, stage \in {"districts", "queue", "lines"}, NEW good, Judges(good)
  PROVE  \/ i < Steps[stage] /\ Goes(i + 1, ok /\ good, <<>>)
         \/ i = Steps[stage] /\ Closes(ok /\ good) /\ stage = "districts" /\ GoesTo("queue")
         \/ i = Steps[stage] /\ Closes(ok /\ good) /\ stage = "queue" /\ GoesTo("lines")
         \/ /\ i = Steps[stage] /\ Closes(ok /\ good) /\ stage = "lines"
            /\ \/ alarms' = {} /\ Follows(2)
               \/ alarms' # {} /\ Ends("failed")
<1>1. Steps[stage] = Cardinality(Districts) /\ i \in Nat /\ i <= Steps[stage]
      /\ Cardinality(Districts) \in Nat
  BY StepsAre, Constants DEF Stands
<1>2. AfterCheck => \/ stage = "districts" /\ GoesTo("queue")
                    \/ stage = "queue" /\ GoesTo("lines")
                    \/ stage = "lines" /\ AfterChecks
  BY DEF AfterCheck
<1>3. AfterChecks => \/ alarms' = {} /\ Follows(2)
                     \/ alarms' # {} /\ Ends("failed")
  BY DEF AfterChecks
<1>4. CASE i < Cardinality(Districts)
  BY <1>1, <1>4 DEF Judges
<1>5. CASE ~(i < Cardinality(Districts))
  <2>1. i = Steps[stage]
    BY <1>1, <1>5
  <2>2. Closes(ok /\ good) /\ AfterCheck
    BY <1>5 DEF Judges
  <2>3. QED
    BY <1>2, <1>3, <2>1, <2>2
<1>6. QED
  BY <1>4, <1>5

---------------------------------------------------------------------------
(* Where a run is. *)

LEMMA StandsFollows ==
  ASSUME Stands, exit = "running", alarms' = {}, NEW n \in 0..3, Follows(n)
  PROVE  Stands'
<1>1. /\ i' = 1 /\ seen' = <<>> /\ ok' = TRUE /\ Keeps
      /\ stage' \in {"create", "count", "stats", "benchmark", "off"}
      /\ exit' = IF stage' = "off" THEN "ok" ELSE "running"
      /\ stage' = "count" => "check" \in flags
      /\ stage' = "benchmark" => "benchmark" \in flags
  BY Follower
<1>2. flags' = flags /\ ok' \in BOOLEAN /\ i' \in Nat \ {0}
  BY <1>1 DEF Keeps
<1>3. exit' \in {"ok", "failed", "killed", "running"} /\ (stage' = "off" <=> exit' # "running")
  BY <1>1
<1>4. stage' \in DOMAIN Steps => i' <= Steps[stage']
  BY <1>1, StepsAre
<1>5. QED
  BY <1>1, <1>2, <1>3, <1>4, StandsOn

LEMMA StandsEnds ==
  ASSUME Stands, exit = "running", alarms' \subseteq Checks, NEW how \in {"ok", "failed", "killed"},
         Ends(how), how = "ok" => alarms' = {}
  PROVE  Stands'
<1>1. /\ i' = 1 /\ seen' = <<>> /\ ok' = TRUE /\ flags' = flags /\ stage' = "off" /\ exit' = how
  BY DEF Ends, Keeps
<1>2. "off" \notin DOMAIN Steps /\ "off" \notin DOMAIN Questioned /\ "off" \notin Checks
  BY StepsAre DEF Checks
<1>3. alarms' # {} => exit' \in {"failed", "killed"}
  BY <1>1
<1>4. IsSeq(seen')
  BY <1>1, EmptySeq
<1>5. /\ ok' \in BOOLEAN /\ i' \in Nat \ {0}
      /\ exit' \in {"ok", "failed", "killed", "running"} /\ exit' # "running"
  BY <1>1
<1>6. Steps' = Steps /\ Questioned' = Questioned /\ Earlier' = Earlier
  BY DEF Steps, Questioned, Earlier
<1>7. QED
  BY <1>1, <1>2, <1>3, <1>4, <1>5, <1>6 DEF Stands

\* A step of an init or of the stats.
LEMMA StandsNext ==
  ASSUME Stands, exit = "running", alarms' = alarms, Keeps, exit' = "running",
         stage \in {"create", "index", "load", "verify", "stats"},
         i < Steps[stage], i' = i + 1, stage' = stage, seen' = seen, ok' = ok
  PROVE  Stands'
<1>1. stage \notin Checks /\ stage \notin DOMAIN Questioned
  BY StepsAre DEF Checks
<1>2. alarms' = {}
  BY <1>1, NoAlarms
<1>3. seen' = <<>> /\ ok' \in BOOLEAN
  BY <1>1 DEF Stands
<1>4. i' \in Nat \ {0} /\ i' <= Steps[stage]
  <2>1. i \in Nat /\ Steps[stage] \in Nat
    BY StepsAre, Constants DEF Stands
  <2>2. QED
    BY <2>1
<1>5. flags' = flags
  BY DEF Keeps
<1>6. QED
  BY <1>2, <1>3, <1>4, <1>5, StandsOn

LEMMA StandsGoes ==
  ASSUME Stands, exit = "running", alarms' = {}, exit' = "running",
         NEW place \in {"ping", "index", "load", "verify"}, GoesTo(place)
  PROVE  Stands'
<1>1. /\ i' = 1 /\ seen' = <<>> /\ ok' = TRUE /\ flags' = flags /\ stage' = place
  BY DEF GoesTo, Keeps
<1>2. i' \in Nat \ {0} /\ ok' \in BOOLEAN
  BY <1>1
<1>3. stage' \in DOMAIN Steps => i' <= Steps[stage']
  BY <1>1, StepsAre
<1>4. QED
  BY <1>1, <1>2, <1>3, StandsOn

\* From a check to the next one.
LEMMA StandsClosed ==
  ASSUME Stands, stage \in Checks, NEW good, Closes(good), exit' = "running", Keeps,
         i' = 1, seen' = <<>>, ok' = TRUE,
         \/ stage = "count" /\ stage' = "districts"
         \/ stage = "districts" /\ stage' = "queue"
         \/ stage = "queue" /\ stage' = "lines"
  PROVE  Stands'
<1>1. Steps' = Steps /\ Questioned' = Questioned /\ Earlier' = Earlier /\ flags' = flags
  BY DEF Steps, Questioned, Earlier, Keeps
<1>2. /\ stage' \in Checks /\ stage' \in DOMAIN Steps /\ stage' \in DOMAIN Questioned
      /\ stage' # "off" /\ stage' # "benchmark" /\ 1 <= Steps[stage'] /\ 0 < Questioned[stage']
  BY StepsAre, Constants DEF Checks
<1>3. alarms' \subseteq alarms \cup {stage} /\ alarms \subseteq Earlier[stage]
  BY DEF Closes, Stands
<1>4. alarms' \subseteq Earlier[stage']
  BY <1>3, StepsAre
<1>5. "check" \in flags /\ ok' \in BOOLEAN
  BY DEF Stands
<1>6. QED
  BY <1>1, <1>2, <1>4, <1>5, EmptySeq DEF Stands

LEMMA StandsJudged ==
  ASSUME Stands, stage \in Checks, i < Steps[stage], NEW good, Goes(i + 1, good, <<>>),
         good \in BOOLEAN
  PROVE  Stands'
<1>1. Steps' = Steps /\ Questioned' = Questioned /\ Earlier' = Earlier
  BY DEF Steps, Questioned, Earlier
<1>2. /\ i' = i + 1 /\ seen' = <<>> /\ ok' = good /\ stage' = stage /\ exit' = exit
      /\ alarms' = alarms /\ flags' = flags
  BY DEF Goes, Keeps
<1>3. i' \in Nat \ {0} /\ i' <= Steps[stage]
  <2>1. i \in Nat /\ Steps[stage] \in Nat
    BY StepsAre, Constants DEF Stands, Checks
  <2>2. QED
    BY <1>2, <2>1
<1>4. IsSeq(seen') /\ Len(seen') = 0
  BY <1>2, EmptySeq
<1>5. stage \in DOMAIN Questioned => Len(seen') < Questioned[stage]
  BY <1>4, StepsAre
<1>6. QED
  BY <1>1, <1>2, <1>3, <1>4, <1>5 DEF Stands

LEMMA StandsStep ==
  ASSUME Stands, Linked, [Next]_vars
  PROVE  Stands'
<1>1. CASE CreateTable
  <2>1. /\ stage = "create" /\ exit = "running" /\ alarms' = alarms /\ Keeps
        /\ \/ Ends("failed")
           \/ i < 9 /\ i' = i + 1 /\ stage' = "create"
              /\ seen' = seen /\ ok' = ok /\ exit' = "running"
           \/ i = 9 /\ GoesTo("index") /\ exit' = "running"
    BY <1>1, CreateMoves
  <2>2. alarms = {}
    BY <2>1, NoAlarms DEF Checks
  <2>3. Ends("failed") => Stands'
    BY <2>1, <2>2, StandsEnds
  <2>4. GoesTo("index") /\ exit' = "running" => Stands'
    BY <2>1, <2>2, StandsGoes
  <2>5. QED
    BY <2>1, <2>3, <2>4, StepsAre, StandsNext
<1>2. CASE CreateIndex
  <2>1. /\ stage = "index" /\ exit = "running" /\ alarms' = alarms /\ Keeps
        /\ \/ Ends("failed")
           \/ i < 8 /\ i' = i + 1 /\ stage' = "index"
              /\ seen' = seen /\ ok' = ok /\ exit' = "running"
           \/ i = 8 /\ GoesTo("load") /\ exit' = "running"
    BY <1>2, IndexMoves
  <2>2. alarms = {}
    BY <2>1, NoAlarms DEF Checks
  <2>3. Ends("failed") => Stands'
    BY <2>1, <2>2, StandsEnds
  <2>4. GoesTo("load") /\ exit' = "running" => Stands'
    BY <2>1, <2>2, StandsGoes
  <2>5. QED
    BY <2>1, <2>3, <2>4, StepsAre, StandsNext
<1>3. CASE Load
  <2>1. /\ stage = "load" /\ exit = "running" /\ alarms' = alarms /\ Keeps
        /\ \/ Ends("failed")
           \/ i < 9 /\ i' = i + 1 /\ stage' = "load"
              /\ seen' = seen /\ ok' = ok /\ exit' = "running"
           \/ i = 9 /\ GoesTo("verify") /\ exit' = "running"
    BY <1>3, LoadMoves
  <2>2. alarms = {}
    BY <2>1, NoAlarms DEF Checks
  <2>3. Ends("failed") => Stands'
    BY <2>1, <2>2, StandsEnds
  <2>4. GoesTo("verify") /\ exit' = "running" => Stands'
    BY <2>1, <2>2, StandsGoes
  <2>5. QED
    BY <2>1, <2>3, <2>4, StepsAre, StandsNext
<1>4. CASE VerifyCounts
  <2>1. /\ stage = "verify" /\ exit = "running" /\ alarms' = alarms /\ Keeps
        /\ \/ i < 9 /\ i' = i + 1 /\ stage' = "verify"
              /\ seen' = seen /\ ok' = ok /\ exit' = "running"
           \/ Follows(1)
    BY <1>4, VerifyMoves
  <2>2. alarms = {}
    BY <2>1, NoAlarms DEF Checks
  <2>3. Follows(1) => Stands'
    BY <2>1, <2>2, StandsFollows
  <2>4. QED
    BY <2>1, <2>3, StepsAre, StandsNext
<1>5. CASE ShowStats
  <2>1. /\ stage = "stats" /\ exit = "running" /\ alarms' = alarms /\ Keeps
        /\ \/ i < 9 /\ i' = i + 1 /\ stage' = "stats"
              /\ seen' = seen /\ ok' = ok /\ exit' = "running"
           \/ Follows(3)
    BY <1>5, StatsMoves
  <2>2. alarms = {}
    BY <2>1, NoAlarms DEF Checks
  <2>3. Follows(3) => Stands'
    BY <2>1, <2>2, StandsFollows
  <2>4. QED
    BY <2>1, <2>3, StepsAre, StandsNext
<1>6. CASE Ping
  <2>1. /\ stage = "ping" /\ exit = "running" /\ alarms' = alarms /\ Keeps
        /\ \/ i' = 2 /\ stage' = "ping" /\ seen' = seen /\ ok' = ok /\ exit' = "running"
           \/ Follows(0)
    BY <1>6, PingMoves
  <2>2. alarms = {}
    BY <2>1, NoAlarms DEF Checks
  <2>3. Follows(0) => Stands'
    BY <2>1, <2>2, StandsFollows
  <2>4. CASE i' = 2 /\ stage' = "ping" /\ seen' = seen /\ ok' = ok /\ exit' = "running"
    <3>1. seen = <<>> /\ ok \in BOOLEAN
      BY <2>1, StepsAre DEF Stands
    <3>2. flags' = flags
      BY <2>1 DEF Keeps
    <3>3. QED
      BY <2>1, <2>2, <2>4, <3>1, <3>2, StepsAre, StandsOn
  <2>5. QED
    BY <2>1, <2>3, <2>4
<1>7. CASE CheckTableCounts
  <2>1. stage = "count" /\ exit = "running" /\ exit' = "running" /\ Keeps
    BY <1>7, CountMoves
  <2>2. PICK r : LET good == ok /\ CountOk(r)
                 IN  IF i < 9
                     THEN Goes(i + 1, good, <<>>)
                     ELSE i = 9 /\ Closes(good) /\ GoesTo("districts")
    BY <1>7, CountMoves
  <2> DEFINE good == ok /\ CountOk(r)
  <2>3. good \in BOOLEAN
    OBVIOUS
  <2> HIDE DEF good
  <2>4. IF i < 9 THEN Goes(i + 1, good, <<>>) ELSE Closes(good) /\ GoesTo("districts")
    BY <2>2 DEF good
  <2>5. stage \in Checks /\ Steps[stage] = 9
    BY <2>1, StepsAre DEF Checks
  <2>6. CASE i < 9
    BY <2>3, <2>4, <2>5, <2>6, StandsJudged
  <2>7. CASE ~(i < 9)
    <3>1. Closes(good) /\ i' = 1 /\ seen' = <<>> /\ ok' = TRUE /\ stage' = "districts"
      BY <2>4, <2>7 DEF GoesTo
    <3>2. QED
      BY <2>1, <2>5, <3>1, StandsClosed
  <2>8. QED
    BY <2>6, <2>7
<1>8. CASE CheckDistricts
  <2>1. stage \in {"districts", "queue", "lines"} /\ exit = "running"
    BY <1>8, DistrictMoves
  <2>2. stage \in Checks
    BY <2>1 DEF Checks
  <2>3. ASSUME NEW good \in BOOLEAN, Judges(good)
        PROVE  Stands'
    <3>1. \/ i < Steps[stage] /\ Goes(i + 1, ok /\ good, <<>>)
          \/ i = Steps[stage] /\ Closes(ok /\ good) /\ stage = "districts" /\ GoesTo("queue")
          \/ i = Steps[stage] /\ Closes(ok /\ good) /\ stage = "queue" /\ GoesTo("lines")
          \/ /\ i = Steps[stage] /\ Closes(ok /\ good) /\ stage = "lines"
             /\ \/ alarms' = {} /\ Follows(2)
                \/ alarms' # {} /\ Ends("failed")
      BY <2>1, <2>3, JudgeMoves
    <3> DEFINE all == ok /\ good
    <3>2. all \in BOOLEAN
      OBVIOUS
    <3> HIDE DEF all
    <3>3. CASE i < Steps[stage] /\ Goes(i + 1, all, <<>>)
      BY <2>2, <3>2, <3>3, StandsJudged
    <3>4. CASE Closes(all) /\ stage = "districts" /\ GoesTo("queue")
      <4>1. i' = 1 /\ seen' = <<>> /\ ok' = TRUE /\ stage' = "queue" /\ exit' = "running" /\ Keeps
        BY <2>1, <3>4 DEF GoesTo
      <4>2. QED
        BY <2>2, <3>4, <4>1, StandsClosed
    <3>5. CASE Closes(all) /\ stage = "queue" /\ GoesTo("lines")
      <4>1. i' = 1 /\ seen' = <<>> /\ ok' = TRUE /\ stage' = "lines" /\ exit' = "running" /\ Keeps
        BY <2>1, <3>5 DEF GoesTo
      <4>2. QED
        BY <2>2, <3>5, <4>1, StandsClosed
    <3>6. CASE Closes(all) /\ stage = "lines" /\ alarms' = {} /\ Follows(2)
      BY <2>1, <3>6, StandsFollows
    <3>7. CASE Closes(all) /\ stage = "lines" /\ Ends("failed")
      <4>1. alarms' \subseteq alarms \cup {"lines"} /\ alarms \subseteq Earlier["lines"]
        BY <2>2, <3>7 DEF Closes, Stands
      <4>2. alarms' \subseteq Checks
        BY <4>1, StepsAre DEF Checks
      <4>3. QED
        BY <2>1, <3>7, <4>2, StandsEnds
    <3>8. QED
      BY <3>1, <3>3, <3>4, <3>5, <3>6, <3>7 DEF all
  <2>4. PICK r : \/ ~HasRow(r) /\ Judges(FALSE)
                 \/ /\ HasRow(r) /\ Len(seen) + 1 = Questioned[stage]
                    /\ Judges(Consistent(Append(seen, r.n)))
                 \/ /\ HasRow(r) /\ Len(seen) + 1 < Questioned[stage]
                    /\ Goes(i, ok, Append(seen, r.n))
    BY <1>8, DistrictMoves
  <2>5. Consistent(Append(seen, r.n)) \in BOOLEAN
    BY <2>1 DEF Consistent
  <2>6. CASE HasRow(r) /\ Len(seen) + 1 < Questioned[stage] /\ Goes(i, ok, Append(seen, r.n))
    <3>1. /\ i' = i /\ seen' = Append(seen, r.n) /\ ok' = ok /\ stage' = stage /\ exit' = exit
          /\ alarms' = alarms /\ flags' = flags
      BY <2>6 DEF Goes, Keeps
    <3>2. IsSeq(seen)
      BY DEF Stands
    <3>3. IsSeq(seen') /\ Len(seen') < Questioned[stage] /\ stage \in DOMAIN Questioned
      BY <2>1, <2>6, <3>1, <3>2, SeqOps, StepsAre
    <3>4. Steps' = Steps /\ Questioned' = Questioned /\ Earlier' = Earlier
      BY DEF Steps, Questioned, Earlier
    <3>5. QED
      BY <3>1, <3>3, <3>4 DEF Stands
  <2>7. QED
    BY <2>3, <2>4, <2>5, <2>6
<1>9. CASE Starts
  <2>1. /\ stage' = "connect" /\ exit' = "running" /\ alarms' = {} /\ i' = i /\ seen' = seen
        /\ ok' = ok /\ stage = "off"
    BY <1>9 DEF Starts
  <2>2. "connect" \notin DOMAIN Steps \cup DOMAIN Questioned \cup Checks
        /\ "off" \notin DOMAIN Questioned
    BY StepsAre DEF Checks
  <2>3. seen = <<>> /\ ok \in BOOLEAN /\ i \in Nat \ {0}
    BY <2>1, <2>2 DEF Stands
  <2>4. Steps' = Steps /\ Questioned' = Questioned /\ Earlier' = Earlier
    BY DEF Steps, Questioned, Earlier
  <2>5. QED
    BY <2>1, <2>2, <2>3, <2>4, EmptySeq DEF Stands
<1>10. CASE Connects
  <2>1. stage = "connect" /\ alarms' = alarms /\ (GoesTo("ping") \/ Ends("failed"))
    BY <1>10 DEF Connects
  <2>2. exit = "running"
    BY <2>1 DEF Stands
  <2>3. alarms = {}
    BY <2>1, <2>2, NoAlarms DEF Checks
  <2>4. Ends("failed") => Stands'
    BY <2>1, <2>2, <2>3, StandsEnds
  <2>5. GoesTo("ping") => Stands'
    <3>1. GoesTo("ping") => exit' = "running"
      BY <2>2 DEF GoesTo
    <3>2. QED
      BY <2>1, <2>2, <2>3, <3>1, StandsGoes
  <2>6. QED
    BY <2>1, <2>4, <2>5
<1>11. CASE BenchmarkEnds
  <2>1. stage = "benchmark" /\ alarms' = alarms /\ Ends("ok")
    BY <1>11 DEF BenchmarkEnds
  <2>2. exit = "running"
    BY <2>1 DEF Stands
  <2>3. alarms = {}
    BY <2>1, <2>2, NoAlarms DEF Checks
  <2>4. QED
    BY <2>1, <2>2, <2>3, StandsEnds
<1>12. CASE Killed
  <2>1. stage # "off" /\ alarms' = alarms /\ Ends("killed")
    BY <1>12 DEF Killed
  <2>2. exit = "running" /\ alarms \subseteq Checks
    BY <2>1, StepsAre DEF Stands, Checks
  <2>3. QED
    BY <2>1, <2>2, StandsEnds
<1>13. CASE UNCHANGED <<stage, i, seen, ok, exit, alarms, flags>>
  <2>1. Steps' = Steps /\ Questioned' = Questioned /\ Earlier' = Earlier
    BY DEF Steps, Questioned, Earlier
  <2>2. QED
    BY <1>13, <2>1 DEF Stands
<1>14. Transacts => UNCHANGED <<stage, i, seen, ok, exit, alarms, flags>>
  BY DEF Transacts, placeVars
<1>15. Stops \/ UNCHANGED vars => UNCHANGED <<stage, i, seen, ok, exit, alarms, flags>>
  BY DEF Stops, vars, placeVars, mainVars
<1>16. QED
  BY <1>1, <1>2, <1>3, <1>4, <1>5, <1>6, <1>7, <1>8, <1>9, <1>10, <1>11, <1>12, <1>13,
     <1>14, <1>15 DEF Next, LoaderNext, CheckerNext

---------------------------------------------------------------------------
(* The connection, the bounds, and runs without a fault. *)

\* The steps that are calls.
Calls ==
  \/ CreateTable \/ CreateIndex \/ Load \/ VerifyCounts \/ ShowStats \/ Ping
  \/ CheckTableCounts \/ CheckDistricts

Outset == {"connect", "ping", "create", "index"}

LEMMA CallsAre ==
  ASSUME Stands, Calls
  PROVE  /\ stage \in {"create", "index", "load", "verify", "stats", "ping", "count",
                       "districts", "queue", "lines"}
         /\ \E own, r : Asks(own, r) \/ Misses(r) \/ NoFile(r)
         /\ Keeps
<1>1. CASE CreateTable \/ CreateIndex \/ Load \/ VerifyCounts \/ ShowStats \/ Ping
  <2>1. \E own, r : Asks(own, r) \/ Misses(r) \/ NoFile(r)
    BY <1>1 DEF CreateTable, CreateIndex, Load, VerifyCounts, ShowStats, Ping
  <2>2. stage \in {"create", "index", "load", "verify", "stats", "ping"} /\ Keeps
    BY <1>1, CreateMoves, IndexMoves, LoadMoves, VerifyMoves, StatsMoves, PingMoves
  <2>3. QED
    BY <2>1, <2>2
<1>2. CASE CheckTableCounts
  <2>1. \E own, r : Asks(own, r) \/ Misses(r) \/ NoFile(r)
    BY <1>2 DEF CheckTableCounts
  <2>2. QED
    BY <1>2, <2>1, CountMoves
<1>3. CASE CheckDistricts
  <2>1. \E own, r : Asks(own, r) \/ Misses(r) \/ NoFile(r)
    BY <1>3 DEF CheckDistricts
  <2>2. stage \in {"districts", "queue", "lines"} /\ exit = "running"
    BY <1>3, DistrictMoves
  <2>3. ASSUME NEW good, Judges(good)
        PROVE  Keeps
    <3>1. \/ Goes(i + 1, ok /\ good, <<>>)
          \/ GoesTo("queue") \/ GoesTo("lines") \/ Follows(2) \/ Ends("failed")
      BY <2>2, <2>3, JudgeMoves
    <3>2. Follows(2) => Keeps
      BY <2>2, Follower
    <3>3. QED
      BY <3>1, <3>2 DEF Goes, GoesTo, Ends
  <2>4. \/ \E good : Judges(good)
        \/ \E answers : Goes(i, ok, answers)
    BY <1>3, DistrictMoves
  <2>5. Keeps
    BY <2>3, <2>4 DEF Goes
  <2>6. QED
    BY <2>1, <2>2, <2>5
<1>4. QED
  BY <1>1, <1>2, <1>3 DEF Calls

LEMMA LinkedStep ==
  ASSUME Stands, Linked, BoundIInv, [Next]_vars
  PROVE  Linked'
<1>1. /\ legacy \in BOOLEAN /\ lost \in BOOLEAN /\ clean \in BOOLEAN /\ alone \in BOOLEAN
      /\ clean => ~lost /\ late = <<>>
      /\ clean /\ stage \notin {"off", "connect"} => link = "up"
  BY DEF Linked
<1> DEFINE Whole == legacy' \in BOOLEAN /\ lost' \in BOOLEAN /\ clean' \in BOOLEAN /\ alone' \in BOOLEAN
<1>2. Whole /\ (clean' => ~lost' /\ late' = <<>>)
            /\ (clean' /\ stage' \notin {"off", "connect"} => link' = "up")
        => Linked'
  BY DEF Linked
<1>3. CASE Calls
  <2>1. stage \notin {"off", "connect"} /\ legacy' = legacy /\ alone' = alone
    BY <1>3, CallsAre DEF Keeps
  <2>2. PICK own, r : Asks(own, r) \/ Misses(r) \/ NoFile(r)
    BY <1>3, CallsAre
  <2>3. /\ lost' \in BOOLEAN /\ clean' \in BOOLEAN
        /\ clean' => clean /\ ~lost' /\ late' = <<>>
        /\ clean' => link' = "up"
    BY <2>1, <2>2, CallKeeps DEF PlaceIInv
  <2>4. QED
    BY <1>1, <1>2, <2>1, <2>3
<1>4. CASE Starts
  <2>1. /\ legacy' \in BOOLEAN /\ lost' = FALSE /\ clean' = TRUE /\ alone' = TRUE /\ late' = <<>>
        /\ stage' = "connect"
    BY <1>4 DEF Starts
  <2>2. Whole
    BY <2>1, Zenon
  <2>3. ~lost'
    BY <2>1
  <2>4. QED
    BY <1>2, <2>1, <2>2, <2>3
<1>5. ASSUME Fault
      PROVE  clean' \in BOOLEAN /\ ~clean'
  BY <1>5, Zenon DEF Fault
<1>6. CASE Connects
  <2>1. /\ late' = late /\ lost' = lost /\ stage = "connect"
        /\ \/ NoFault /\ link' = "up" /\ GoesTo("ping")
           \/ Fault /\ Ends("failed")
    BY <1>6 DEF Connects
  <2>2. legacy' = legacy /\ alone' = alone
    BY <2>1 DEF GoesTo, Ends, Keeps
  <2>3. CASE NoFault /\ link' = "up"
    <3>1. clean' = clean
      BY <2>3 DEF NoFault
    <3>2. QED
      BY <1>1, <1>2, <2>1, <2>2, <2>3, <3>1
  <2>4. CASE Fault
    BY <1>1, <1>2, <1>5, <2>1, <2>2, <2>4
  <2>5. QED
    BY <2>1, <2>3, <2>4
<1>7. CASE BenchmarkEnds
  <2>1. UNCHANGED connVars /\ stage' = "off" /\ Keeps
    BY <1>7 DEF BenchmarkEnds, Ends
  <2>2. late' = late /\ lost' = lost /\ clean' = clean /\ legacy' = legacy /\ alone' = alone
    BY <2>1 DEF connVars, Keeps
  <2>3. QED
    BY <1>1, <1>2, <2>1, <2>2
<1>8. CASE Killed
  <2>1. Fault /\ late' = late /\ lost' = lost /\ stage' = "off" /\ Keeps
    BY <1>8 DEF Killed, Ends
  <2>2. legacy' = legacy /\ alone' = alone
    BY <2>1 DEF Keeps
  <2>3. QED
    BY <1>1, <1>2, <1>5, <2>1, <2>2
<1>9. CASE Transacts
  <2>1. UNCHANGED connVars /\ legacy' = legacy /\ stage' = stage /\ alone' = (alone /\ stage = "benchmark")
    BY <1>9 DEF Transacts, placeVars
  <2>2. link' = link /\ late' = late /\ lost' = lost /\ clean' = clean
    BY <2>1 DEF connVars
  <2>3. alone' \in BOOLEAN
    BY <2>1, Zenon
  <2>4. QED
    BY <1>1, <1>2, <2>1, <2>2, <2>3
<1>10. CASE Stops \/ UNCHANGED vars
  <2>1. UNCHANGED <<legacy, lost, clean, alone, late, link, stage>>
    BY <1>10 DEF Stops, vars, connVars, mainVars, placeVars
  <2>2. QED
    BY <1>1, <1>2, <2>1
<1>11. QED
  BY <1>3, <1>4, <1>6, <1>7, <1>8, <1>9, <1>10 DEF Next, LoaderNext, CheckerNext, Calls

---------------------------------------------------------------------------
(* The bounds. *)

\* No file was loaded more often than there were runs.
OftenIs(r) ==
  /\ \A t \in Tables : copies[t] <= r
  /\ stage \in Outset => \A t \in Tables : copies[t] < r
  /\ stage = "load" => \A j \in i..9 : copies[LoadOrder[j]] < r

LEMMA OftenKept ==
  ASSUME DbIInv, Stands, OftenIs(runs), copies' = copies, runs' = runs,
         stage' \in Outset => stage \in Outset,
         stage' = "load" => \/ stage = "index" /\ i' = 1
                            \/ stage = "load" /\ i' >= i /\ i' \in Nat
  PROVE  OftenIs(runs)'
<1>1. ASSUME stage' = "load", stage = "index", i' = 1
      PROVE  \A j \in i'..9 : copies'[LoadOrder[j]] < runs'
  <2>1. \A t \in Tables : copies[t] < runs
    BY <1>1 DEF OftenIs, Outset
  <2>2. QED
    BY <1>1, <2>1, OrdersAre
<1>2. ASSUME stage' = "load", stage = "load", i' >= i, i' \in Nat
      PROVE  \A j \in i'..9 : copies'[LoadOrder[j]] < runs'
  <2>1. i \in Nat
    BY DEF Stands
  <2>2. \A j \in i..9 : copies[LoadOrder[j]] < runs
    BY <1>2 DEF OftenIs
  <2>3. \A j \in i'..9 : j \in i..9
    BY <1>2, <2>1
  <2>4. QED
    BY <2>2, <2>3
<1>3. stage' = "load" => \A j \in i'..9 : copies'[LoadOrder[j]] < runs'
  BY <1>1, <1>2
<1>4. QED
  BY <1>3 DEF OftenIs, Outset

LEMMA OftenStep ==
  ASSUME DbIInv, Stands, OftenIs(runs), runs \in Nat, [Next]_vars
  PROVE  OftenIs(runs)'
<1>0. i \in Nat
  BY DEF Stands
<1>1. CASE CreateTable
  <2>1. /\ stage = "create" /\ Keeps
        /\ Ends("failed") \/ stage' = "create" \/ GoesTo("index")
    BY <1>1, CreateMoves
  <2>2. copies' = copies /\ runs' = runs
    BY <1>1, <2>1 DEF CreateTable, Keeps
  <2>3. stage' # "load"
    BY <2>1 DEF Ends, GoesTo
  <2>4. QED
    BY <2>1, <2>2, <2>3, OftenKept DEF Outset
<1>2. CASE CreateIndex
  <2>1. /\ stage = "index" /\ Keeps /\ copies' = copies
        /\ Ends("failed") \/ stage' = "index" \/ GoesTo("load")
    BY <1>2, IndexMoves
  <2>2. runs' = runs
    BY <2>1 DEF Keeps
  <2>3. stage' = "load" => i' = 1
    BY <2>1 DEF Ends, GoesTo
  <2>4. QED
    BY <2>1, <2>2, <2>3, OftenKept DEF Outset
<1>3. CASE Load
  <2>1. /\ stage = "load" /\ Keeps
        /\ \/ Ends("failed")
           \/ i' = i + 1 /\ stage' = "load"
           \/ GoesTo("verify")
    BY <1>3, LoadMoves
  <2>2. runs' = runs /\ stage' \notin Outset /\ (stage' = "load" => i' = i + 1)
    BY <2>1 DEF Keeps, Ends, GoesTo, Outset
  <2>3. i \in 1..9 /\ LoadOrder[i] \in Tables
    BY <2>1, StepsAre, OrdersAre DEF Stands
  <2> DEFINE t == LoadOrder[i]
  <2>4. \/ copies' = [copies EXCEPT ![t] = IF t \in created THEN @ + 1 ELSE @]
        \/ copies' = copies
    BY <1>3 DEF Load
  <2>5. copies \in [Tables -> Nat] /\ copies[t] < runs
    BY <2>1, <2>3 DEF OftenIs, DbIInv
  <2>6. \A u \in Tables : copies'[u] <= copies[u] + 1 /\ (u # t => copies'[u] = copies[u])
    <3> HIDE DEF t
    <3>1. QED
      BY <2>4, <2>5
  <2>7. \A u \in Tables : copies'[u] <= runs
    <3>1. ASSUME NEW u \in Tables
          PROVE  copies'[u] <= runs
      <4>1. copies[u] \in Nat /\ copies[u] <= runs
        BY <2>5 DEF OftenIs
      <4>2. CASE u = t
        <5>1. copies'[u] \in Nat
          BY <2>3, <2>4, <2>5
        <5>2. copies[u] < runs /\ copies'[u] <= copies[u] + 1
          BY <2>5, <2>6, <4>2
        <5>3. QED
          BY <4>1, <5>1, <5>2
      <4>3. CASE u # t
        BY <2>6, <4>1, <4>3
      <4>4. QED
        BY <4>2, <4>3
    <3>2. QED
      BY <3>1
  <2>8. ASSUME NEW j \in (i + 1)..9
        PROVE  copies'[LoadOrder[j]] < runs
    <3>1. j \in i..9 /\ j \in 1..9 /\ j # i
      BY <2>3
    <3>2. LoadOrder[j] # t /\ LoadOrder[j] \in Tables
      BY <2>3, <3>1, OrdersAre
    <3>3. copies[LoadOrder[j]] < runs
      BY <2>1, <3>1 DEF OftenIs
    <3>4. QED
      BY <2>6, <3>2, <3>3
  <2>9. QED
    BY <2>2, <2>7, <2>8 DEF OftenIs
<1>4. CASE VerifyCounts \/ ShowStats \/ CheckTableCounts \/ CheckDistricts
  <2>1. /\ UNCHANGED dbVars
        /\ stage \in {"verify", "stats", "count", "districts", "queue", "lines"} /\ exit = "running"
    BY <1>4, VerifyMoves, StatsMoves, CountMoves, DistrictMoves
  <2>2. Keeps
    BY <1>4, CallsAre DEF Calls
  <2>3. ASSUME NEW n \in 1..3, Follows(n)
        PROVE  stage' \in {"count", "stats", "benchmark", "off"}
    <3>1. n \in 0..3 /\ n # 0
      OBVIOUS
    <3>2. /\ stage' \in {"create", "count", "stats", "benchmark", "off"}
          /\ stage' = "create" => n = 0
      BY <2>1, <2>3, <3>1, Follower
    <3>3. QED
      BY <3>1, <3>2
  <2>4. stage' \in {"verify", "stats", "count", "districts", "queue", "lines", "benchmark", "off"}
    <3>1. CASE VerifyCounts \/ ShowStats
      BY <1>4, <2>3, <3>1, VerifyMoves, StatsMoves
    <3>2. CASE CheckTableCounts
      <4>1. (\E good : Goes(i + 1, good, <<>>)) \/ GoesTo("districts")
        BY <3>2, CountMoves
      <4>2. QED
        BY <2>1, <4>1 DEF Goes, GoesTo
    <3>3. CASE CheckDistricts
      <4>1. \/ \E good : Judges(good)
            \/ \E answers : Goes(i, ok, answers)
        BY <3>3, DistrictMoves
      <4>2. stage \in {"districts", "queue", "lines"}
        BY <3>3, DistrictMoves
      <4>3. ASSUME NEW good, Judges(good)
            PROVE  \/ Goes(i + 1, ok /\ good, <<>>)
                   \/ GoesTo("queue") \/ GoesTo("lines") \/ Follows(2) \/ Ends("failed")
        BY <4>2, <4>3, JudgeMoves
      <4>4. Follows(2) => stage' \in {"count", "stats", "benchmark", "off"}
        BY <2>3
      <4>5. \/ \E n, good, answers : Goes(n, good, answers)
            \/ GoesTo("queue") \/ GoesTo("lines") \/ Follows(2) \/ Ends("failed")
        BY <4>1, <4>3
      <4>6. QED
        BY <2>1, <4>4, <4>5 DEF Goes, GoesTo, Ends
    <3>4. QED
      BY <1>4, <3>1, <3>2, <3>3
  <2>5. copies' = copies /\ runs' = runs
    BY <2>1, <2>2 DEF dbVars, Keeps
  <2>6. stage' \notin Outset /\ stage' # "load"
    BY <2>4 DEF Outset
  <2>7. QED
    BY <2>5, <2>6, OftenKept
<1>5. CASE Ping
  <2>1. stage = "ping" /\ exit = "running" /\ Keeps /\ UNCHANGED dbVars /\ (stage' = "ping" \/ Follows(0))
    BY <1>5, PingMoves
  <2>2. stage' # "load"
    <3>1. Follows(0) => stage' \in {"create", "count", "stats", "benchmark", "off"}
      BY <2>1, Follower
    <3>2. QED
      BY <2>1, <3>1
  <2>3. copies' = copies /\ runs' = runs /\ stage \in Outset
    BY <2>1 DEF dbVars, Keeps, Outset
  <2>4. QED
    BY <2>2, <2>3, OftenKept
<1>6. CASE Starts
  <2>1. copies' = copies /\ runs' = runs + 1 /\ stage' = "connect"
    BY <1>6 DEF Starts, dbVars
  <2>2. \A t \in Tables : copies'[t] < runs' /\ copies'[t] <= runs'
    <3>1. \A t \in Tables : copies[t] \in Nat /\ copies[t] <= runs
      BY DEF OftenIs, DbIInv
    <3>2. QED
      BY <2>1, <3>1
  <2>3. QED
    BY <2>1, <2>2 DEF OftenIs
<1>7. CASE Connects
  <2>1. stage = "connect" /\ UNCHANGED dbVars /\ (GoesTo("ping") \/ Ends("failed"))
    BY <1>7 DEF Connects
  <2>2. copies' = copies /\ runs' = runs /\ stage \in Outset /\ stage' # "load"
    BY <2>1 DEF dbVars, GoesTo, Ends, Keeps, Outset
  <2>3. QED
    BY <2>2, OftenKept
<1>8. CASE BenchmarkEnds \/ Killed
  <2>1. UNCHANGED dbVars /\ Keeps /\ stage' = "off"
    BY <1>8 DEF BenchmarkEnds, Killed, Ends
  <2>2. copies' = copies /\ runs' = runs /\ stage' \notin Outset /\ stage' # "load"
    BY <2>1 DEF dbVars, Keeps, Outset
  <2>3. QED
    BY <2>2, OftenKept
<1>9. CASE Transacts \/ Stops \/ UNCHANGED vars
  <2>1. UNCHANGED <<copies, runs, stage, i>>
    BY <1>9 DEF Transacts, Stops, placeVars, vars, dbVars, mainVars
  <2>2. i' >= i /\ i' \in Nat
    BY <1>0, <2>1
  <2>3. QED
    BY <2>1, <2>2, OftenKept
<1>10. QED
  BY <1>1, <1>2, <1>3, <1>4, <1>5, <1>6, <1>7, <1>8, <1>9 DEF Next, LoaderNext, CheckerNext

LEMMA BoundStep ==
  ASSUME DbIInv, PlaceIInv, BoundIInv, [Next]_vars
  PROVE  BoundIInv'
<1>1. /\ link \in {"up", "down"}
      /\ faults \in Nat /\ faults <= MaxFaults /\ runs \in Nat /\ runs <= MaxRuns
      /\ MaxFaults \in Nat /\ MaxRuns \in Nat
      /\ IsSeq(late) /\ Len(late) <= faults
      /\ OftenIs(runs)
  BY StageAssumption DEF BoundIInv, OftenIs, Outset
<1>2. OftenIs(runs)'
  BY <1>1, OftenStep DEF PlaceIInv
<1> DEFINE Conn == /\ link' \in {"up", "down"} /\ faults' \in 0..MaxFaults
                   /\ IsSeq(late') /\ Len(late') <= faults'
<1>3. runs' \in 0..MaxRuns
  <2>1. CASE Starts
    BY <1>1, <2>1 DEF Starts
  <2>2. Calls => runs' = runs
    BY CallsAre DEF PlaceIInv, Keeps
  <2>3. Connects \/ BenchmarkEnds \/ Killed => runs' = runs
    BY DEF Connects, BenchmarkEnds, Killed, Ends, GoesTo, Keeps
  <2>4. Transacts \/ Stops \/ UNCHANGED vars => runs' = runs
    BY DEF Transacts, Stops, vars, mainVars
  <2>5. QED
    BY <1>1, <2>1, <2>2, <2>3, <2>4 DEF Next, LoaderNext, CheckerNext, Calls
<1>4. Conn
  <2>1. CASE Calls
    <3>1. PICK own, r : Asks(own, r) \/ Misses(r) \/ NoFile(r)
      BY <2>1, CallsAre DEF PlaceIInv
    <3>2. QED
      BY <3>1, CallKeeps
  <2>2. Len(late) \in Nat
    BY <1>1, SeqOps
  <2>3. CASE Starts
    <3>1. link' = "down" /\ late' = <<>> /\ faults' = faults
      BY <2>3 DEF Starts
    <3>2. QED
      BY <1>1, <3>1, EmptySeq
  <2>4. CASE Connects \/ Killed
    <3>1. /\ late' = late /\ link' \in {"up", link}
          /\ \/ faults' = faults
             \/ faults < MaxFaults /\ faults' = faults + 1
      BY <2>4 DEF Connects, Killed, Fault, NoFault
    <3>2. QED
      BY <1>1, <2>2, <3>1
  <2>5. CASE BenchmarkEnds \/ Transacts \/ Stops \/ UNCHANGED vars
    <3>1. UNCHANGED <<link, late, faults>>
      BY <2>5 DEF BenchmarkEnds, Transacts, Stops, vars, connVars
    <3>2. QED
      BY <1>1, <3>1
  <2>6. QED
    BY <2>1, <2>3, <2>4, <2>5 DEF Next, LoaderNext, CheckerNext, Calls
<1>5. QED
  BY <1>2, <1>3, <1>4 DEF BoundIInv, OftenIs, Outset

---------------------------------------------------------------------------
(* A run without a fault. *)

CleanFacts ==
  /\ stage = "create" => \A j \in 1..9 : j < i => CreateOrder[j] \in created
  /\ stage \in {"index", "load"} => created = Tables

LEMMA CleanStep ==
  ASSUME DbIInv, DbIInv', PlaceIInv, BoundIInv, CleanIInv, [Next]_vars, clean'
  PROVE  CleanFacts'
<1>0. stage \notin {"off", "connect"} /\ clean => CleanFacts
  BY DEF CleanIInv, CleanFacts
<1>a. Stands
  BY DEF PlaceIInv
<1>1. CASE CreateTable
  <2>1. /\ stage = "create"
        /\ \/ Ends("failed")
           \/ i < 9 /\ i' = i + 1 /\ stage' = "create"
           \/ i = 9 /\ GoesTo("index")
    BY <1>1, <1>a, CreateMoves
  <2>2. PICK own, r :
          \/ Asks(own, r) /\ created' = created \cup {CreateOrder[i]}
          \/ Misses(r) \/ NoFile(r)
    BY <1>1 DEF CreateTable
  <2>3. clean /\ ~Misses(r) /\ ~NoFile(r)
    BY <2>1, <2>2, CleanCall
  <2>4. created' = created \cup {CreateOrder[i]}
    BY <2>2, <2>3
  <2>5. i \in 1..9
    BY <1>a, <2>1, StepsAre DEF Stands
  <2>6. \A j \in 1..9 : j < i + 1 => CreateOrder[j] \in created'
    <3>1. \A j \in 1..9 : j < i => CreateOrder[j] \in created
      BY <1>0, <2>1, <2>3 DEF CleanFacts
    <3>2. \A j \in 1..9 : j < i + 1 => j < i \/ j = i
      BY <2>5
    <3>3. QED
      BY <2>4, <3>1, <3>2
  <2>7. CASE Ends("failed")
    BY <2>7 DEF Ends, CleanFacts
  <2>8. CASE i' = i + 1 /\ stage' = "create"
    BY <2>6, <2>8 DEF CleanFacts
  <2>9. CASE i = 9 /\ GoesTo("index")
    <3>1. stage' = "index"
      BY <2>9 DEF GoesTo
    <3>2. \A j \in 1..9 : CreateOrder[j] \in created'
      BY <2>6, <2>9
    <3>3. Tables \subseteq created'
      BY <3>2, OrdersAre
    <3>4. created' \subseteq Tables
      BY DEF DbIInv, Tables
    <3>5. QED
      BY <3>1, <3>3, <3>4 DEF CleanFacts, Tables
  <2>10. QED
    BY <2>1, <2>7, <2>8, <2>9
<1>2. CASE CreateIndex \/ Load
  <2>1. /\ stage \in {"index", "load"} /\ created' = created
        /\ Ends("failed") \/ stage' = stage \/ GoesTo("load") \/ GoesTo("verify")
    BY <1>2, <1>a, IndexMoves, LoadMoves
  <2>2. PICK own, r : Asks(own, r) \/ Misses(r) \/ NoFile(r)
    BY <1>2, <1>a, CallsAre DEF Calls
  <2>3. clean
    BY <2>1, <2>2, CleanCall
  <2>4. created' = Tables
    BY <1>0, <2>1, <2>3 DEF CleanFacts
  <2>5. stage' # "create"
    BY <2>1 DEF Ends, GoesTo
  <2>6. QED
    BY <2>4, <2>5 DEF CleanFacts, Tables
<1>3. CASE VerifyCounts \/ ShowStats
  <2>1. /\ stage \in {"verify", "stats"} /\ exit = "running"
        /\ stage' = stage \/ Follows(1) \/ Follows(3)
    BY <1>3, <1>a, VerifyMoves, StatsMoves
  <2>2. Follows(1) => stage' \in {"count", "stats", "benchmark", "off"}
    BY <1>a, <2>1, Follower
  <2>3. Follows(3) => stage' \in {"count", "stats", "benchmark", "off"}
    BY <1>a, <2>1, Follower
  <2>4. QED
    BY <2>1, <2>2, <2>3 DEF CleanFacts
<1>4. CASE Ping
  <2>1. stage = "ping" /\ exit = "running" /\ (stage' = "ping" \/ Follows(0))
    BY <1>4, <1>a, PingMoves
  <2>2. Follows(0) => i' = 1 /\ stage' \in {"create", "count", "stats", "benchmark", "off"}
    BY <1>a, <2>1, Follower
  <2>3. stage' = "create" => \A j \in 1..9 : ~(j < i')
    BY <2>1, <2>2
  <2>4. stage' \notin {"index", "load"}
    BY <2>1, <2>2
  <2>5. QED
    BY <2>3, <2>4 DEF CleanFacts
<1>5. CASE CheckTableCounts
  <2>1. stage = "count" /\ ((\E n, good, answers : Goes(n, good, answers)) \/ GoesTo("districts"))
    BY <1>5, <1>a, CountMoves
  <2>2. stage' \in {"count", "districts"}
    BY <2>1 DEF Goes, GoesTo
  <2>3. QED
    BY <2>2 DEF CleanFacts
<1>6. CASE CheckDistricts
  <2>1. stage \in {"districts", "queue", "lines"} /\ exit = "running"
    BY <1>6, <1>a, DistrictMoves
  <2>2. \/ \E good : Judges(good)
        \/ \E n, good, answers : Goes(n, good, answers)
    BY <1>6, <1>a, DistrictMoves
  <2>3. ASSUME NEW good, Judges(good)
        PROVE  \/ \E n, all, answers : Goes(n, all, answers)
               \/ GoesTo("queue") \/ GoesTo("lines") \/ Follows(2) \/ Ends("failed")
    BY <1>a, <2>1, <2>3, JudgeMoves
  <2>4. Follows(2) => stage' \in {"count", "stats", "benchmark", "off"}
    BY <1>a, <2>1, Follower
  <2>5. \/ \E n, all, answers : Goes(n, all, answers)
        \/ GoesTo("queue") \/ GoesTo("lines") \/ Follows(2) \/ Ends("failed")
    BY <2>2, <2>3
  <2>6. stage' \in {"districts", "queue", "lines", "count", "stats", "benchmark", "off"}
    BY <2>1, <2>4, <2>5 DEF Goes, GoesTo, Ends
  <2>7. QED
    BY <2>6 DEF CleanFacts
<1>7. CASE Starts \/ Connects \/ BenchmarkEnds \/ Killed
  <2>1. stage' \in {"connect", "ping", "off"}
    BY <1>7 DEF Starts, Connects, BenchmarkEnds, Killed, GoesTo, Ends
  <2>2. QED
    BY <2>1 DEF CleanFacts
<1>8. CASE Transacts
  <2>1. stage \notin {"create", "index", "load"} /\ stage' = stage
    BY <1>8 DEF Transacts, placeVars
  <2>2. QED
    BY <2>1 DEF CleanFacts
<1>9. CASE Stops \/ UNCHANGED vars
  <2>1. UNCHANGED <<stage, i, created, clean>>
    BY <1>9 DEF Stops, vars, dbVars, connVars, placeVars
  <2>2. CleanIInv => CleanFacts
    BY <2>1 DEF CleanIInv, CleanFacts
  <2>3. QED
    BY <2>1, <2>2 DEF CleanFacts, Tables
<1>10. QED
  BY <1>1, <1>2, <1>3, <1>4, <1>5, <1>6, <1>7, <1>8, <1>9 DEF Next, LoaderNext, CheckerNext

\* Only a check makes a run fail that meets no fault.
LEMMA FailStep ==
  ASSUME PlaceIInv, BoundIInv, CleanIInv, FailIInv, [Next]_vars, clean', exit' = "failed"
  PROVE  alarms' # {} /\ "check" \in flags'
<1>a. Stands
  BY DEF PlaceIInv
<1>1. CASE CreateTable
  <2>1. stage = "create"
    BY <1>1, <1>a, CreateMoves
  <2> DEFINE own == IF CreateOrder[i] \in created THEN Error("exists") ELSE Command
  <2>2. PICK r : (Asks(own, r) \/ Misses(r) \/ NoFile(r)) /\ AfterCreate(r)
    BY <1>1 DEF CreateTable
  <2>3. r = own
    <3> HIDE DEF own
    <3>1. QED
      BY <2>1, <2>2, CleanCall
  <2>4. ~(Fails(r) /\ r.kind # "exists")
    BY <2>3 DEF Fails, Error, Command
  <2>5. exit' = "running"
    <3>1. Continues(9, GoesTo("index"))
      BY <2>2, <2>4, OrdersAre DEF AfterCreate
    <3>2. exit = "running"
      BY <1>a, <2>1 DEF Stands
    <3>3. QED
      BY <3>1, <3>2 DEF Continues, Stays, GoesTo
  <2>6. QED
    BY <2>5
<1>2. CASE CreateIndex
  <2>1. /\ stage = "index"
        /\ \/ \E r : NoFile(r)
           \/ exit' = "running"
    BY <1>2, <1>a, IndexMoves
  <2>2. ASSUME NEW r, NoFile(r)
        PROVE  FALSE
    BY <2>1, <2>2, CleanCall
  <2>3. QED
    BY <2>1, <2>2
<1>3. CASE Load
  <2>1. stage = "load" /\ i \in 1..9
    BY <1>3, <1>a, LoadMoves, StepsAre DEF Stands
  <2> DEFINE own == About(LoadOrder[i], Command)
  <2>2. PICK r : (Asks(own, r) \/ Misses(r) \/ NoFile(r)) /\ AfterLoad(r)
    BY <1>3 DEF Load
  <2>3. clean /\ r = own
    <3> HIDE DEF own
    <3>1. QED
      BY <2>1, <2>2, CleanCall
  <2>4. LoadOrder[i] \in created
    BY <2>1, <2>3, OrdersAre DEF CleanIInv
  <2>5. ~Fails(r)
    BY <2>3, <2>4 DEF Fails, About, Command
  <2>6. exit' = "running"
    <3>1. Continues(9, GoesTo("verify"))
      BY <2>2, <2>5, OrdersAre DEF AfterLoad
    <3>2. exit = "running"
      BY <1>a, <2>1 DEF Stands
    <3>3. QED
      BY <3>1, <3>2 DEF Continues, Stays, GoesTo
  <2>7. QED
    BY <2>6
<1>4. CASE VerifyCounts \/ ShowStats \/ Ping
  <2>1. /\ exit = "running"
        /\ exit' = "running" \/ \E n \in 0..3 : Follows(n)
    BY <1>4, <1>a, VerifyMoves, StatsMoves, PingMoves
  <2>2. ASSUME NEW n \in 0..3, Follows(n)
        PROVE  FALSE
    BY <1>a, <2>1, <2>2, Follower
  <2>3. QED
    BY <2>1, <2>2
<1>5. CASE CheckTableCounts
  BY <1>5, <1>a, CountMoves
<1>6. CASE CheckDistricts
  <2>1. stage \in {"districts", "queue", "lines"} /\ exit = "running"
    BY <1>6, <1>a, DistrictMoves
  <2>2. "check" \in flags
    BY <1>a, <2>1 DEF Stands, Checks
  <2>3. \/ \E good : Judges(good)
        \/ \E n, good, answers : Goes(n, good, answers)
    BY <1>6, <1>a, DistrictMoves
  <2>4. ASSUME NEW good, Judges(good)
        PROVE  \/ \E n, all, answers : Goes(n, all, answers)
               \/ GoesTo("queue") \/ GoesTo("lines") \/ Follows(2)
               \/ alarms' # {} /\ Ends("failed")
    BY <1>a, <2>1, <2>4, JudgeMoves
  <2>5. ~Follows(2)
    BY <1>a, <2>1, Follower
  <2>6. alarms' # {} /\ Ends("failed")
    BY <2>1, <2>3, <2>4, <2>5 DEF Goes, GoesTo
  <2>7. QED
    BY <2>2, <2>6 DEF Ends, Keeps
<1>7. CASE Starts \/ BenchmarkEnds \/ Killed
  BY <1>7 DEF Starts, BenchmarkEnds, Killed, Ends
<1>8. CASE Connects
  <2>1. ~Fault
    BY Zenon DEF Fault
  <2>2. stage = "connect" /\ GoesTo("ping")
    BY <1>8, <2>1 DEF Connects
  <2>3. QED
    BY <1>a, <2>2 DEF GoesTo, Stands
<1>9. CASE Transacts \/ Stops \/ UNCHANGED vars
  <2>1. UNCHANGED <<clean, exit, alarms, flags>>
    BY <1>9 DEF Transacts, Stops, vars, connVars, mainVars
  <2>2. QED
    BY <2>1 DEF FailIInv
<1>10. QED
  BY <1>1, <1>2, <1>3, <1>4, <1>5, <1>6, <1>7, <1>8, <1>9 DEF Next, LoaderNext, CheckerNext

---------------------------------------------------------------------------
(* What a check has seen. *)

LEMMA TimesKept ==
  ASSUME UNCHANGED dbVars, NEW t, NEW o
  PROVE  Times(t, o)' = Times(t, o)
BY DEF Times, dbVars

LEMMA SetsKept ==
  ASSUME UNCHANGED dbVars, NEW d
  PROVE  Waiting(d)' = Waiting(d) /\ Ordered(d)' = Ordered(d)
<1>1. book' = book /\ delivered' = delivered
  BY DEF dbVars, bookVars
<1>2. Waiting(d)' = Waiting(d)
  BY <1>1, TimesKept DEF Waiting
<1>3. Ordered(d)' = Ordered(d)
  BY <1>1, TimesKept DEF Ordered
<1>4. QED
  BY <1>2, <1>3

LEMMA SumsKept ==
  ASSUME UNCHANGED dbVars, NEW d, NEW t
  PROVE  /\ NumWaiting(d)' = NumWaiting(d) /\ NumOrders(d)' = NumOrders(d)
         /\ NumLines(t, d)' = NumLines(t, d) /\ Payments' = Payments
<1>1. book' = book /\ paid' = paid
  BY DEF dbVars, bookVars
<1>2. NumWaiting(d)' = NumWaiting(d)
  <2> DEFINE f == [o \in Waiting(d) |-> Times("new_orders", o)]
  <2>1. f' = f
    BY SetsKept, TimesKept
  <2>2. NumWaiting(d) = SumFunction(f) /\ NumWaiting(d)' = SumFunction(f')
    BY DEF NumWaiting
  <2> HIDE DEF f
  <2>3. QED
    BY <2>1, <2>2
<1>3. NumOrders(d)' = NumOrders(d)
  <2> DEFINE f == [o \in Ordered(d) |-> Times("orders", o)]
  <2>1. f' = f
    BY SetsKept, TimesKept
  <2>2. NumOrders(d) = SumFunction(f) /\ NumOrders(d)' = SumFunction(f')
    BY DEF NumOrders
  <2> HIDE DEF f
  <2>3. QED
    BY <2>1, <2>2
<1>4. NumLines(t, d)' = NumLines(t, d)
  <2> DEFINE f == [o \in DOMAIN book[d] |-> Times(t, o) * Len(book[d][o].lines)]
  <2>1. f' = f
    BY <1>1, TimesKept
  <2>2. NumLines(t, d) = SumFunction(f) /\ NumLines(t, d)' = SumFunction(f')
    BY DEF NumLines
  <2> HIDE DEF f
  <2>3. QED
    BY <2>1, <2>2
<1>5. Payments' = Payments
  BY <1>1 DEF Payments
<1>6. QED
  BY <1>2, <1>3, <1>4, <1>5

LEMMA CountKept ==
  ASSUME UNCHANGED dbVars, NEW t
  PROVE  CountOf(t)' = CountOf(t) /\ FileRows(t)' = FileRows(t)
<1>1. copies' = copies
  BY DEF dbVars
<1>2. FileRows(t)' = FileRows(t)
  BY DEF FileRows
<1>3. Payments' = Payments
  BY SumsKept
<1> DEFINE f == [d \in Districts |-> NumOrders(d)]
           g == [d \in Districts |-> NumWaiting(d)]
           h == [d \in Districts |-> NumLines("order_line", d)]
<1>4. f' = f /\ g' = g /\ h' = h
  BY SumsKept
<1>5. /\ CountOf(t) = CASE t = "orders"     -> SumFunction(f)
                        [] t = "new_orders" -> SumFunction(g)
                        [] t = "order_line" -> SumFunction(h)
                        [] t = "history"    -> copies[t] + Payments
                        [] OTHER            -> copies[t] * FileRows(t)
      /\ CountOf(t)' = CASE t = "orders"     -> SumFunction(f')
                         [] t = "new_orders" -> SumFunction(g')
                         [] t = "order_line" -> SumFunction(h')
                         [] t = "history"    -> copies'[t] + Payments'
                         [] OTHER            -> copies'[t] * FileRows(t)'
  BY DEF CountOf
<1> HIDE DEF f, g, h
<1>6. QED
  BY <1>1, <1>2, <1>3, <1>4, <1>5

LEMMA QuestionsKept ==
  ASSUME UNCHANGED dbVars, legacy' = legacy, NEW d
  PROVE  Questions(d)' = Questions(d)
<1>1. created' = created /\ copies' = copies /\ book' = book
  BY DEF dbVars, bookVars
<1>3. NextId(d)' = NextId(d)
  BY <1>1 DEF NextId
<1>4. /\ Greatest(Ordered(d))' = Greatest(Ordered(d))
      /\ Greatest(Waiting(d))' = Greatest(Waiting(d))
      /\ Least(Waiting(d))' = Least(Waiting(d))
  BY SetsKept DEF Greatest, Least, OrNull
<1>5. /\ NumWaiting(d)' = NumWaiting(d)
      /\ NumLines("order_line", d)' = NumLines("order_line", d)
      /\ OrNull(NumLines("orders", d))' = OrNull(NumLines("orders", d))
  BY SumsKept DEF OrNull
<1>6. QED
  BY <1>1, <1>3, <1>4, <1>5 DEF Questions, About

LEMMA RightKept ==
  ASSUME UNCHANGED dbVars, legacy' = legacy, NEW check, NEW n
  PROVE  Right(check, n)' <=> Right(check, n)
<1>1. ASSUME NEW t
      PROVE  CountRight(t)' <=> CountRight(t)
  <2>1. CountOf(t)' = CountOf(t) /\ FileRows(t)' = FileRows(t) /\ created' = created
    BY CountKept DEF dbVars
  <2>2. OwnCount(t)' = OwnCount(t)
    BY <2>1 DEF OwnCount, About
  <2>3. Fails(OwnCount(t))' <=> Fails(OwnCount(t))
    BY <2>2 DEF Fails
  <2>4. QED
    BY <2>1, <2>2, <2>3 DEF CountRight, HasRow
<1>2. ASSUME NEW d
      PROVE  DistrictRight(check, d)' <=> DistrictRight(check, d)
  BY QuestionsKept DEF DistrictRight, Questioned, HasRow, Adds
<1>3. QED
  BY <1>1, <1>2 DEF Right

LEMMA AllRightKept ==
  ASSUME UNCHANGED dbVars, legacy' = legacy, NEW check
  PROVE  AllRight(check)' <=> AllRight(check)
BY RightKept DEF AllRight, Steps

LEMMA ToldKept ==
  ASSUME UNCHANGED dbVars, legacy' = legacy, alarms' = alarms, clean' => clean,
         NEW C, Told(C)
  PROVE  Told(C)'
<1>1. \A c : AllRight(c)' <=> AllRight(c)
  BY AllRightKept
<1>2. QED
  BY <1>1 DEF Told

\* The row count that a call of check 1 brings.
LEMMA CountIsRight ==
  ASSUME NEW r, NEW own, i \in 1..9, own = OwnCount(CheckOrder[i]), ~Fails(r) => r = own
  PROVE  /\ CountOk(r) => CountRight(CheckOrder[i])
         /\ r = own => (CountOk(r) <=> CountRight(CheckOrder[i]))
<1> DEFINE t == CheckOrder[i]
<1>1. HasRow(own) => own.n = CountOf(t)
  BY DEF OwnCount, About, HasRow, Rows, Error
<1>2. HasRow(r) => ~Fails(r)
  BY DEF HasRow, Fails
<1>3. r = own => (CountOk(r) <=> CountRight(t))
  BY <1>1 DEF CountOk, CountRight
<1>4. CountOk(r) => ~Fails(r)
  BY <1>2 DEF CountOk
<1>5. QED
  BY <1>3, <1>4

\* all_ok after one more table or district.
LEMMA Judged ==
  ASSUME Stands, Tells, NEW good \in BOOLEAN, clean' => clean,
         good => Right(stage, i), clean' => (good <=> Right(stage, i))
  PROVE  /\ ok /\ good => \A n \in 1..i : Right(stage, n)
         /\ clean' /\ ~(ok /\ good) => \E n \in 1..i : ~Right(stage, n)
<1>1. i \in Nat \ {0} /\ ok \in BOOLEAN
  BY DEF Stands
<1>2. i \in 1..i /\ 1..(i - 1) \subseteq 1..i /\ \A n \in 1..i : n = i \/ n \in 1..(i - 1)
  BY <1>1
<1>3. ok => \A n \in 1..(i - 1) : Right(stage, n)
  BY DEF Tells
<1>4. clean /\ ~ok => \E n \in 1..(i - 1) : ~Right(stage, n)
  BY DEF Tells
<1>5. QED
  BY <1>2, <1>3, <1>4

\* On to the next table or district.
LEMMA JudgedGoes ==
  ASSUME Stands, Told(Over), Tells, stage \in Checks, NEW good \in BOOLEAN, clean' => clean,
         good => Right(stage, i), clean' => (good <=> Right(stage, i)),
         UNCHANGED dbVars, legacy' = legacy, Goes(i + 1, ok /\ good, <<>>)
  PROVE  CheckIInv'
<1>1. /\ i' = i + 1 /\ seen' = <<>> /\ ok' = (ok /\ good) /\ stage' = stage /\ alarms' = alarms
  BY DEF Goes
<1>2. /\ ok /\ good => \A n \in 1..i : Right(stage, n)
      /\ clean' /\ ~(ok /\ good) => \E n \in 1..i : ~Right(stage, n)
  BY Judged
<1>3. \A n : Right(stage, n)' <=> Right(stage, n)
  <2>1. \A check, n : Right(check, n)' <=> Right(check, n)
    BY RightKept
  <2>2. ASSUME NEW n
        PROVE  Right(stage, n)' <=> Right(stage, n)
    <3>1. PICK check : check = stage
      OBVIOUS
    <3>2. Right(check, n)' <=> Right(check, n)
      BY <2>1
    <3>3. check = stage'
      BY <1>1, <3>1
    <3>4. QED
      BY <3>1, <3>2, <3>3 DEF Right
  <2>3. QED
    BY <2>2
<1>4. i' - 1 = i
  BY <1>1 DEF Stands
<1>5. Tells'
  BY <1>1, <1>2, <1>3, <1>4 DEF Tells
<1>6. Over' = Over
  BY <1>1 DEF Over, Earlier
<1>7. Told(Over)'
  <2>1. PICK C : C = Over
    OBVIOUS
  <2>2. Told(C)'
    BY <1>1, <2>1, ToldKept
  <2>3. QED
    BY <1>6, <2>1, <2>2 DEF Told
<1>8. SeenRight'
  <2>1. DOMAIN seen' = {}
    BY <1>1
  <2>2. QED
    BY <2>1 DEF SeenRight
<1>9. QED
  BY <1>5, <1>7, <1>8 DEF CheckIInv

\* The end of a check.
LEMMA JudgedCloses ==
  ASSUME Stands, Told(Over), Tells, stage \in Checks, NEW good \in BOOLEAN, clean' => clean,
         good => Right(stage, i), clean' => (good <=> Right(stage, i)),
         UNCHANGED dbVars, legacy' = legacy, i = Steps[stage], Closes(ok /\ good),
         NEW C, C = Earlier[stage] \cup {stage}
  PROVE  Told(C)'
<1>1. /\ ok /\ good => AllRight(stage)
      /\ clean' /\ ~(ok /\ good) => ~AllRight(stage)
  BY Judged DEF AllRight
<1>2. \A c : AllRight(c)' <=> AllRight(c)
  BY AllRightKept
<1>3. stage \notin Earlier[stage] /\ alarms \subseteq Earlier[stage] /\ Over = Earlier[stage]
  BY StepsAre DEF Checks, Stands, Over
<1>4. alarms' = IF ok /\ good THEN alarms ELSE alarms \cup {stage}
  BY DEF Closes
<1>5. ASSUME NEW c \in Earlier[stage]
      PROVE  /\ c \in alarms' \/ AllRight(c)'
             /\ clean' => (c \in alarms' => ~AllRight(c)')
  <2>1. c \in Over /\ c # stage
    BY <1>3
  <2>2. c \in alarms' <=> c \in alarms
    BY <1>4, <2>1
  <2>3. QED
    BY <1>2, <2>1, <2>2 DEF Told
<1>6. PICK c : c = stage
  OBVIOUS
<1>7. /\ c \in alarms' \/ AllRight(c)'
      /\ clean' => (c \in alarms' => ~AllRight(c)')
  <2>1. c \in alarms' <=> ~(ok /\ good)
    BY <1>3, <1>4, <1>6
  <2>2. AllRight(c) <=> AllRight(stage)
    BY <1>6
  <2>3. QED
    BY <1>1, <1>2, <2>1, <2>2
<1>8. \A x \in C : x = c \/ x \in Earlier[stage]
  BY <1>6
<1>9. QED
  BY <1>5, <1>7, <1>8 DEF Told

\* The first step of a check.
LEMMA CheckBegins ==
  ASSUME stage' \in Checks, i' = 1, seen' = <<>>, ok' = TRUE, Told(Over)'
  PROVE  CheckIInv'
<1>1. \A n \in 1..(i' - 1) : FALSE
  OBVIOUS
<1>2. Tells'
  BY <1>1 DEF Tells
<1>3. DOMAIN seen' = {}
  OBVIOUS
<1>4. QED
  BY <1>2, <1>3 DEF CheckIInv, SeenRight

LEMMA CheckEnds ==
  ASSUME NEW C, Told(C)', stage' \notin Checks, Over' \subseteq C
  PROVE  CheckIInv'
<1>1. Told(Over)'
  BY DEF Told
<1>2. stage' \notin DOMAIN Questioned'
  BY DEF Questioned, Checks
<1>3. QED
  BY <1>1, <1>2 DEF CheckIInv, Checks

\* Outside of the checks, before their end.
LEMMA CheckQuiet ==
  ASSUME stage' \notin Checks,
         "check" \in flags' => /\ stage' # "stats"
                              /\ \/ "benchmark" \in flags'
                                 \/ exit' # "ok" /\ ~(exit' = "failed" /\ clean')
  PROVE  CheckIInv'
<1>1. Over' = {}
  BY DEF Over, Checks
<1>2. PICK C : C = {}
  OBVIOUS
<1>3. Told(C)'
  BY <1>2 DEF Told
<1>4. QED
  BY <1>1, <1>2, <1>3, CheckEnds

\* A call of a check, while every answer is the run's own.
LEMMA SureOf ==
  ASSUME LoadIInv, PlaceIInv, BoundIInv, CheckIInv, stage \in Checks, Keeps,
         NEW own, NEW r, Asks(own, r) \/ Misses(r), Sure'
  PROVE  /\ Told(Over) /\ Tells /\ (stage \in DOMAIN Questioned => SeenRight)
         /\ ~Fails(r) => r = own
         /\ clean' => clean /\ r = own
         /\ legacy' = legacy
<1>1. legacy' = legacy /\ alone' = alone
  BY DEF Keeps
<1>2. stage \notin {"off", "connect"}
  BY DEF Checks
<1>3. alone' /\ ~lost' /\ (legacy' => clean')
  BY DEF Sure
<1>4. ~lost /\ (legacy => clean) /\ (~Fails(r) => r = own)
  BY <1>1, <1>2, <1>3, SureCall
<1>5. clean' => clean /\ r = own
  BY <1>2, CallKeeps
<1>6. Sure
  BY <1>1, <1>3, <1>4 DEF Sure
<1>7. QED
  BY <1>1, <1>4, <1>5, <1>6 DEF CheckIInv

LEMMA CountsCheck ==
  ASSUME LoadIInv, PlaceIInv, BoundIInv, CheckIInv, CheckTableCounts, Sure'
  PROVE  CheckIInv'
<1>0. Stands
  BY DEF PlaceIInv
<1>1. stage = "count" /\ exit = "running" /\ Keeps /\ UNCHANGED dbVars /\ stage \in Checks
  BY <1>0, CountMoves DEF Checks
<1>2. PICK r : /\ LET own == OwnCount(CheckOrder[i]) IN Asks(own, r) \/ Misses(r)
               /\ LET good == ok /\ CountOk(r)
                  IN  IF i < 9
                      THEN Goes(i + 1, good, <<>>)
                      ELSE i = 9 /\ Closes(good) /\ GoesTo("districts")
  BY <1>0, CountMoves
<1> DEFINE own == OwnCount(CheckOrder[i])
           good == CountOk(r)
<1>3. Asks(own, r) \/ Misses(r)
  BY <1>2
<1>4. IF i < 9 THEN Goes(i + 1, ok /\ good, <<>>)
               ELSE i = 9 /\ Closes(ok /\ good) /\ GoesTo("districts")
  BY <1>2
<1>5. good \in BOOLEAN
  BY DEF CountOk, Fails, HasRow
<1>6. i \in 1..9 /\ Steps[stage] = 9
  BY <1>0, <1>1, StepsAre DEF Stands
<1>7. own = OwnCount(CheckOrder[i])
  OBVIOUS
<1>8. Right(stage, i) <=> CountRight(CheckOrder[i])
  BY <1>1 DEF Right
<1>9. good <=> CountOk(r)
  OBVIOUS
<1> HIDE DEF own, good
<1>10. /\ Told(Over) /\ Tells
       /\ ~Fails(r) => r = own
       /\ clean' => clean /\ r = own
       /\ legacy' = legacy
  BY <1>1, <1>3, SureOf
<1>11. /\ good => Right(stage, i)
       /\ clean' => (good <=> Right(stage, i))
  BY <1>6, <1>7, <1>8, <1>9, <1>10, CountIsRight
<1>12. CASE i < 9
  <2>1. Goes(i + 1, ok /\ good, <<>>)
    BY <1>4, <1>12
  <2>2. QED
    BY <1>0, <1>1, <1>5, <1>10, <1>11, <2>1, JudgedGoes
<1>13. CASE ~(i < 9)
  <2>1. i = Steps[stage] /\ Closes(ok /\ good)
    BY <1>4, <1>6, <1>13
  <2>2. stage' = "districts" /\ i' = 1 /\ seen' = <<>> /\ ok' = TRUE
    BY <1>4, <1>13 DEF GoesTo
  <2>3. PICK C : C = Earlier[stage] \cup {stage}
    OBVIOUS
  <2>4. Told(C)'
    BY <1>0, <1>1, <1>5, <1>10, <1>11, <2>1, <2>3, JudgedCloses
  <2>5. Over' = C /\ stage' \in Checks
    BY <1>1, <2>2, <2>3 DEF Over, Checks, Earlier
  <2>6. Told(Over)'
    BY <2>4, <2>5 DEF Told
  <2>7. QED
    BY <2>2, <2>5, <2>6, CheckBegins
<1>14. QED
  BY <1>12, <1>13

\* The answers of a district that are all there.
LEMMA DistrictIs ==
  ASSUME Stands, stage \in {"districts", "queue", "lines"}, SeenRight,
         NEW r, HasRow(r), r = Asked, Len(seen) + 1 = Questioned[stage]
  PROVE  Consistent(Append(seen, r.n)) <=> Right(stage, i)
<1> DEFINE a == Append(seen, r.n)
           q == Questions(i)[stage]
<1>1. IsSeq(seen)
  BY DEF Stands
<1>2. \A n \in 1..Questioned[stage] : HasRow(q[n]) /\ a[n] = q[n].n
  <2>1. /\ Len(seen) \in Nat /\ DOMAIN seen = 1..Len(seen)
        /\ \A n \in 1..Len(seen) : a[n] = seen[n]
        /\ a[Len(seen) + 1] = r.n
    BY <1>1, SeqOps
  <2>2. \A n \in 1..Len(seen) : HasRow(q[n]) /\ seen[n] = q[n].n
    BY <2>1 DEF SeenRight
  <2>3. r = q[Len(seen) + 1]
    BY DEF Asked
  <2> HIDE DEF a, q
  <2>4. \A n \in 1..Questioned[stage] : n \in 1..Len(seen) \/ n = Len(seen) + 1
    BY <2>1
  <2>5. QED
    BY <2>1, <2>2, <2>3, <2>4
<1>3. Right(stage, i) <=> DistrictRight(stage, i)
  BY DEF Right
<1> HIDE DEF a
<1>4. Consistent(a)
        <=> \/ stage = "districts" /\ a[1] - 1 = a[2] /\ a[1] - 1 = a[3]
            \/ stage = "queue" /\ a[1] = a[2] - a[3] + 1
            \/ stage = "lines" /\ a[1] = a[2]
  BY DEF Consistent
<1>5. CASE stage = "districts"
  <2>1. \A n \in {1, 2, 3} : HasRow(q[n]) /\ a[n] = q[n].n
    BY <1>2, <1>5, StepsAre
  <2>2. DistrictRight(stage, i) <=> q[1].n - 1 = q[2].n /\ q[1].n - 1 = q[3].n
    BY <1>5, <2>1, RightIs
  <2>3. QED
    BY <1>3, <1>4, <1>5, <2>1, <2>2 DEF a
<1>6. CASE stage = "queue"
  <2>1. \A n \in {1, 2, 3} : HasRow(q[n]) /\ a[n] = q[n].n
    BY <1>2, <1>6, StepsAre
  <2>2. DistrictRight(stage, i) <=> q[1].n = q[2].n - q[3].n + 1
    BY <1>6, <2>1, RightIs
  <2>3. QED
    BY <1>3, <1>4, <1>6, <2>1, <2>2 DEF a
<1>7. CASE stage = "lines"
  <2>1. \A n \in {1, 2} : HasRow(q[n]) /\ a[n] = q[n].n
    BY <1>2, <1>7, StepsAre
  <2>2. DistrictRight(stage, i) <=> q[1].n = q[2].n
    BY <1>7, <2>1, RightIs
  <2>3. QED
    BY <1>3, <1>4, <1>7, <2>1, <2>2 DEF a
<1>8. QED
  BY <1>5, <1>6, <1>7

\* One more district, and with the last one of the last check all of them.
LEMMA JudgedDistrict ==
  ASSUME Stands, stage \in {"districts", "queue", "lines"}, exit = "running", Keeps,
         Told(Over), Tells, NEW good \in BOOLEAN, clean' => clean,
         good => Right(stage, i), clean' => (good <=> Right(stage, i)),
         UNCHANGED dbVars, legacy' = legacy, Judges(good)
  PROVE  CheckIInv' /\ (stage' \notin Checks => Told(Checks)')
<1>1. stage \in Checks
  BY DEF Checks
<1>2. \/ i < Steps[stage] /\ Goes(i + 1, ok /\ good, <<>>)
      \/ i = Steps[stage] /\ Closes(ok /\ good) /\ stage = "districts" /\ GoesTo("queue")
      \/ i = Steps[stage] /\ Closes(ok /\ good) /\ stage = "queue" /\ GoesTo("lines")
      \/ /\ i = Steps[stage] /\ Closes(ok /\ good) /\ stage = "lines"
         /\ \/ alarms' = {} /\ Follows(2)
            \/ alarms' # {} /\ Ends("failed")
  BY JudgeMoves
<1>3. CASE Goes(i + 1, ok /\ good, <<>>)
  <2>1. stage' \in Checks
    BY <1>1, <1>3 DEF Goes
  <2>2. CheckIInv'
    BY <1>1, <1>3, JudgedGoes
  <2>3. QED
    BY <2>1, <2>2
<1>4. PICK C : C = Earlier[stage] \cup {stage}
  OBVIOUS
<1>5. ASSUME i = Steps[stage], Closes(ok /\ good)
      PROVE  Told(C)'
  BY <1>1, <1>4, <1>5, JudgedCloses
<1>6. ASSUME i = Steps[stage], Closes(ok /\ good),
             \/ stage = "districts" /\ GoesTo("queue")
             \/ stage = "queue" /\ GoesTo("lines")
      PROVE  CheckIInv' /\ stage' \in Checks
  <2>1. /\ i' = 1 /\ seen' = <<>> /\ ok' = TRUE
        /\ \/ stage = "districts" /\ stage' = "queue"
           \/ stage = "queue" /\ stage' = "lines"
    BY <1>6 DEF GoesTo
  <2>2. Over' = C /\ stage' \in Checks
    BY <1>4, <2>1 DEF Over, Checks, Earlier
  <2>3. Told(Over)'
    BY <1>5, <1>6, <2>2 DEF Told
  <2>4. QED
    BY <2>1, <2>2, <2>3, CheckBegins
<1>7. ASSUME i = Steps[stage], Closes(ok /\ good), stage = "lines",
             Follows(2) \/ Ends("failed")
      PROVE  CheckIInv' /\ Told(Checks)'
  <2>1. Follows(2) => stage' \in {"stats", "benchmark", "off", "create"}
    <3>1. Follows(2) => stage' \in {"create", "count", "stats", "benchmark", "off"} /\ stage' # "count"
      BY Follower
    <3>2. QED
      BY <3>1
  <2>2. stage' \notin Checks
    BY <1>7, <2>1 DEF Ends, Checks
  <2>3. C = Checks
    BY <1>4, <1>7 DEF Earlier, Checks
  <2>4. Over' \subseteq C
    BY <2>2, <2>3 DEF Over, Checks
  <2>5. Told(C)'
    BY <1>5, <1>7
  <2>6. Told(Checks)'
    BY <2>3, <2>5 DEF Told, Checks
  <2>7. QED
    BY <2>2, <2>4, <2>5, <2>6, CheckEnds
<1>8. QED
  BY <1>2, <1>3, <1>6, <1>7

LEMMA DistrictsCheck ==
  ASSUME LoadIInv, PlaceIInv, BoundIInv, CheckIInv, CheckDistricts, Sure'
  PROVE  CheckIInv' /\ (stage' \notin Checks => Told(Checks)')
<1>0. Stands
  BY DEF PlaceIInv
<1>1. /\ stage \in {"districts", "queue", "lines"} /\ exit = "running" /\ UNCHANGED dbVars
      /\ i \in Districts
  BY <1>0, DistrictMoves
<1>2. Keeps
  BY <1>0, CallsAre DEF Calls
<1>3. stage \in Checks /\ stage \in DOMAIN Questioned
  BY <1>1, StepsAre DEF Checks
<1>4. PICK r : /\ Asks(Asked, r) \/ Misses(r)
               /\ \/ ~HasRow(r) /\ Judges(FALSE)
                  \/ /\ HasRow(r) /\ Len(seen) + 1 = Questioned[stage]
                     /\ Judges(Consistent(Append(seen, r.n)))
                  \/ /\ HasRow(r) /\ Len(seen) + 1 < Questioned[stage]
                     /\ Goes(i, ok, Append(seen, r.n))
  BY <1>0, DistrictMoves
<1>5. /\ Told(Over) /\ Tells /\ SeenRight
      /\ ~Fails(r) => r = Asked
      /\ clean' => clean /\ r = Asked
      /\ legacy' = legacy
  BY <1>2, <1>3, <1>4, SureOf
<1>6. HasRow(r) => r = Asked
  BY <1>5 DEF HasRow, Fails
<1>7. CASE ~HasRow(r) /\ Judges(FALSE)
  <2>1. clean' => ~Right(stage, i)
    <3>1. Len(seen) \in Nat /\ Len(seen) + 1 <= Questioned[stage] /\ Questioned[stage] \in Nat
      BY <1>0, <1>3, SeqOps, StepsAre DEF Stands
    <3>2. Len(seen) + 1 \in 1..Questioned[stage]
      BY <3>1
    <3>3. clean' => ~HasRow(Questions(i)[stage][Len(seen) + 1])
      BY <1>5, <1>7 DEF Asked
    <3>4. clean' => ~DistrictRight(stage, i)
      BY <3>2, <3>3 DEF DistrictRight
    <3>5. QED
      BY <1>1, <3>4 DEF Right
  <2>2. PICK good \in BOOLEAN : good = FALSE
    OBVIOUS
  <2>3. Judges(good)
    BY <1>7, <2>2
  <2>4. QED
    BY <1>0, <1>1, <1>2, <1>5, <2>1, <2>2, <2>3, JudgedDistrict
<1>8. CASE HasRow(r) /\ Len(seen) + 1 = Questioned[stage] /\ Judges(Consistent(Append(seen, r.n)))
  <2> DEFINE good == Consistent(Append(seen, r.n))
  <2>1. good <=> Right(stage, i)
    BY <1>0, <1>1, <1>5, <1>6, <1>8, DistrictIs
  <2>2. good \in BOOLEAN
    BY <1>1 DEF Consistent
  <2>3. Judges(good)
    BY <1>8
  <2> HIDE DEF good
  <2>4. QED
    BY <1>0, <1>1, <1>2, <1>5, <2>1, <2>2, <2>3, JudgedDistrict
<1>9. CASE HasRow(r) /\ Len(seen) + 1 < Questioned[stage] /\ Goes(i, ok, Append(seen, r.n))
  <2>1. /\ i' = i /\ seen' = Append(seen, r.n) /\ ok' = ok /\ stage' = stage /\ alarms' = alarms
    BY <1>9 DEF Goes
  <2>2. PICK check, d : check = stage /\ d = i
    OBVIOUS
  <2>3. Questions(d)' = Questions(d) /\ \A n : Right(check, n)' <=> Right(check, n)
    BY <1>1, <1>5, QuestionsKept, RightKept
  <2>4. Tells'
    <3>1. \A n : Right(stage, n)' <=> Right(stage, n)
      BY <2>1, <2>2, <2>3 DEF Right
    <3>2. QED
      BY <1>5, <2>1, <3>1 DEF Tells
  <2>5. Told(Over)'
    <3>1. PICK C : C = Over
      OBVIOUS
    <3>2. Told(C)'
      BY <1>1, <1>5, <2>1, <3>1, ToldKept
    <3>3. Over' = Over
      BY <1>3, <2>1 DEF Over, Earlier
    <3>4. QED
      BY <3>1, <3>2, <3>3 DEF Told
  <2>6. SeenRight'
    <3>1. /\ Len(seen) \in Nat /\ DOMAIN seen = 1..Len(seen)
          /\ IsSeq(seen') /\ Len(seen') = Len(seen) + 1
          /\ \A n \in 1..Len(seen) : seen'[n] = seen[n]
          /\ seen'[Len(seen) + 1] = r.n
      BY <1>0, <2>1, SeqOps DEF Stands
    <3>2. DOMAIN seen' = 1..(Len(seen) + 1)
      BY <3>1, SeqOps
    <3> DEFINE q == Questions(d)[check]
    <3>3. \A n \in 1..Len(seen) : HasRow(q[n]) /\ seen[n] = q[n].n
      BY <1>5, <2>2, <3>1 DEF SeenRight
    <3>4. HasRow(q[Len(seen) + 1]) /\ r.n = q[Len(seen) + 1].n
      BY <1>6, <1>9, <2>2 DEF Asked
    <3>5. Questions(i)'[stage'] = q
      BY <2>1, <2>2, <2>3
    <3> HIDE DEF q
    <3>6. \A n \in 1..(Len(seen) + 1) : n \in 1..Len(seen) \/ n = Len(seen) + 1
      BY <3>1
    <3>7. \A n \in DOMAIN seen' : HasRow(q[n]) /\ seen'[n] = q[n].n
      BY <3>1, <3>2, <3>3, <3>4, <3>6
    <3>8. QED
      BY <3>5, <3>7 DEF SeenRight, HasRow
  <2>7. stage' \in Checks
    BY <1>3, <2>1
  <2>8. QED
    BY <2>4, <2>5, <2>6, <2>7 DEF CheckIInv
<1>10. QED
  BY <1>4, <1>7, <1>8, <1>9

LEMMA CheckStep ==
  ASSUME LoadIInv, PlaceIInv, BoundIInv, CleanIInv, CheckIInv, FailIInv, [Next]_vars
  PROVE  CheckIInv'
<1> SUFFICES ASSUME Sure'
             PROVE  CheckIInv'
  BY DEF CheckIInv
<1>0. Stands
  BY DEF PlaceIInv
<1>a. exit' = "failed" /\ clean' => alarms' # {}
  BY FailStep
<1>1. CASE CreateTable \/ CreateIndex \/ Load
  <2>1. /\ stage \in {"create", "index", "load"} /\ exit = "running" /\ alarms' = alarms
        /\ \/ Ends("failed")
           \/ stage' = stage /\ exit' = "running"
           \/ (GoesTo("index") \/ GoesTo("load") \/ GoesTo("verify")) /\ exit' = "running"
    BY <1>0, <1>1, CreateMoves, IndexMoves, LoadMoves
  <2>2. alarms' = {}
    BY <1>0, <2>1, NoAlarms DEF Checks
  <2>3. /\ stage' \in {"off", "create", "index", "load", "verify"}
        /\ exit' \in {"failed", "running"}
    BY <2>1 DEF Ends, GoesTo
  <2>4. stage' \notin Checks
    BY <2>3 DEF Checks
  <2>5. QED
    BY <1>a, <2>2, <2>3, <2>4, CheckQuiet
<1>2. CASE VerifyCounts \/ Ping
  <2>1. /\ stage \in {"verify", "ping"} /\ exit = "running" /\ flags' = flags
        /\ \/ stage' = stage /\ exit' = "running"
           \/ \E n \in 0..1 : Follows(n)
    BY <1>0, <1>2, VerifyMoves, PingMoves DEF Keeps
  <2>2. CASE stage' = stage /\ exit' = "running"
    <3>1. stage' \notin Checks
      BY <2>1, <2>2 DEF Checks
    <3>2. QED
      BY <2>1, <2>2, <3>1, CheckQuiet
  <2>3. CASE \E n \in 0..1 : Follows(n)
    <3>1. PICK n \in 0..1 : Follows(n)
      BY <2>3
    <3>2. n \in 0..3 /\ n <= 1
      OBVIOUS
    <3>3. /\ i' = 1 /\ seen' = <<>> /\ ok' = TRUE
          /\ stage' \in {"create", "count", "stats", "benchmark", "off"}
          /\ exit' = IF stage' = "off" THEN "ok" ELSE "running"
          /\ "check" \in flags => stage' \in {"create", "count"}
      BY <1>0, <2>1, <3>1, <3>2, Follower
    <3>4. CASE stage' = "count"
      <4>1. Over' = {} /\ stage' \in Checks
        BY <3>4 DEF Over, Checks, Earlier
      <4>2. Told(Over)'
        BY <4>1 DEF Told
      <4>3. QED
        BY <3>3, <4>1, <4>2, CheckBegins
    <3>5. CASE stage' # "count"
      <4>1. stage' \notin Checks
        BY <3>3, <3>5 DEF Checks
      <4>2. "check" \in flags' => stage' # "stats" /\ exit' = "running"
        BY <2>1, <3>3, <3>5
      <4>3. QED
        BY <4>1, <4>2, CheckQuiet
    <3>6. QED
      BY <3>4, <3>5
  <2>4. QED
    BY <2>1, <2>2, <2>3
<1>3. CASE ShowStats
  <2>1. /\ stage = "stats" /\ exit = "running" /\ alarms' = alarms /\ Keeps
        /\ UNCHANGED dbVars
        /\ \/ stage' = "stats" /\ exit' = "running"
           \/ Follows(3)
    BY <1>0, <1>3, StatsMoves
  <2>2. PICK own, r : Asks(own, r) \/ Misses(r)
    BY <1>3 DEF ShowStats
  <2>3. legacy' = legacy /\ alone' = alone /\ flags' = flags
    BY <2>1 DEF Keeps
  <2>4. alone' /\ ~lost' /\ (legacy' => clean')
    BY DEF Sure
  <2>5. ~lost /\ (legacy => clean)
    BY <2>1, <2>2, <2>3, <2>4, SureCall
  <2>6. clean' => clean
    BY <2>2, CallKeeps
  <2>7. Told(Over)
    BY <2>3, <2>4, <2>5 DEF CheckIInv, Sure
  <2>8. PICK C : C = Over
    OBVIOUS
  <2>9. Told(C)'
    BY <2>1, <2>3, <2>6, <2>7, <2>8, ToldKept
  <2>10. stage' \notin Checks
    <3>1. Follows(3) => stage' # "count" /\ stage' \in {"create", "count", "stats", "benchmark", "off"}
      BY <1>0, <2>1, Follower
    <3>2. QED
      BY <2>1, <3>1 DEF Checks
  <2>11. Over' \subseteq C
    <3>1. stage \notin Checks /\ (C = IF "check" \in flags THEN Checks ELSE {})
      BY <2>1, <2>8 DEF Over, Checks
    <3>2. Checks' = Checks
      BY DEF Checks
    <3>3. QED
      BY <2>3, <2>10, <3>1, <3>2 DEF Over
  <2>12. QED
    BY <2>9, <2>10, <2>11, CheckEnds
<1>4. CASE CheckTableCounts
  BY <1>4, CountsCheck
<1>5. CASE CheckDistricts
  BY <1>5, DistrictsCheck
<1>6. CASE Starts
  <2>1. stage' = "connect" /\ exit' = "running"
    BY <1>6 DEF Starts
  <2>2. stage' \notin Checks
    BY <2>1 DEF Checks
  <2>3. QED
    BY <2>1, <2>2, CheckQuiet
<1>7. CASE Connects
  <2>1. stage = "connect" /\ alarms' = alarms /\ (GoesTo("ping") \/ Ends("failed"))
    BY <1>7 DEF Connects
  <2>2. exit = "running"
    BY <1>0, <2>1 DEF Stands
  <2>3. alarms' = {}
    BY <1>0, <2>1, <2>2, NoAlarms DEF Checks
  <2>4. stage' \in {"ping", "off"} /\ exit' \in {"running", "failed"}
    BY <2>1, <2>2 DEF GoesTo, Ends
  <2>5. stage' \notin Checks
    BY <2>4 DEF Checks
  <2>6. QED
    BY <1>a, <2>3, <2>4, <2>5, CheckQuiet
<1>8. CASE BenchmarkEnds
  <2>1. stage = "benchmark" /\ stage' = "off" /\ Keeps
    BY <1>8 DEF BenchmarkEnds, Ends
  <2>2. "benchmark" \in flags'
    BY <1>0, <2>1 DEF Stands, Keeps
  <2>3. stage' \notin Checks
    BY <2>1 DEF Checks
  <2>4. QED
    BY <2>1, <2>2, <2>3, CheckQuiet
<1>9. CASE Killed
  <2>1. stage' = "off" /\ exit' = "killed"
    BY <1>9 DEF Killed, Ends
  <2>2. stage' \notin Checks
    BY <2>1 DEF Checks
  <2>3. QED
    BY <2>1, <2>2, CheckQuiet
<1>10. CASE Transacts
  <2>1. alone' = (alone /\ stage = "benchmark") /\ stage' = stage /\ exit' = exit
    BY <1>10 DEF Transacts, placeVars
  <2>2. stage = "benchmark"
    BY <2>1 DEF Sure
  <2>3. exit' = "running" /\ stage' = "benchmark"
    BY <1>0, <2>1, <2>2 DEF Stands
  <2>4. stage' \notin Checks
    BY <2>3 DEF Checks
  <2>5. QED
    BY <2>3, <2>4, CheckQuiet
<1>11. CASE Stops \/ UNCHANGED vars
  <2>1. /\ UNCHANGED dbVars /\ UNCHANGED <<legacy, lost, clean, alone, alarms, flags>>
        /\ UNCHANGED <<stage, i, seen, ok, exit>>
    BY <1>11 DEF Stops, vars, connVars, mainVars, placeVars
  <2>2. Sure
    BY <2>1 DEF Sure
  <2>3. PICK C, check, d : C = Over /\ check = stage /\ d = i
    OBVIOUS
  <2>4. Told(C)'
    <3>1. Told(C)
      BY <2>2, <2>3 DEF CheckIInv
    <3>2. QED
      BY <2>1, <3>1, ToldKept
  <2>5. Over' = Over
    BY <2>1 DEF Over, Checks, Earlier
  <2>6. Told(Over)'
    BY <2>3, <2>4, <2>5 DEF Told
  <2>7. stage' \in Checks => Tells'
    <3>1. stage \in Checks => Tells
      BY <2>2 DEF CheckIInv
    <3>2. \A n : Right(check, n)' <=> Right(check, n)
      BY <2>1, RightKept
    <3>3. \A n : Right(stage, n)' <=> Right(stage, n)
      BY <2>1, <2>3, <3>2 DEF Right
    <3>4. Tells => Tells'
      BY <2>1, <3>3 DEF Tells
    <3>5. QED
      BY <2>1, <3>1, <3>4 DEF Checks
  <2>8. stage' \in DOMAIN Questioned' => SeenRight'
    <3>1. stage \in DOMAIN Questioned => SeenRight
      BY <2>2 DEF CheckIInv
    <3>2. Questions(d)' = Questions(d)
      BY <2>1, QuestionsKept
    <3>3. Questions(i)' = Questions(i)
      BY <2>1, <2>3, <3>2
    <3>4. SeenRight => SeenRight'
      BY <2>1, <3>3 DEF SeenRight, HasRow
    <3>5. Questioned' = Questioned
      BY DEF Questioned
    <3>6. QED
      BY <2>1, <3>1, <3>4, <3>5
  <2>9. QED
    BY <2>6, <2>7, <2>8 DEF CheckIInv
<1>12. QED
  BY <1>1, <1>2, <1>3, <1>4, <1>5, <1>6, <1>7, <1>8, <1>9, <1>10, <1>11
     DEF Next, LoaderNext, CheckerNext

---------------------------------------------------------------------------

IInv ==
  /\ LoadIInv /\ DbIInv /\ PlaceIInv /\ BoundIInv
  /\ CleanIInv /\ CheckIInv /\ FailIInv

LEMMA DbBegins == ASSUME Init PROVE DbIInv
<1>1. /\ created = {} /\ copies = [t \in Tables |-> 0] /\ txns = 0
      /\ book = [d \in Districts |-> Loaded]
      /\ delivered = [d \in Districts |-> Len(Loaded) - Undelivered[d]]
      /\ paid = [k \in Districts \X Customers |-> [sum |-> 0, number |-> 0]]
  BY DEF Init, Book!Init
<1>2. /\ copies \in [Tables -> Nat] /\ \A t \in Tables : ~(copies[t] > 0)
  BY <1>1
<1>3. ASSUME NEW d \in Districts
      PROVE  /\ book[d] = Loaded /\ book[d] \in Seq(Order) /\ Number(d) = Len(Loaded)
             /\ delivered[d] = Len(Loaded) - Undelivered[d] /\ delivered[d] \in 0..Len(Loaded)
  <2>1. Loaded \in Seq(Order)
    BY StageAssumption DEF Order
  <2>2. Undelivered[d] \in 0..Len(Loaded) /\ Len(Loaded) \in Nat
    BY Constants
  <2>3. book[d] = Loaded /\ delivered[d] = Len(Loaded) - Undelivered[d]
    BY <1>1
  <2>4. QED
    BY <2>1, <2>2, <2>3 DEF Number
<1>4. ASSUME NEW k \in Districts \X Customers
      PROVE  paid[k].number = 0
  BY <1>1
<1>5. Untouched
  BY <1>3, <1>4 DEF Untouched
<1>6. delivered \in [Districts -> Nat]
  <2>1. \A d \in Districts : Len(Loaded) - Undelivered[d] \in Nat
    BY <1>3
  <2>2. QED
    BY <1>1, <2>1
<1>7. ASSUME NEW d \in Districts
      PROVE  delivered[d] \in (Len(Loaded) - Undelivered[d])..Number(d)
  <2>1. Undelivered[d] \in 0..Len(Loaded) /\ Len(Loaded) \in Nat
    BY Constants
  <2>2. QED
    BY <1>3, <2>1
<1>8. DOMAIN book = Districts /\ DOMAIN paid = Districts \X Customers
  BY <1>1
<1>9. ASSUME NEW d \in Districts
      PROVE  /\ book[d] \in Seq(Order) /\ Number(d) >= Len(Loaded)
             /\ \A o \in DOMAIN Loaded : book[d][o] = Loaded[o]
  <2>1. Len(Loaded) \in Nat
    BY Constants
  <2>2. QED
    BY <1>3, <2>1
<1>10. \A k \in Districts \X Customers : paid[k].number \in Nat
  BY <1>4
<1>11. created \subseteq Tables /\ txns \in Nat /\ ~(txns > 0)
  BY <1>1
<1>12. QED
  BY <1>1, <1>2, <1>5, <1>6, <1>7, <1>8, <1>9, <1>10, <1>11 DEF DbIInv

LEMMA IInvBegins == Init => IInv
<1> SUFFICES ASSUME Init
             PROVE  IInv
  OBVIOUS
<1>1. LoadIInv
  BY DEF Init, LoadIInv, Later
<1>2. DbIInv
  BY DbBegins
<1>3. /\ stage = "off" /\ exit = "ok" /\ i = 1 /\ seen = <<>> /\ ok = TRUE /\ alarms = {}
      /\ flags = {} /\ link = "down" /\ late = <<>> /\ faults = 0 /\ runs = 0
      /\ copies = [t \in Tables |-> 0] /\ lost = FALSE
  BY DEF Init
<1>4. legacy \in BOOLEAN /\ lost \in BOOLEAN /\ clean \in BOOLEAN /\ alone \in BOOLEAN
      /\ ok \in BOOLEAN
  BY Zenon DEF Init
<1>5. "off" \notin DOMAIN Steps /\ "off" \notin DOMAIN Questioned /\ "off" \notin Checks
  BY StepsAre DEF Checks
<1>6. Stands
  BY <1>3, <1>4, <1>5, EmptySeq DEF Stands
<1>7. Linked
  BY <1>3, <1>4 DEF Linked
<1>8. BoundIInv
  <2>1. MaxFaults \in Nat /\ MaxRuns \in Nat
    BY StageAssumption
  <2>2. faults \in 0..MaxFaults /\ runs \in 0..MaxRuns /\ IsSeq(late) /\ Len(late) <= faults
    BY <1>3, <2>1, EmptySeq
  <2>3. \A t \in Tables : copies[t] <= runs
    BY <1>3
  <2>4. QED
    BY <1>3, <2>2, <2>3 DEF BoundIInv
<1>9. CleanIInv
  BY <1>3 DEF CleanIInv
<1>10. CheckIInv
  <2>1. Over = {}
    BY <1>3, <1>5 DEF Over
  <2>2. QED
    BY <1>3, <1>5, <2>1 DEF CheckIInv, Told
<1>11. FailIInv
  BY <1>3 DEF FailIInv
<1>12. QED
  BY <1>1, <1>2, <1>6, <1>7, <1>8, <1>9, <1>10, <1>11 DEF IInv, PlaceIInv

LEMMA IInvKept == IInv /\ [Next]_vars => IInv'
<1> SUFFICES ASSUME IInv, [Next]_vars
             PROVE  IInv'
  OBVIOUS
<1>1. LoadIInv /\ DbIInv /\ PlaceIInv /\ BoundIInv /\ CleanIInv /\ CheckIInv /\ FailIInv
  BY DEF IInv
<1>2. DbIInv'
  BY <1>1, DbStep
<1>3. PlaceIInv'
  BY <1>1, StandsStep, LinkedStep DEF PlaceIInv
<1>4. BoundIInv'
  BY <1>1, BoundStep
<1>5. CleanIInv'
  <2>1. clean' => CleanFacts'
    BY <1>1, <1>2, CleanStep
  <2>2. QED
    BY <2>1 DEF CleanIInv, CleanFacts
<1>6. CheckIInv'
  BY <1>1, CheckStep
<1>7. FailIInv'
  BY <1>1, FailStep DEF FailIInv
<1>8. QED
  BY <1>1, <1>2, <1>3, <1>4, <1>5, <1>6, <1>7, LoadStep DEF IInv

---------------------------------------------------------------------------

LEMMA TypesFollow == IInv => TypeOK
<1> SUFFICES ASSUME IInv
             PROVE  TypeOK
  OBVIOUS
<1>1. DbIInv /\ Stands /\ Linked /\ BoundIInv
  BY DEF IInv, PlaceIInv
<1>2. copies \in [Tables -> 0..MaxRuns]
  <2>1. copies \in [Tables -> Nat] /\ runs \in 0..MaxRuns /\ MaxRuns \in Nat
    BY <1>1, StageAssumption DEF DbIInv, BoundIInv
  <2>2. \A t \in Tables : copies[t] \in 0..MaxRuns
    BY <1>1, <2>1 DEF BoundIInv
  <2>3. QED
    BY <2>1, <2>2
<1>3. Len(late) <= MaxFaults
  <2>1. Len(late) \in Nat /\ Len(late) <= faults /\ faults \in 0..MaxFaults /\ MaxFaults \in Nat
    BY <1>1, SeqOps, StageAssumption DEF BoundIInv
  <2>2. QED
    BY <2>1
<1>4. Len(seen) <= 2
  <2>1. CASE stage \in DOMAIN Questioned
    <3>1. Len(seen) \in Nat /\ Len(seen) < Questioned[stage] /\ Questioned[stage] \in {2, 3}
      BY <1>1, <2>1, SeqOps, StepsAre DEF Stands
    <3>2. QED
      BY <3>1
  <2>2. CASE stage \notin DOMAIN Questioned
    BY <1>1, <2>2, EmptySeq DEF Stands
  <2>3. QED
    BY <2>1, <2>2
<1>5. alarms \subseteq {"count", "districts", "queue", "lines"}
  <2>1. stage \in Checks => Earlier[stage] \subseteq Checks
    BY StepsAre DEF Checks
  <2>2. QED
    BY <1>1, <2>1 DEF Stands, Checks
<1>6. {legacy, lost, clean, alone, ok} \subseteq BOOLEAN
  <2>1. {legacy, lost, clean, alone} \subseteq BOOLEAN /\ ok \in BOOLEAN
    BY <1>1 DEF Linked, Stands
  <2>2. QED
    BY <2>1, Zenon
<1>7. exit \in {"ok", "failed", "killed", "running"} /\ (stage = "off") = (exit # "running")
  BY <1>1 DEF Stands
<1>8. created \subseteq Tables /\ \A t \in Tables : copies[t] > 0 => t \in created
  BY <1>1 DEF DbIInv
<1>9. link \in {"up", "down"}
  BY <1>1 DEF BoundIInv
<1>10. QED
  BY <1>2, <1>3, <1>4, <1>5, <1>6, <1>7, <1>8, <1>9 DEF TypeOK

LEMMA PassesFollow == IInv => PassMeansPristine
<1> SUFFICES ASSUME IInv,
                    exit = "ok", "check" \in flags, "benchmark" \notin flags,
                    alone, ~lost, ~legacy
             PROVE  Pristine
  BY DEF PassMeansPristine
<1>1. DbIInv /\ Stands /\ CheckIInv
  BY DEF IInv, PlaceIInv
<1>2. stage = "off" /\ alarms = {}
  BY <1>1 DEF Stands, Checks
<1>3. Over = Checks
  BY <1>2 DEF Over, Checks
<1>4. Told(Checks)
  BY <1>1, <1>3 DEF CheckIInv, Sure
<1>5. AllRight("count") /\ AllRight("queue")
  BY <1>2, <1>4 DEF Told, Checks
<1>6. QED
  BY <1>1, <1>5, ChecksProve

LEMMA BenchmarkFollows ==
  ASSUME IInv, [Next]_vars, stage # "benchmark", stage' = "benchmark", "check" \in flags,
         alone, ~lost', ~legacy
  PROVE  Pristine
<1>1. LoadIInv /\ DbIInv /\ PlaceIInv /\ BoundIInv /\ CheckIInv /\ Stands
  BY DEF IInv, PlaceIInv
<1>2. CASE CreateTable \/ CreateIndex \/ Load
  BY <1>1, <1>2, CreateMoves, IndexMoves, LoadMoves DEF Ends, GoesTo
<1>3. CASE VerifyCounts \/ Ping
  <2>1. stage \in {"verify", "ping"} /\ (stage' = stage \/ \E n \in 0..1 : Follows(n))
    BY <1>1, <1>3, VerifyMoves, PingMoves
  <2>2. PICK n \in 0..1 : Follows(n)
    BY <2>1
  <2>3. n \in 0..3 /\ n <= 1
    OBVIOUS
  <2>4. exit = "running"
    BY <1>1, <1>3, VerifyMoves, PingMoves
  <2>5. stage' \in {"create", "count"}
    BY <1>1, <2>2, <2>3, <2>4, Follower
  <2>6. QED
    BY <2>5
<1>4. CASE ShowStats
  <2>1. stage = "stats" /\ exit = "running" /\ Keeps
    BY <1>1, <1>4, StatsMoves
  <2>2. PICK own, r : Asks(own, r) \/ Misses(r)
    BY <1>4 DEF ShowStats
  <2>3. ~lost
    BY <1>1, <2>2, CallIsExact
  <2>4. Over = Checks /\ alarms = {}
    BY <1>1, <2>1, NoAlarms DEF Over, Checks
  <2>5. Told(Checks)
    BY <1>1, <2>3, <2>4 DEF CheckIInv, Sure
  <2>6. AllRight("count") /\ AllRight("queue")
    BY <2>4, <2>5 DEF Told, Checks
  <2>7. QED
    BY <1>1, <2>6, ChecksProve
<1>5. CASE CheckTableCounts
  <2>1. stage = "count" /\ ((\E n, good, answers : Goes(n, good, answers)) \/ GoesTo("districts"))
    BY <1>1, <1>5, CountMoves
  <2>2. QED
    BY <2>1 DEF Goes, GoesTo
<1>6. CASE CheckDistricts
  <2>1. Keeps /\ UNCHANGED dbVars
    BY <1>1, <1>6, CallsAre, DistrictMoves DEF Calls
  <2>2. legacy' = legacy /\ alone' = alone
    BY <2>1 DEF Keeps
  <2>3. Sure' /\ stage' \notin Checks
    BY <2>2 DEF Sure, Checks
  <2>4. Told(Checks)'
    BY <1>1, <1>6, <2>3, DistrictsCheck
  <2>5. Stands'
    BY <1>1, StandsStep DEF PlaceIInv
  <2>6. alarms' = {}
    BY <2>5 DEF Stands, Checks
  <2>7. AllRight("count")' /\ AllRight("queue")'
    BY <2>4, <2>6 DEF Told, Checks
  <2>8. AllRight("count") /\ AllRight("queue")
    BY <2>1, <2>2, <2>7, AllRightKept
  <2>9. QED
    BY <1>1, <2>8, ChecksProve
<1>7. CASE Starts \/ Connects \/ BenchmarkEnds \/ Killed
  BY <1>7 DEF Starts, Connects, BenchmarkEnds, Killed, GoesTo, Ends
<1>8. CASE Transacts \/ Stops \/ UNCHANGED vars
  BY <1>8 DEF Transacts, Stops, vars, placeVars
<1>9. QED
  BY <1>2, <1>3, <1>4, <1>5, <1>6, <1>7, <1>8 DEF Next, LoaderNext, CheckerNext

LEMMA AlarmsFollow == IInv => AlarmsMean
<1> SUFFICES ASSUME IInv,
                    exit \in {"ok", "failed"}, "check" \in flags, "benchmark" \notin flags,
                    clean, alone, \A t \in Tables : copies[t] = 1
             PROVE  /\ "count" \in alarms <=> txns > 0
                    /\ {"districts", "queue"} \cap alarms # {}
                         <=> \E d \in Districts : Waiting(d) = {}
                    /\ "districts" \in alarms <=> "queue" \in alarms
                    /\ "lines" \notin alarms
  BY DEF AlarmsMean
<1>1. DbIInv /\ Stands /\ Linked /\ CheckIInv
  BY DEF IInv, PlaceIInv
<1>2. stage = "off"
  BY <1>1 DEF Stands
<1>3. Over = Checks /\ Sure
  BY <1>1, <1>2 DEF Over, Checks, Sure, Linked
<1>4. \A c \in Checks : c \in alarms <=> ~AllRight(c)
  BY <1>1, <1>3 DEF CheckIInv, Told
<1>5. AllRight("count") <=> txns = 0
  <2>1. \A t \in Tables : t \in created
    BY <1>1 DEF DbIInv
  <2>2. ASSUME NEW t \in Tables
        PROVE  CountRight(t) <=> CountOf(t) = FileRows(t)
    BY <2>1 DEF CountRight, OwnCount, About, HasRow, Rows
  <2>3. AllRight("count") <=> \A n \in 1..9 : CountRight(CheckOrder[n])
    BY StepsAre DEF AllRight, Right
  <2>4. (\A n \in 1..9 : CountRight(CheckOrder[n])) <=> \A t \in Tables : CountRight(t)
    <3>1. ASSUME NEW t \in Tables
          PROVE  \E n \in 1..9 : CheckOrder[n] = t
      BY DEF CheckOrder, Tables
    <3>2. QED
      BY <3>1, OrdersAre
  <2>5. QED
    BY <1>1, <2>2, <2>3, <2>4, CountsTell
<1>6. \A d \in Districts : /\ DistrictRight("districts", d) <=> Waiting(d) # {}
                           /\ DistrictRight("queue", d) <=> Waiting(d) # {}
                           /\ DistrictRight("lines", d)
  BY <1>1, ChecksTell
<1>7. \A c \in {"districts", "queue", "lines"} :
        AllRight(c) <=> \A d \in Districts : DistrictRight(c, d)
  BY StepsAre, Constants DEF AllRight, Right
<1>8. txns \in Nat
  BY <1>1 DEF DbIInv
<1>9. /\ "count" \in Checks /\ "districts" \in Checks /\ "queue" \in Checks /\ "lines" \in Checks
  BY DEF Checks
<1>10. "count" \in alarms <=> txns > 0
  BY <1>4, <1>5, <1>8, <1>9
<1>11. /\ "districts" \in alarms <=> \E d \in Districts : Waiting(d) = {}
       /\ "queue" \in alarms <=> \E d \in Districts : Waiting(d) = {}
       /\ "lines" \notin alarms
  BY <1>4, <1>6, <1>7, <1>9
<1>12. QED
  BY <1>10, <1>11

---------------------------------------------------------------------------

\* A run that was asked for an init and ends well has loaded every table,
\* wherever it or an earlier run was killed or met a fault (loader.rs, main.rs),
\* unless a call timed out or the text protocol hid an error from it.
THEOREM InitHasLoaded == Spec => []DoneMeansLoaded
<1>1. Init => LoadIInv
  BY DEF Init, LoadIInv, Later
<1>2. LoadIInv /\ [Next]_vars => LoadIInv'
  BY LoadStep
<1>3. LoadIInv => DoneMeansLoaded
  BY DEF LoadIInv, Exact, AllLoaded, DoneMeansLoaded
<1>4. QED
  BY <1>1, <1>2, <1>3, PTL DEF Spec

\* No table is loaded more often than the program is run, and a table with
\* rows exists; alarms are those of the four checks, a run has a place exactly
\* while it has no exit code, and it keeps at most two answers about a
\* district (main.rs, loader.rs, checker.rs).
THEOREM MainTypeCorrect == Spec => []TypeOK
BY IInvBegins, IInvKept, TypesFollow, PTL DEF Spec

\* A check that passes on its own, with every answer its own, has seen the
\* database as it was loaded: once, completely, and nothing after it
\* (checker.rs, main.rs).  Checks 1 and 3 are enough.
THEOREM PassMeansPristineHolds == Spec => []PassMeansPristine
BY IInvBegins, IInvKept, PassesFollow, PTL DEF Spec

\* The alarms of a run that meets no fault, of a database that was loaded
\* once: row counts differ exactly if there was a transaction, and checks 2
\* and 3 fail exactly if some district has no order that waits (checker.rs).
THEOREM AlarmsMeanHolds == Spec => []AlarmsMean
BY IInvBegins, IInvKept, AlarmsFollow, PTL DEF Spec

\* A benchmark behind a check in the same run begins on a pristine database
\* (main.rs exits before it if a check failed).
THEOREM BenchmarkBeginsHolds == Spec => BenchmarkBeginsPristine
<1>1. ASSUME IInv, [Next]_vars
      PROVE  [stage # "benchmark" /\ stage' = "benchmark" /\ "check" \in flags
                /\ alone /\ ~lost' /\ ~legacy => Pristine]_vars
  BY <1>1, BenchmarkFollows
<1>2. QED
  BY <1>1, IInvBegins, IInvKept, PTL DEF Spec, BenchmarkBeginsPristine

=============================================================================
