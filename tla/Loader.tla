------------------------------- MODULE Loader -------------------------------
(***************************************************************************)
(* --init (src/src/loader.rs): tables, indexes, then table by table a file  *)
(* that the server is told to load, and a look at the row counts.           *)
(***************************************************************************)
EXTENDS Stage

CreateOrder == <<"warehouse", "item", "stock", "district", "customer",
                 "history", "orders", "new_orders", "order_line">>
LoadOrder   == <<"warehouse", "district", "item", "customer", "stock",
                 "orders", "new_orders", "history", "order_line">>
NumIndexes  == 8

InStage(place) == stage = place /\ UNCHANGED <<bookVars, txns, alarms>>

\* A table that exists is warned of.
AfterCreate(r) ==
  IF Fails(r) /\ r.kind # "exists"
  THEN Ends("failed")
  ELSE Continues(Len(CreateOrder), GoesTo("index"))

CreateTable ==
  /\ InStage("create")
  /\ LET t   == CreateOrder[i]
         own == IF t \in created THEN Error("exists") ELSE Command
     IN  \E r \in Results(own) :
           /\ \/ Asks(own, r) /\ created' = created \cup {t}
              \/ Misses(r) /\ UNCHANGED created
              \/ i = 1 /\ NoFile(r) /\ UNCHANGED created
           /\ AfterCreate(r)
  /\ UNCHANGED copies

\* Whatever comes back.
AfterIndex(r) == Continues(NumIndexes, GoesTo("load"))

CreateIndex ==
  /\ InStage("index")
  /\ \E r \in Results(Command) :
       \/ (Asks(Command, r) \/ Misses(r)) /\ AfterIndex(r)
       \/ i = 1 /\ NoFile(r) /\ Ends("failed")
  /\ UNCHANGED <<created, copies>>

\* mutant: a LOAD that fails is warned of like an index.
AfterAnyLoad(r) == Continues(Len(LoadOrder), GoesTo("verify"))

AfterLoad(r) ==
  IF Fails(r) THEN Ends("failed") ELSE Continues(Len(LoadOrder), GoesTo("verify"))

\* Appends the rows of the file; a table need not be empty.
Load ==
  /\ InStage("load")
  /\ LET t   == LoadOrder[i]
         own == About(t, Command)
     IN  \E r \in Results(own) :
           /\ \/ /\ Asks(own, r)
                 /\ copies' = [copies EXCEPT ![t] = IF t \in created THEN @ + 1 ELSE @]
              \/ (Misses(r) \/ NoFile(r)) /\ UNCHANGED copies
           /\ AfterLoad(r)
  /\ UNCHANGED created

\* A count that differs is warned of, and so is a query that fails.
AfterVerify(r) == Continues(Len(LoadOrder), Follows(1))

VerifyCounts ==
  /\ InStage("verify")
  /\ LET own == About(LoadOrder[i], Rows(CountOf(LoadOrder[i])))
     IN  \E r \in Results(own) : (Asks(own, r) \/ Misses(r)) /\ AfterVerify(r)
  /\ UNCHANGED <<created, copies>>

LoaderNext == CreateTable \/ CreateIndex \/ Load \/ VerifyCounts
=============================================================================
