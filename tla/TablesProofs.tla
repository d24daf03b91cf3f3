---------------------------- MODULE TablesProofs ----------------------------
(***************************************************************************)
(* For any number of workers, districts, customers, items and attempts: the *)
(* orders of every district stay numbered without gaps or doubles, because  *)
(* the server keeps two running transactions from writing the same row; the *)
(* rows of the tables keep their columns; and orders are there with all of  *)
(* their lines.                                                             *)
(***************************************************************************)
EXTENDS Tables, Sums, SequenceTheorems

---------------------------------------------------------------------------
(* Keys and rows. *)

LEMMA KeyShape ==
  ASSUME NEW d, NEW o, NEW by
  PROVE  /\ DistrictKey(d)[1] = "district" /\ DistrictKey(d)[2] = d
         /\ OrderKey(d, o, by)[1] = "orders" /\ OrderKey(d, o, by)[2] = d
         /\ OrderKey(d, o, by)[3] = o
BY DEF DistrictKey, OrderKey, Key

LEMMA OtherKeys ==
  ASSUME NEW d, NEW o, NEW n, NEW by
  PROVE  /\ WarehouseKey[1] = "warehouse"
         /\ CustomerKey(d, o)[1] = "customer"
         /\ StockKey(o)[1] = "stock"
         /\ NewOrderKey(d, o, by)[1] = "new_orders"
         /\ LineKey(d, o, n, by)[1] = "order_line"
         /\ HistoryKey(d, o, by)[1] = "history"
BY DEF WarehouseKey, CustomerKey, StockKey, NewOrderKey, LineKey, HistoryKey, Key

\* OrderIdsDense, of any rows.
Dense(rows, d) ==
  /\ \A k \in DOMAIN rows : k[1] = "orders" /\ k[2] = d => k[3] \in 1..(NextId(rows, d) - 1)
  /\ \A o \in 1..(NextId(rows, d) - 1) :
       \E k \in DOMAIN rows : k[1] = "orders" /\ k[2] = d /\ k[3] = o
  /\ \A k, l \in DOMAIN rows :
       k[1] = "orders" /\ k[2] = d /\ l[1] = "orders" /\ l[2] = d /\ k[3] = l[3] => k = l

LEMMA DenseMeans == OrderIdsDense <=> \A d \in Districts : Dense(db, d)
<1> SUFFICES ASSUME NEW d \in Districts
             PROVE  Dense(db, d) <=>
                      /\ Ids("orders", d) = 1..(db[DistrictKey(d)].next - 1)
                      /\ \A k, l \in OfDistrict(db, "orders", d) : k[3] = l[3] => k = l
  BY DEF OrderIdsDense
<1>1. \A k : k \in OfDistrict(db, "orders", d) <=> k \in DOMAIN db /\ k[1] = "orders" /\ k[2] = d
  BY DEF OfDistrict
<1>2. \A o : o \in Ids("orders", d) <=> \E k \in OfDistrict(db, "orders", d) : k[3] = o
  BY DEF Ids
<1>3. NextId(db, d) = db[DistrictKey(d)].next
  BY DEF NextId
<1>4. Ids("orders", d) = 1..(NextId(db, d) - 1) <=>
        \A o : o \in Ids("orders", d) <=> o \in 1..(NextId(db, d) - 1)
  BY Zenon
<1>5. (\A o : o \in Ids("orders", d) <=> o \in 1..(NextId(db, d) - 1)) <=>
        /\ \A k \in DOMAIN db :
             k[1] = "orders" /\ k[2] = d => k[3] \in 1..(NextId(db, d) - 1)
        /\ \A o \in 1..(NextId(db, d) - 1) :
             \E k \in DOMAIN db : k[1] = "orders" /\ k[2] = d /\ k[3] = o
  BY <1>1, <1>2, Zenon
<1>6. (\A k, l \in OfDistrict(db, "orders", d) : k[3] = l[3] => k = l) <=>
        \A k, l \in DOMAIN db :
          k[1] = "orders" /\ k[2] = d /\ l[1] = "orders" /\ l[2] = d /\ k[3] = l[3] => k = l
  BY <1>1, Zenon
<1>7. QED
  BY <1>3, <1>4, <1>5, <1>6, Zenon DEF Dense

LEMMA DenseMeansNext == (\A d \in Districts : Dense(db, d))' => OrderIdsDense'
BY DenseMeans, PTL

\* An update of the rows in K that leaves the numbers of orders alone.
Quiet(K, old, new) ==
  /\ \A k : k \notin K =>
       /\ k \in DOMAIN new <=> k \in DOMAIN old
       /\ k \in DOMAIN old => new[k] = old[k]
  /\ HasDistricts(old) =>
       HasDistricts(new) /\ \A d \in Districts : NextId(new, d) = NextId(old, d)
  /\ \A k \in K : k[1] = "orders" => k \in DOMAIN old /\ k \in DOMAIN new

LEMMA DenseKept ==
  ASSUME NEW K, NEW old, NEW new, Quiet(K, old, new), HasDistricts(old),
         NEW d \in Districts, Dense(old, d)
  PROVE  Dense(new, d)
<1>1. NextId(new, d) = NextId(old, d)
  BY DEF Quiet
<1>2. \A k : k[1] = "orders" => (k \in DOMAIN new <=> k \in DOMAIN old)
  BY DEF Quiet
<1>3. QED
  BY <1>1, <1>2 DEF Dense

\* Rows of other tables.
LEMMA QuietElsewhere ==
  ASSUME NEW rows, NEW new, \A k \in DOMAIN new : k[1] \notin {"district", "orders"}
  PROVE  Quiet(DOMAIN new, rows, With(rows, new))
<1>1. \A k : k \notin DOMAIN new =>
        /\ k \in DOMAIN With(rows, new) <=> k \in DOMAIN rows
        /\ k \in DOMAIN rows => With(rows, new)[k] = rows[k]
  BY DEF With
<1>2. ASSUME HasDistricts(rows), NEW d \in Districts
      PROVE  /\ DistrictKey(d) \in DOMAIN With(rows, new)
             /\ With(rows, new)[DistrictKey(d)] = rows[DistrictKey(d)]
  <2>1. DistrictKey(d) \notin DOMAIN new
    BY KeyShape
  <2>2. QED
    BY <1>1, <1>2, <2>1 DEF HasDistricts
<1>3. QED
  BY <1>1, <1>2 DEF Quiet, HasDistricts, NextId

LEMMA QuietDelete ==
  ASSUME NEW rows, NEW K, \A k \in K : k[1] \notin {"district", "orders"}
  PROVE  Quiet(K, rows, Restrict(rows, DOMAIN rows \ K))
<1> DEFINE new == Restrict(rows, DOMAIN rows \ K)
<1>1. /\ DOMAIN new = DOMAIN rows \ K
      /\ \A k \in DOMAIN rows \ K : new[k] = rows[k]
  BY DEF Restrict
<1> HIDE DEF new
<1>2. \A k : k \notin K =>
        /\ k \in DOMAIN new <=> k \in DOMAIN rows
        /\ k \in DOMAIN rows => new[k] = rows[k]
  BY <1>1
<1>3. ASSUME HasDistricts(rows), NEW d \in Districts
      PROVE  DistrictKey(d) \in DOMAIN new /\ new[DistrictKey(d)] = rows[DistrictKey(d)]
  <2>1. DistrictKey(d) \notin K
    BY KeyShape
  <2>2. QED
    BY <1>2, <1>3, <2>1 DEF HasDistricts
<1>4. Quiet(K, rows, new)
  BY <1>2, <1>3 DEF Quiet, HasDistricts, NextId
<1>5. QED
  BY <1>4 DEF new

\* Columns of orders.
LEMMA QuietOrders ==
  ASSUME NEW rows, NEW new, DOMAIN new \subseteq DOMAIN rows,
         \A k \in DOMAIN new : k[1] = "orders"
  PROVE  Quiet(DOMAIN new, rows, With(rows, new))
<1>1. \A k : k \notin DOMAIN new =>
        /\ k \in DOMAIN With(rows, new) <=> k \in DOMAIN rows
        /\ k \in DOMAIN rows => With(rows, new)[k] = rows[k]
  BY DEF With
<1>2. ASSUME HasDistricts(rows), NEW d \in Districts
      PROVE  /\ DistrictKey(d) \in DOMAIN With(rows, new)
             /\ With(rows, new)[DistrictKey(d)] = rows[DistrictKey(d)]
  <2>1. DistrictKey(d) \notin DOMAIN new
    BY KeyShape
  <2>2. QED
    BY <1>1, <1>2, <2>1 DEF HasDistricts
<1>3. \A k \in DOMAIN new : k \in DOMAIN rows /\ k \in DOMAIN With(rows, new)
  BY DEF With
<1>4. QED
  BY <1>1, <1>2, <1>3 DEF Quiet, HasDistricts, NextId

\* The sum of a district.
LEMMA QuietDistrict ==
  ASSUME NEW rows, NEW d \in Districts, NEW amount
  PROVE  LET new == [k \in {DistrictKey(d)} |-> [rows[DistrictKey(d)] EXCEPT !.ytd = @ + amount]]
         IN  Quiet(DOMAIN new, rows, With(rows, new))
<1> DEFINE row == [rows[DistrictKey(d)] EXCEPT !.ytd = @ + amount]
           new == [k \in {DistrictKey(d)} |-> row]
<1>1. DOMAIN new = {DistrictKey(d)} /\ new[DistrictKey(d)] = row
  OBVIOUS
<1>2. ASSUME HasDistricts(rows)
      PROVE  IsDistrict(row) /\ row.next = rows[DistrictKey(d)].next
  <2>1. IsDistrict(rows[DistrictKey(d)])
    BY <1>2 DEF HasDistricts
  <2>2. QED
    BY <2>1 DEF IsDistrict
<1> HIDE DEF row, new
<1>3. \A k : k \notin DOMAIN new =>
        /\ k \in DOMAIN With(rows, new) <=> k \in DOMAIN rows
        /\ k \in DOMAIN rows => With(rows, new)[k] = rows[k]
  BY DEF With
<1>4. ASSUME HasDistricts(rows), NEW e \in Districts
      PROVE  /\ DistrictKey(e) \in DOMAIN With(rows, new)
             /\ IsDistrict(With(rows, new)[DistrictKey(e)])
             /\ NextId(With(rows, new), e) = NextId(rows, e)
  <2>1. CASE e = d
    <3>1. With(rows, new)[DistrictKey(e)] = row /\ DistrictKey(e) \in DOMAIN With(rows, new)
      BY <1>1, <2>1 DEF With
    <3>2. QED
      BY <1>2, <1>4, <2>1, <3>1 DEF NextId
  <2>2. CASE e # d
    <3>1. DistrictKey(e) \notin DOMAIN new
      BY <1>1, <2>2, KeyShape
    <3>2. QED
      BY <1>3, <1>4, <3>1 DEF HasDistricts, NextId
  <2>3. QED
    BY <2>1, <2>2
<1>5. \A k \in DOMAIN new : k[1] # "orders"
  BY <1>1, KeyShape
<1>6. Quiet(DOMAIN new, rows, With(rows, new))
  BY <1>3, <1>4, <1>5 DEF Quiet, HasDistricts
<1>7. QED
  BY <1>6 DEF new, row

---------------------------------------------------------------------------
(* What a step of one worker leaves of the others. *)

\* The program of w goes on, that of the others waits.
Steps(w) ==
  /\ at' = [v \in Workers |-> at'[v]] /\ my' = [v \in Workers |-> my'[v]]
  /\ \A v \in Workers \ {w} : at'[v] = at[v] /\ my'[v] = my[v]

\* The rows outside of K are the same.
Same(K, old, new) ==
  \A k : k \notin K => /\ k \in DOMAIN new <=> k \in DOMAIN old
                       /\ k \in DOMAIN old => new[k] = old[k]

\* w may change the committed rows in K, none of which v has written.
LEMMA Bystander ==
  ASSUME NEW v \in Workers, NEW K, BookShape(v), HasDistricts(db),
         open'[v] = open[v], view'[v] = view[v], wrote'[v] = wrote[v],
         at'[v] = at[v], my'[v] = my[v],
         stale'[v] = IF open[v] THEN stale[v] \cup K ELSE stale[v],
         open[v] => K \cap wrote[v] = {},
         Same(K, db, db'),
         open[v] => \A u \in Workers \ {v} : open'[u] => wrote'[u] \cap wrote[v] = {}
  PROVE  BookShape(v)'
<1>1. CASE ~open[v]
  BY <1>1, Zenon DEF BookShape
<1>2. CASE open[v]
  <2>1. IsSnapshot(v)'
    <3>1. IsSnapshot(v)
      BY <1>2 DEF BookShape
    <3>2. (wrote[v] \cap stale[v] = {})'
      BY <1>2, <3>1 DEF IsSnapshot
    <3>3. (\A u \in Workers \ {v} : open[u] => wrote[u] \cap wrote[v] = {})'
      BY <1>2
    <3>4. ASSUME NEW k \in (DOMAIN db' \cup DOMAIN view[v]) \ (wrote[v] \cup stale[v] \cup K)
          PROVE  k \in DOMAIN view[v] /\ k \in DOMAIN db' /\ view[v][k] = db'[k]
      <4>1. k \in (DOMAIN db \cup DOMAIN view[v]) \ (wrote[v] \cup stale[v])
        BY DEF Same
      <4>2. k \in DOMAIN view[v] /\ k \in DOMAIN db /\ view[v][k] = db[k]
        BY <3>1, <4>1 DEF IsSnapshot
      <4>3. QED
        BY <4>2 DEF Same
    <3>5. stale'[v] = stale[v] \cup K
      BY <1>2
    <3>6. QED
      BY <3>2, <3>3, <3>4, <3>5 DEF IsSnapshot
  <2>2. ASSUME NEW d \in Districts, DistrictKey(d) \in wrote[v]
        PROVE  NextId(db, d)' = NextId(db, d)
    BY <1>2, <2>2 DEF NextId, Same, HasDistricts
  <2>3. \A k \in wrote[v] : k \in DOMAIN db' <=> k \in DOMAIN db
    BY <1>2 DEF Same
  <2>4. NextId(view[v], my[v].d)' = NextId(view[v], my[v].d)
        /\ \A d \in Districts : NextId(view[v], d)' = NextId(view[v], d)
    BY DEF NextId
  <2>5. ASSUME NEW d \in Districts
        PROVE  /\ Neutral(v, d) => Neutral(v, d)'
               /\ Counts(v, d) => Counts(v, d)' /\ NextId(db, d)' = NextId(db, d)
               /\ Adds(v, d) => Adds(v, d)'
    <3>1. Neutral(v, d) => Neutral(v, d)'
      BY <2>2, <2>3, <2>4 DEF Neutral
    <3>2. Counts(v, d) => Counts(v, d)' /\ NextId(db, d)' = NextId(db, d)
      BY <2>2, <2>4 DEF Counts
    <3>3. Adds(v, d) => Adds(v, d)'
      <4>1. SUFFICES ASSUME Adds(v, d) PROVE Adds(v, d)'
        OBVIOUS
      <4>2. PICK new \in wrote[v] :
              /\ new[1] = "orders" /\ new[2] = d /\ new[3] = NextId(db, d)
              /\ \A k \in wrote[v] : k[1] = "orders" /\ k[2] = d =>
                   k \in DOMAIN view[v] /\ (k = new \/ k \in DOMAIN db)
        BY <4>1 DEF Adds
      <4>3. Counts(v, d)' /\ NextId(db, d)' = NextId(db, d)
        BY <3>2, <4>1 DEF Adds
      <4>4. QED
        BY <2>3, <4>2, <4>3 DEF Adds
    <3>4. QED
      BY <3>1, <3>2, <3>3
  <2>6. (HasDistricts(view[v]))'
    BY <1>2 DEF BookShape, HasDistricts
  <2>7. at[v] # "idle" => my[v].d \in Districts
    BY DEF BookShape
  <2>8. IsDraw(my[v])' /\ open'[v]
    BY <1>2 DEF BookShape
  <2>9. (at[v] \in {"read_district", "take_id"} => wrote[v] = {})'
    BY <1>2, Zenon DEF BookShape
  <2>10. (at[v] = "take_id" => my[v].o = NextId(view[v], my[v].d))'
    BY <1>2, <2>4 DEF BookShape
  <2>11. (at[v] = "insert_order" =>
            /\ Counts(v, my[v].d) /\ my[v].o = NextId(db, my[v].d)
            /\ \A k \in wrote[v] : k[1] # "orders")'
    <3>1. SUFFICES ASSUME at[v] = "insert_order"
                   PROVE  /\ Counts(v, my[v].d)' /\ my[v].o = NextId(db, my[v].d)'
                          /\ \A k \in wrote[v] : k[1] # "orders"
      BY DEF Counts, NextId
    <3>2. Counts(v, my[v].d) /\ my[v].o = NextId(db, my[v].d)
          /\ \A k \in wrote[v] : k[1] # "orders"
      BY <1>2, <3>1 DEF BookShape
    <3>3. QED
      BY <2>5, <2>7, <3>1, <3>2
  <2>12. (at[v] \notin {"insert_order", "rollback"} =>
            \A d \in Districts : Neutral(v, d) \/ Adds(v, d))'
    BY <1>2, <2>5, Zenon DEF BookShape
  <2>13. (at[v] = "insert_order" => \A d \in Districts \ {my[v].d} : Neutral(v, d))'
    BY <1>2, <2>5, Zenon DEF BookShape
  <2>14. QED
    BY <2>1, <2>6, <2>7, <2>8, <2>9, <2>10, <2>11, <2>12, <2>13, Zenon DEF BookShape
<1>3. QED
  BY <1>1, <1>2

\* A statement of w, inside or outside of a transaction.
LEMMA WritesEffect ==
  ASSUME BookIInv, NEW w \in Workers, NEW K, NEW rows, Writes(w, K, rows), Steps(w),
         Same(K, Sees(w), rows)
  PROVE  /\ Tabled'
         /\ \A v \in Workers \ {w} : BookShape(v)'
         /\ K \cap stale[w] = {}
         /\ \A v \in Workers \ {w} : open[v] => K \cap wrote[v] = {}
         /\ open' = open
         /\ open[w] => /\ db' = db /\ stale'[w] = stale[w]
                       /\ view'[w] = rows /\ wrote'[w] = wrote[w] \cup K
         /\ ~open[w] => /\ db' = rows /\ stale'[w] = stale[w]
                        /\ view'[w] = view[w] /\ wrote'[w] = wrote[w]
<1>1. Tabled /\ HasDistricts(db) /\ \A v \in Workers : BookShape(v)
  BY DEF BookIInv
<1>2. K \cap stale[w] = {} /\ \A v \in Workers \ {w} : open[v] => K \cap wrote[v] = {}
  BY DEF Writes, Claimed
<1>3. open' = open
  BY DEF Writes
<1>4. CASE open[w]
  <2>1. /\ db' = db /\ stale' = stale
        /\ view' = [view EXCEPT ![w] = rows] /\ wrote' = [wrote EXCEPT ![w] = @ \cup K]
    BY <1>4 DEF Writes
  <2>2. /\ view' = [v \in Workers |-> view'[v]] /\ wrote' = [v \in Workers |-> wrote'[v]]
        /\ view'[w] = rows /\ wrote'[w] = wrote[w] \cup K
        /\ \A v \in Workers \ {w} : view'[v] = view[v] /\ wrote'[v] = wrote[v]
    BY <1>1, <2>1 DEF Tabled
  <2>3. Tabled'
    BY <1>1, <1>3, <2>1, <2>2 DEF Tabled, Steps
  <2>4. ASSUME NEW v \in Workers \ {w}
        PROVE  BookShape(v)'
    <3>1. Same({}, db, db')
      BY <2>1 DEF Same
    <3>2. at'[v] = at[v] /\ my'[v] = my[v]
      BY DEF Steps
    <3>3. ASSUME open[v], NEW u \in Workers \ {v}, open'[u]
          PROVE  wrote'[u] \cap wrote[v] = {}
      <4>1. wrote[u] \cap wrote[v] = {}
        BY <1>1, <1>3, <3>3 DEF BookShape, IsSnapshot
      <4>2. QED
        BY <1>2, <2>2, <3>3, <4>1
    <3>4. stale'[v] = IF open[v] THEN stale[v] \cup {} ELSE stale[v]
      BY <2>1
    <3>5. QED
      BY <1>1, <1>3, <2>2, <3>1, <3>2, <3>3, <3>4, Bystander
  <2>5. QED
    BY <1>2, <1>3, <1>4, <2>1, <2>2, <2>3, <2>4
<1>5. CASE ~open[w]
  <2>1. /\ db' = rows /\ MakesStale(w, K) /\ view' = view /\ wrote' = wrote
    BY <1>5 DEF Writes
  <2>2. /\ stale' = [v \in Workers |-> stale'[v]] /\ stale'[w] = stale[w]
        /\ \A v \in Workers \ {w} :
             stale'[v] = IF open[v] THEN stale[v] \cup K ELSE stale[v]
    BY <2>1 DEF MakesStale
  <2>3. Tabled'
    BY <1>1, <1>3, <2>1, <2>2 DEF Tabled, Steps
  <2>4. ASSUME NEW v \in Workers \ {w}
        PROVE  BookShape(v)'
    <3>1. Same(K, db, db')
      BY <1>5, <2>1 DEF Sees
    <3>2. at'[v] = at[v] /\ my'[v] = my[v]
      BY DEF Steps
    <3>3. ASSUME open[v], NEW u \in Workers \ {v}, open'[u]
          PROVE  wrote'[u] \cap wrote[v] = {}
      BY <1>1, <1>3, <2>1, <3>3 DEF BookShape, IsSnapshot
    <3>4. QED
      BY <1>1, <1>2, <1>3, <2>1, <2>2, <3>1, <3>2, <3>3, Bystander
  <2>5. QED
    BY <1>2, <1>3, <1>5, <2>1, <2>2, <2>3, <2>4
<1>6. QED
  BY <1>4, <1>5

\* What w sees stays a snapshot.
LEMMA WritesSnapshot ==
  ASSUME BookIInv, NEW w \in Workers, NEW K, NEW rows, Writes(w, K, rows), Steps(w),
         Same(K, Sees(w), rows), open[w]
  PROVE  /\ IsSnapshot(w)'
         /\ \A k \in (DOMAIN db \cup DOMAIN view[w]) \ (wrote[w] \cup stale[w]) :
              k \in DOMAIN view[w] /\ k \in DOMAIN db /\ view[w][k] = db[k]
<1>1. IsSnapshot(w)
  BY DEF BookIInv, BookShape
<1>2. /\ open' = open /\ db' = db /\ stale'[w] = stale[w]
      /\ view'[w] = rows /\ wrote'[w] = wrote[w] \cup K
      /\ K \cap stale[w] = {}
      /\ \A v \in Workers \ {w} : open[v] => K \cap wrote[v] = {}
  BY WritesEffect
<1>3. \A v \in Workers \ {w} : wrote'[v] = wrote[v]
  BY DEF Writes, BookIInv, Tabled
<1>4. (\A v \in Workers \ {w} : open[v] => wrote[v] \cap wrote[w] = {})'
  BY <1>1, <1>2, <1>3 DEF IsSnapshot
<1>5. (wrote[w] \cap stale[w] = {})'
  BY <1>1, <1>2 DEF IsSnapshot
<1>6. ASSUME NEW k \in (DOMAIN db \cup DOMAIN rows) \ (wrote[w] \cup K \cup stale[w])
      PROVE  k \in DOMAIN rows /\ k \in DOMAIN db /\ rows[k] = db[k]
  <2>1. k \in (DOMAIN db \cup DOMAIN view[w]) \ (wrote[w] \cup stale[w])
    BY DEF Same, Sees
  <2>2. k \in DOMAIN view[w] /\ k \in DOMAIN db /\ view[w][k] = db[k]
    BY <1>1, <2>1 DEF IsSnapshot
  <2>3. QED
    BY <2>2 DEF Same, Sees
<1>7. IsSnapshot(w)'
  BY <1>2, <1>4, <1>5, <1>6 DEF IsSnapshot
<1>8. QED
  BY <1>1, <1>7 DEF IsSnapshot

---------------------------------------------------------------------------
(* The steps. *)

LEMMA HasDistrict ==
  ASSUME NEW rows, HasDistricts(rows), NEW d \in Districts
  PROVE  /\ DistrictKey(d) \in DOMAIN rows /\ IsDistrict(rows[DistrictKey(d)])
         /\ NextId(rows, d) \in Nat \ {0}
BY DEF HasDistricts, IsDistrict, NextId

\* A statement that leaves the numbers of orders alone, or none at all.
LEMMA QuietWrite ==
  ASSUME BookIInv, NEW w \in Workers, NEW K, NEW rows, Writes(w, K, rows), Steps(w),
         Quiet(K, Sees(w), rows), IsDraw(my'[w]), my'[w].d \in Districts,
         at[w] \notin {"insert_order", "rollback"},
         at'[w] \notin {"idle", "read_district", "take_id", "insert_order"}
  PROVE  BookIInv'
<1>1. Tabled /\ HasDistricts(db) /\ (\A d \in Districts : Dense(db, d)) /\ BookShape(w)
  BY DenseMeans DEF BookIInv
<1>2. Same(K, Sees(w), rows)
  BY DEF Quiet, Same
<1>3. /\ Tabled'
      /\ \A v \in Workers \ {w} : BookShape(v)'
      /\ K \cap stale[w] = {}
      /\ open' = open
      /\ open[w] => /\ db' = db /\ stale'[w] = stale[w]
                    /\ view'[w] = rows /\ wrote'[w] = wrote[w] \cup K
      /\ ~open[w] => /\ db' = rows /\ stale'[w] = stale[w]
                     /\ view'[w] = view[w] /\ wrote'[w] = wrote[w]
  BY <1>2, WritesEffect
<1>4. CASE open[w]
  <2>1. /\ HasDistricts(rows)
        /\ \A d \in Districts : NextId(rows, d) = NextId(view[w], d)
        /\ \A k \in K : k[1] = "orders" => k \in DOMAIN view[w] /\ k \in DOMAIN rows
        /\ \A k \in DOMAIN view[w] \ K : k \in DOMAIN rows
    BY <1>1, <1>4 DEF Quiet, Sees, BookShape
  <2>2. /\ IsSnapshot(w)'
        /\ \A k \in (DOMAIN db \cup DOMAIN view[w]) \ (wrote[w] \cup stale[w]) :
             k \in DOMAIN view[w] /\ k \in DOMAIN db /\ view[w][k] = db[k]
    BY <1>2, <1>4, WritesSnapshot
  <2>3. ASSUME NEW d \in Districts, DistrictKey(d) \in K \ wrote[w]
        PROVE  NextId(view[w], d) = NextId(db, d)
    BY <1>1, <1>3, <2>2, <2>3 DEF HasDistricts, NextId
  <2>4. \A k \in K \ wrote[w] : k[1] = "orders" => k \in DOMAIN db
    BY <1>3, <2>1, <2>2
  <2>5. ASSUME NEW d \in Districts, Neutral(w, d)
        PROVE  Neutral(w, d)'
    <3>1. DistrictKey(d) \in wrote[w] \cup K => NextId(rows, d) = NextId(db, d)
      BY <2>1, <2>3, <2>5 DEF Neutral
    <3>2. \A k \in wrote[w] \cup K :
            k[1] = "orders" /\ k[2] = d => k \in DOMAIN rows /\ k \in DOMAIN db
      BY <2>1, <2>4, <2>5 DEF Neutral
    <3>3. QED
      BY <1>3, <1>4, <3>1, <3>2 DEF Neutral
  <2>6. ASSUME NEW d \in Districts, Adds(w, d)
        PROVE  Adds(w, d)'
    <3>1. PICK new \in wrote[w] :
            /\ new[1] = "orders" /\ new[2] = d /\ new[3] = NextId(db, d)
            /\ \A k \in wrote[w] : k[1] = "orders" /\ k[2] = d =>
                 k \in DOMAIN view[w] /\ (k = new \/ k \in DOMAIN db)
      BY <2>6 DEF Adds
    <3>2. \A k \in wrote[w] \cup K : k[1] = "orders" /\ k[2] = d =>
            k \in DOMAIN rows /\ (k = new \/ k \in DOMAIN db)
      BY <2>1, <2>4, <3>1
    <3>3. Counts(w, d)'
      BY <1>3, <1>4, <2>1, <2>6 DEF Adds, Counts
    <3>4. new \in wrote'[w] /\ NextId(db, d)' = NextId(db, d)
      BY <1>3, <1>4 DEF NextId
    <3>5. QED
      BY <1>3, <1>4, <3>1, <3>2, <3>3, <3>4 DEF Adds
  <2>7. \A d \in Districts : Neutral(w, d)' \/ Adds(w, d)'
    BY <1>1, <1>4, <2>5, <2>6, Zenon DEF BookShape
  <2>8. BookShape(w)'
    BY <1>3, <1>4, <2>1, <2>2, <2>7 DEF BookShape
  <2>9. HasDistricts(db)' /\ (\A d \in Districts : Dense(db, d))'
    BY <1>1, <1>3, <1>4
  <2>10. QED
    BY <1>3, <2>8, <2>9, DenseMeansNext DEF BookIInv
<1>5. CASE ~open[w]
  <2>1. Quiet(K, db, db')
    BY <1>3, <1>5 DEF Sees
  <2>2. HasDistricts(db)'
    BY <1>1, <2>1 DEF Quiet, HasDistricts
  <2>3. (\A d \in Districts : Dense(db, d))'
    BY <1>1, <2>1, DenseKept
  <2>4. BookShape(w)'
    BY <1>1, <1>3, <1>5 DEF BookShape
  <2>5. QED
    BY <1>3, <2>2, <2>3, <2>4, DenseMeansNext DEF BookIInv
<1>6. QED
  BY <1>4, <1>5

LEMMA ReadsAsWrites ==
  ASSUME BookIInv, NEW w \in Workers, Reads
  PROVE  Writes(w, {}, Sees(w)) /\ Quiet({}, Sees(w), Sees(w))
<1>1. Tabled
  BY DEF BookIInv
<1>2. stale' = [v \in Workers |-> IF v # w /\ open[v] THEN stale[v] \cup {} ELSE stale[v]]
  BY <1>1 DEF Tabled, Reads, serverVars
<1>3. /\ view = [view EXCEPT ![w] = view[w]]
      /\ wrote = [wrote EXCEPT ![w] = @ \cup {}]
  BY <1>1 DEF Tabled
<1>4. Writes(w, {}, Sees(w))
  BY <1>2, <1>3 DEF Writes, MakesStale, Sees, Reads, serverVars
<1>5. QED
  BY <1>4 DEF Quiet

LEMMA QuietRead ==
  ASSUME BookIInv, NEW w \in Workers, Reads, Steps(w),
         IsDraw(my'[w]), my'[w].d \in Districts,
         at[w] \notin {"insert_order", "rollback"},
         at'[w] \notin {"idle", "read_district", "take_id", "insert_order"}
  PROVE  BookIInv'
BY ReadsAsWrites, QuietWrite

\* The session of w leaves its transaction, whose writes are lost.
LEMMA EndsEffect ==
  ASSUME BookIInv, NEW w \in Workers, Ends(w), Steps(w), IsDraw(my'[w]),
         at'[w] # "idle" => my'[w].d \in Districts,
         at'[w] \notin {"read_district", "take_id", "insert_order"}
  PROVE  BookIInv'
<1>1. Tabled /\ HasDistricts(db) /\ OrderIdsDense /\ \A v \in Workers : BookShape(v)
  BY DEF BookIInv
<1>2. /\ open' = [open EXCEPT ![w] = FALSE] /\ view' = [view EXCEPT ![w] = <<>>]
      /\ wrote' = [wrote EXCEPT ![w] = {}] /\ stale' = [stale EXCEPT ![w] = {}]
      /\ db' = db
  BY DEF Ends, Forgets
<1>3. /\ Tabled'
      /\ open'[w] = FALSE /\ wrote'[w] = {} /\ stale'[w] = {}
      /\ \A v \in Workers \ {w} : /\ open'[v] = open[v] /\ view'[v] = view[v]
                                  /\ wrote'[v] = wrote[v] /\ stale'[v] = stale[v]
  BY <1>1, <1>2 DEF Tabled, Steps
<1>4. BookShape(w)'
  BY <1>3 DEF BookShape
<1>5. ASSUME NEW v \in Workers \ {w}
      PROVE  BookShape(v)'
  <2>1. Same({}, db, db')
    BY <1>2 DEF Same
  <2>2. at'[v] = at[v] /\ my'[v] = my[v]
    BY DEF Steps
  <2>3. ASSUME open[v], NEW u \in Workers \ {v}, open'[u]
        PROVE  wrote'[u] \cap wrote[v] = {}
    BY <1>1, <1>3, <2>3 DEF BookShape, IsSnapshot
  <2>4. stale'[v] = IF open[v] THEN stale[v] \cup {} ELSE stale[v]
    BY <1>3
  <2>5. QED
    BY <1>1, <1>3, <2>1, <2>2, <2>3, <2>4, Bystander
<1>6. HasDistricts(db)' /\ OrderIdsDense'
  BY <1>1, <1>2 DEF HasDistricts, OrderIdsDense, Ids, OfDistrict
<1>7. QED
  BY <1>3, <1>4, <1>5, <1>6 DEF BookIInv

\* An attempt begins with the committed rows.
LEMMA OpensEffect ==
  ASSUME BookIInv, NEW w \in Workers, Opens(w), Steps(w), IsDraw(my'[w]),
         my'[w].d \in Districts, at[w] = "idle",
         at'[w] \notin {"idle", "take_id", "insert_order"}
  PROVE  BookIInv'
<1>1. /\ Tabled /\ HasDistricts(db) /\ OrderIdsDense /\ \A v \in Workers : BookShape(v)
      /\ wrote[w] = {} /\ stale[w] = {}
  BY DEF BookIInv, BookShape
<1>2. /\ open' = [open EXCEPT ![w] = TRUE] /\ view' = [view EXCEPT ![w] = db]
      /\ wrote' = wrote /\ stale' = stale /\ db' = db
  BY DEF Opens
<1>3. /\ Tabled'
      /\ open'[w] = TRUE /\ view'[w] = db
      /\ \A v \in Workers \ {w} : open'[v] = open[v] /\ view'[v] = view[v]
  BY <1>1, <1>2 DEF Tabled, Steps
<1>4. BookShape(w)'
  <2>1. IsSnapshot(w)'
    BY <1>1, <1>2, <1>3 DEF IsSnapshot
  <2>2. \A d \in Districts : Neutral(w, d)'
    BY <1>1, <1>2 DEF Neutral
  <2>3. HasDistricts(view[w])'
    BY <1>1, <1>3 DEF HasDistricts
  <2>4. QED
    BY <1>1, <1>2, <1>3, <2>1, <2>2, <2>3 DEF BookShape
<1>5. ASSUME NEW v \in Workers \ {w}
      PROVE  BookShape(v)'
  <2>1. Same({}, db, db')
    BY <1>2 DEF Same
  <2>2. at'[v] = at[v] /\ my'[v] = my[v]
    BY DEF Steps
  <2>3. ASSUME open[v], NEW u \in Workers \ {v}, open'[u]
        PROVE  wrote'[u] \cap wrote[v] = {}
    BY <1>1, <1>2, <1>3, <2>3 DEF BookShape, IsSnapshot
  <2>4. stale'[v] = IF open[v] THEN stale[v] \cup {} ELSE stale[v]
    BY <1>2
  <2>5. QED
    BY <1>1, <1>2, <1>3, <2>1, <2>2, <2>3, <2>4, Bystander
<1>6. HasDistricts(db)' /\ OrderIdsDense'
  BY <1>1, <1>2 DEF HasDistricts, OrderIdsDense, Ids, OfDistrict
<1>7. QED
  BY <1>3, <1>4, <1>5, <1>6 DEF BookIInv

\* The committed rows that come of a transaction without an id, or with one.
LEMMA MergedDense ==
  ASSUME BookIInv, NEW w \in Workers, open[w], NEW d \in Districts,
         Neutral(w, d) \/ Adds(w, d)
  PROVE  Dense(Merged(w), d)
<1> DEFINE new == Merged(w)
<1>1. /\ HasDistricts(db) /\ HasDistricts(view[w]) /\ Dense(db, d)
  BY DenseMeans DEF BookIInv, BookShape
<1>2. \A k : /\ k \in wrote[w] => (k \in DOMAIN new <=> k \in DOMAIN view[w])
             /\ k \notin wrote[w] => (k \in DOMAIN new <=> k \in DOMAIN db)
  BY DEF Merged
<1>3. NextId(new, d) = IF DistrictKey(d) \in wrote[w] THEN NextId(view[w], d) ELSE NextId(db, d)
  <2>1. DistrictKey(d) \in DOMAIN db /\ DistrictKey(d) \in DOMAIN view[w]
    BY <1>1 DEF HasDistricts
  <2>2. QED
    BY <2>1 DEF NextId, Merged
<1> HIDE DEF new
<1>4. CASE Neutral(w, d)
  <2>1. NextId(new, d) = NextId(db, d)
    BY <1>3, <1>4 DEF Neutral
  <2>2. \A k : k[1] = "orders" /\ k[2] = d => (k \in DOMAIN new <=> k \in DOMAIN db)
    BY <1>2, <1>4 DEF Neutral
  <2>3. Dense(new, d)
    BY <1>1, <2>1, <2>2 DEF Dense
  <2>4. QED
    BY <2>3 DEF new
<1>5. CASE Adds(w, d)
  <2>1. PICK mine \in wrote[w] :
          /\ mine[1] = "orders" /\ mine[2] = d /\ mine[3] = NextId(db, d)
          /\ \A k \in wrote[w] : k[1] = "orders" /\ k[2] = d =>
               k \in DOMAIN view[w] /\ (k = mine \/ k \in DOMAIN db)
    BY <1>5 DEF Adds
  <2>2. NextId(new, d) = NextId(db, d) + 1 /\ NextId(db, d) \in Nat \ {0}
    BY <1>1, <1>3, <1>5, HasDistrict DEF Adds, Counts
  <2>3. \A k : k[1] = "orders" /\ k[2] = d =>
          (k \in DOMAIN new <=> k = mine \/ k \in DOMAIN db)
    BY <1>2, <2>1
  <2>4. \A k \in DOMAIN db : k[1] = "orders" /\ k[2] = d =>
          k[3] \in 1..(NextId(db, d) - 1)
    BY <1>1 DEF Dense
  <2>5. \A k \in DOMAIN new : k[1] = "orders" /\ k[2] = d => k[3] \in 1..(NextId(new, d) - 1)
    BY <2>1, <2>2, <2>3, <2>4
  <2>6. ASSUME NEW o \in 1..(NextId(new, d) - 1)
        PROVE  \E k \in DOMAIN new : k[1] = "orders" /\ k[2] = d /\ k[3] = o
    <3>1. CASE o = NextId(db, d)
      BY <2>1, <2>3, <3>1
    <3>2. CASE o # NextId(db, d)
      <4>1. o \in 1..(NextId(db, d) - 1)
        BY <2>2, <3>2
      <4>2. QED
        BY <1>1, <2>3, <4>1 DEF Dense
    <3>3. QED
      BY <3>1, <3>2
  <2>7. ASSUME NEW k \in DOMAIN new, NEW l \in DOMAIN new,
               k[1] = "orders", k[2] = d, l[1] = "orders", l[2] = d, k[3] = l[3]
        PROVE  k = l
    <3>1. /\ k = mine \/ k \in DOMAIN db
          /\ l = mine \/ l \in DOMAIN db
      BY <2>3, <2>7
    <3>2. CASE k = mine \/ l = mine
      <4>1. k[3] = NextId(db, d) /\ l[3] = NextId(db, d)
        BY <2>1, <2>7, <3>2
      <4>2. k \notin DOMAIN db /\ l \notin DOMAIN db
        BY <2>2, <2>4, <2>7, <4>1
      <4>3. QED
        BY <3>1, <4>2
    <3>3. CASE k # mine /\ l # mine
      BY <1>1, <2>7, <3>1, <3>3 DEF Dense
    <3>4. QED
      BY <3>2, <3>3
  <2>8. Dense(new, d)
    BY <2>5, <2>6, <2>7 DEF Dense
  <2>9. QED
    BY <2>8 DEF new
<1>6. QED
  BY <1>4, <1>5

LEMMA CommitsEffect ==
  ASSUME BookIInv, NEW w \in Workers, CommitsWork(w), Steps(w), IsDraw(my'[w]),
         at'[w] # "idle" => my'[w].d \in Districts,
         at[w] = "commit",
         at'[w] \notin {"read_district", "take_id", "insert_order"}
  PROVE  BookIInv'
<1>1. /\ Tabled /\ HasDistricts(db) /\ \A v \in Workers : BookShape(v)
  BY DEF BookIInv
<1>2. /\ open' = [open EXCEPT ![w] = FALSE] /\ view' = [view EXCEPT ![w] = <<>>]
      /\ wrote' = [wrote EXCEPT ![w] = {}] /\ db' = Merged(w) /\ open[w]
      /\ stale' = [v \in Workers |->
                     IF v = w THEN {}
                     ELSE IF open[v] THEN stale[v] \cup wrote[w] ELSE stale[v]]
  BY DEF CommitsWork, Forgets
<1>3. /\ Tabled'
      /\ open'[w] = FALSE /\ wrote'[w] = {} /\ stale'[w] = {}
      /\ \A v \in Workers \ {w} :
           /\ open'[v] = open[v] /\ view'[v] = view[v] /\ wrote'[v] = wrote[v]
           /\ stale'[v] = IF open[v] THEN stale[v] \cup wrote[w] ELSE stale[v]
  BY <1>1, <1>2 DEF Tabled, Steps
<1>4. BookShape(w)'
  BY <1>3 DEF BookShape
<1>5. ASSUME NEW v \in Workers \ {w}
      PROVE  BookShape(v)'
  <2>1. Same(wrote[w], db, db')
    BY <1>2 DEF Same, Merged
  <2>2. at'[v] = at[v] /\ my'[v] = my[v]
    BY DEF Steps
  <2>3. ASSUME open[v], NEW u \in Workers \ {v}, open'[u]
        PROVE  wrote'[u] \cap wrote[v] = {}
    BY <1>1, <1>3, <2>3 DEF BookShape, IsSnapshot
  <2>4. open[v] => wrote[w] \cap wrote[v] = {}
    BY <1>1, <1>2 DEF BookShape, IsSnapshot
  <2>5. QED
    BY <1>1, <1>3, <2>1, <2>2, <2>3, <2>4, Bystander
<1>6. HasDistricts(db)'
  <2>1. HasDistricts(view[w])
    BY <1>1, <1>2 DEF BookShape
  <2>2. QED
    BY <1>1, <1>2, <2>1 DEF HasDistricts, Merged
<1>7. (\A d \in Districts : Dense(db, d))'
  <2>1. \A d \in Districts : Neutral(w, d) \/ Adds(w, d)
    BY <1>1, <1>2 DEF BookShape
  <2>2. QED
    BY <1>2, <2>1, MergedDense
<1>8. QED
  BY <1>3, <1>4, <1>5, <1>6, <1>7, DenseMeansNext DEF BookIInv

\* What the answers and the programs leave in `my` and `at`.
LEMMA MovesOn ==
  ASSUME Tabled, NEW w \in Workers, NEW place, GoesTo(w, place),
         \A v \in Workers \ {w} : my'[v] = my[v], my' = [v \in Workers |-> my'[v]]
  PROVE  Steps(w) /\ at'[w] = place
BY DEF Tabled, GoesTo, Steps

LEMMA Keeps ==
  ASSUME Tabled, NEW w \in Workers, NEW place, GoesTo(w, place), KeepsAll
  PROVE  Steps(w) /\ at'[w] = place /\ my'[w] = my[w]
<1>1. my' = my /\ my' = [v \in Workers |-> my'[v]]
  BY DEF KeepsAll, Tabled
<1>2. QED
  BY <1>1, MovesOn

LEMMA Idle ==
  ASSUME Tabled, NEW w \in Workers, Idles(w)
  PROVE  Steps(w) /\ at'[w] = "idle" /\ IsDraw(my'[w])
<1>1. my' = [my EXCEPT ![w] = Blank] /\ GoesTo(w, "idle")
  BY DEF Idles
<1>2. /\ my' = [v \in Workers |-> my'[v]] /\ my'[w] = Blank
      /\ \A v \in Workers \ {w} : my'[v] = my[v]
  BY <1>1 DEF Tabled
<1>3. IsDraw(Blank)
  BY DEF IsDraw, Blank
<1>4. QED
  BY <1>1, <1>2, <1>3, MovesOn

\* The attempt of w draws, reads or looks at the next line.
LEMMA MySteps ==
  ASSUME Tabled, NEW w \in Workers, NEW place, GoesTo(w, place),
         NEW m, my' = [my EXCEPT ![w] = m], IsDraw(m), m.d \in Districts
  PROVE  Steps(w) /\ at'[w] = place /\ my'[w] = m /\ IsDraw(my'[w]) /\ my'[w].d \in Districts
<1>1. /\ my' = [v \in Workers |-> my'[v]] /\ my'[w] = m
      /\ \A v \in Workers \ {w} : my'[v] = my[v]
  BY DEF Tabled
<1>2. QED
  BY <1>1, MovesOn

LEMMA KeepsAnswer ==
  ASSUME Tabled, NEW w \in Workers, NEW place, GoesTo(w, place), NEW x,
         KeepsId(w, x) \/ KeepsSeen(w, x) \/ my' = [my EXCEPT ![w].c = x],
         IsDraw(my[w]), my[w].d \in Districts
  PROVE  /\ Steps(w) /\ at'[w] = place /\ IsDraw(my'[w]) /\ my'[w].d = my[w].d
         /\ KeepsId(w, x) => my'[w].o = x
<1>1. CASE KeepsId(w, x)
  <2>1. /\ my' = [my EXCEPT ![w] = [my[w] EXCEPT !.o = x]]
    BY <1>1 DEF KeepsId
  <2>2. LET m == [my[w] EXCEPT !.o = x]
        IN  IsDraw(m) /\ m.d = my[w].d /\ m.o = x
    BY DEF IsDraw
  <2>3. QED
    BY <2>1, <2>2, MySteps
<1>2. CASE KeepsSeen(w, x) /\ ~KeepsId(w, x)
  <2>1. /\ my' = [my EXCEPT ![w] = [my[w] EXCEPT !.seen = x]]
    BY <1>2 DEF KeepsSeen
  <2>2. LET m == [my[w] EXCEPT !.seen = x]
        IN  IsDraw(m) /\ m.d = my[w].d
    BY DEF IsDraw
  <2>3. QED
    BY <1>2, <2>1, <2>2, MySteps
<1>3. CASE my' = [my EXCEPT ![w].c = x] /\ ~KeepsId(w, x)
  <2> DEFINE m == [my[w] EXCEPT !.c = x]
  <2>1. my' = [my EXCEPT ![w] = m]
    BY <1>3
  <2>2. IsDraw(m) /\ m.d = my[w].d
    BY DEF IsDraw
  <2> HIDE DEF m
  <2>3. QED
    BY <1>3, <2>1, <2>2, MySteps
<1>4. QED
  BY <1>1, <1>2, <1>3

LEMMA NextDistrictMoves ==
  ASSUME Tabled, NEW w \in Workers, NextDistrict(w), IsDraw(my[w]), my[w].d \in Districts
  PROVE  /\ Steps(w) /\ IsDraw(my'[w]) /\ my'[w].d \in Districts
         /\ at'[w] \in {"find_oldest", "commit"}
<1> DEFINE m == [my[w] EXCEPT !.d = IF @ < NumDistricts THEN @ + 1 ELSE @,
                             !.o = 0, !.c = 0, !.seen = 0]
<1>1. my' = [my EXCEPT ![w] = m]
  BY DEF NextDistrict
<1>2. m.d = IF my[w].d < NumDistricts THEN my[w].d + 1 ELSE my[w].d
  BY DEF IsDraw
<1>3. m.d \in Districts
  BY <1>2, NumDistrictsAssumption DEF Districts
<1>4. IsDraw(m)
  BY DEF IsDraw
<1> HIDE DEF m
<1>5. PICK place \in {"find_oldest", "commit"} : GoesTo(w, place)
  BY DEF NextDistrict
<1>6. QED
  BY <1>1, <1>3, <1>4, <1>5, MySteps

\* An attempt begins.
LEMMA StartsEffect ==
  ASSUME BookIInv, NEW w \in Workers, NEW draw, NEW place, Starts(w, draw, place),
         IsDraw(draw), draw.d \in Districts,
         place \in {"read_district", "update_warehouse", "find_oldest"}
  PROVE  BookIInv'
<1>1. Tabled
  BY DEF BookIInv
<1>2. /\ GoesTo(w, place) /\ my' = [my EXCEPT ![w] = draw] /\ Opens(w) /\ at[w] = "idle"
  BY DEF Starts
<1>3. Steps(w) /\ at'[w] = place /\ IsDraw(my'[w]) /\ my'[w].d \in Districts
  BY <1>1, <1>2, MySteps
<1>4. QED
  BY <1>2, <1>3, OpensEffect

LEMMA Draws ==
  ASSUME NEW d, NEW cd, NEW c, NEW lines, NEW amount
  PROVE  IsDraw(Draw(d, cd, c, lines, amount)) /\ Draw(d, cd, c, lines, amount).d = d
BY DEF IsDraw, Draw, Blank

\* What a worker's own attempt is at.
LEMMA MyShape ==
  ASSUME BookIInv, NEW w \in Workers, at[w] # "idle"
  PROVE  /\ Tabled /\ HasDistricts(db) /\ BookShape(w) /\ IsDraw(my[w]) /\ my[w].d \in Districts
         /\ HasDistricts(Sees(w))
BY DEF BookIInv, BookShape, Sees

\* d_next_o_id is read ...
LEMMA ReadsDistrictKeeps ==
  ASSUME BookIInv, NEW w \in Workers, ReadsDistrict(w)
  PROVE  BookIInv'
<1> DEFINE o == Sees(w)[DistrictKey(my[w].d)].next
<1>1. at[w] = "read_district" /\ Reads /\ KeepsId(w, o) /\ GoesTo(w, "take_id")
  BY DEF ReadsDistrict, At
<1>2. /\ Tabled /\ BookShape(w) /\ IsDraw(my[w]) /\ my[w].d \in Districts
      /\ open[w] /\ wrote[w] = {} /\ o = NextId(view[w], my[w].d)
  BY <1>1, MyShape DEF BookShape, Sees, NextId
<1>3. /\ Steps(w) /\ at'[w] = "take_id" /\ IsDraw(my'[w]) /\ my'[w].d = my[w].d
      /\ my'[w].o = o
  <2> HIDE DEF o
  <2>1. QED
    BY <1>1, <1>2, KeepsAnswer
<1>4. Writes(w, {}, Sees(w)) /\ Same({}, Sees(w), Sees(w))
  BY <1>1, ReadsAsWrites DEF Same
<1>5. /\ Tabled' /\ open' = open /\ db' = db /\ wrote'[w] = {} /\ view'[w] = view[w]
      /\ stale'[w] = stale[w] /\ IsSnapshot(w)'
      /\ \A v \in Workers \ {w} : BookShape(v)'
  BY <1>2, <1>3, <1>4, WritesEffect, WritesSnapshot DEF Sees
<1>6. \A d \in Districts : Neutral(w, d)'
  BY <1>5 DEF Neutral
<1>7. HasDistricts(view[w])' /\ NextId(view[w], my[w].d)' = NextId(view[w], my[w].d)
  BY <1>2, <1>3, <1>5 DEF BookShape, HasDistricts, NextId
<1>8. BookShape(w)'
  BY <1>2, <1>3, <1>5, <1>6, <1>7 DEF BookShape
<1>9. HasDistricts(db)' /\ OrderIdsDense'
  BY <1>5 DEF BookIInv, HasDistricts, OrderIdsDense, Ids, OfDistrict
<1>10. QED
  BY <1>5, <1>8, <1>9 DEF BookIInv

\* ... counted up, by the only transaction that writes this row ...
LEMMA TakesIdKeeps ==
  ASSUME BookIInv, NEW w \in Workers, TakesId(w)
  PROVE  BookIInv'
<1> DEFINE d == my[w].d
           K == {DistrictKey(d)}
           row == [Sees(w)[DistrictKey(d)] EXCEPT !.next = @ + 1]
           rows == With(Sees(w), [k \in K |-> row])
<1>1. at[w] = "take_id" /\ Writes(w, K, rows) /\ KeepsAll /\ GoesTo(w, "insert_order")
  BY DEF TakesId, At, Puts, PutsAll
<1>2. /\ Tabled /\ HasDistricts(db) /\ BookShape(w) /\ IsDraw(my[w]) /\ d \in Districts
      /\ open[w] /\ wrote[w] = {} /\ my[w].o = NextId(view[w], d) /\ HasDistricts(view[w])
  BY <1>1, MyShape DEF BookShape
<1>3. Steps(w) /\ at'[w] = "insert_order" /\ my'[w] = my[w]
  BY <1>1, <1>2, Keeps
<1>4. IsDistrict(row) /\ row.next = NextId(view[w], d) + 1
  <2>1. IsDistrict(view[w][DistrictKey(d)])
    BY <1>2, HasDistrict
  <2>2. QED
    BY <1>2, <2>1 DEF IsDistrict, Sees, NextId
<1> HIDE DEF row
<1>5. /\ Same(K, Sees(w), rows)
      /\ rows[DistrictKey(d)] = row /\ DOMAIN rows = DOMAIN view[w] \cup K
      /\ \A k \in DOMAIN view[w] \ K : rows[k] = view[w][k]
  BY <1>2 DEF Same, With, Sees
<1> HIDE DEF K, rows
<1>6. /\ Tabled' /\ open' = open /\ db' = db /\ wrote'[w] = K /\ view'[w] = rows
      /\ stale'[w] = stale[w] /\ IsSnapshot(w)' /\ K \cap stale[w] = {}
      /\ \A v \in Workers \ {w} : BookShape(v)'
  <2>1. /\ Tabled' /\ open' = open /\ db' = db /\ wrote'[w] = wrote[w] \cup K
        /\ view'[w] = rows /\ stale'[w] = stale[w] /\ K \cap stale[w] = {}
        /\ \A v \in Workers \ {w} : BookShape(v)'
    <3>1. open[w] /\ Writes(w, K, rows) /\ Steps(w) /\ Same(K, Sees(w), rows)
      BY <1>1, <1>2, <1>3, <1>5
    <3>2. QED
      BY <3>1, WritesEffect
  <2>2. IsSnapshot(w)'
    BY <1>1, <1>2, <1>3, <1>5, WritesSnapshot
  <2>3. QED
    BY <1>2, <2>1, <2>2
<1>7. NextId(view[w], d) = NextId(db, d)
  <2>1. DistrictKey(d) \in DOMAIN db \ (wrote[w] \cup stale[w])
    BY <1>2, <1>6, HasDistrict DEF K
  <2>2. QED
    BY <1>2, <2>1 DEF BookShape, IsSnapshot, NextId
<1>8. \A e \in Districts \ {d} : DistrictKey(e) \notin K /\ Neutral(w, e)'
  <2>1. \A e \in Districts \ {d} : DistrictKey(e) \notin K
    BY KeyShape DEF K
  <2>2. \A k \in K : k[1] # "orders"
    BY KeyShape DEF K
  <2>3. QED
    BY <1>6, <2>1, <2>2 DEF Neutral
<1>9. Counts(w, d)' /\ (\A k \in wrote'[w] : k[1] # "orders")
  <2>1. NextId(rows, d) = NextId(db, d) + 1
    BY <1>4, <1>5, <1>7 DEF NextId
  <2>2. \A k \in K : k[1] # "orders"
    BY KeyShape DEF K
  <2>3. DistrictKey(d) \in K
    BY DEF K
  <2>4. Counts(w, d)'
    BY <1>3, <1>6, <2>1, <2>3 DEF Counts, NextId
  <2>5. QED
    BY <1>6, <2>2, <2>4
<1>10. HasDistricts(view[w])'
  <2>1. ASSUME NEW e \in Districts
        PROVE  DistrictKey(e) \in DOMAIN rows /\ IsDistrict(rows[DistrictKey(e)])
    <3>1. CASE e = d
      BY <1>4, <1>5, <3>1 DEF K
    <3>2. CASE e # d
      BY <1>2, <1>5, <1>8, <3>2, HasDistrict
    <3>3. QED
      BY <3>1, <3>2
  <2>2. QED
    BY <1>6, <2>1 DEF HasDistricts
<1>11. BookShape(w)'
  <2>1. my'[w].d = d /\ my'[w].o = NextId(db, d)'
    BY <1>2, <1>3, <1>6, <1>7 DEF NextId
  <2>2. QED
    BY <1>2, <1>3, <1>6, <1>8, <1>9, <1>10, <2>1 DEF BookShape
<1>12. HasDistricts(db)' /\ OrderIdsDense'
  BY <1>6 DEF BookIInv, HasDistricts, OrderIdsDense, Ids, OfDistrict
<1>13. QED
  BY <1>6, <1>11, <1>12 DEF BookIInv

\* ... and given to the order that is inserted.
LEMMA InsertsOrderKeeps ==
  ASSUME BookIInv, NEW w \in Workers, InsertsOrder(w)
  PROVE  BookIInv'
<1> DEFINE d == my[w].d
           mine == OrderKey(d, my[w].o, my[w].id)
           K == {mine}
           row == Order(my[w].c, Len(my[w].lines), -1)
           rows == With(Sees(w), [k \in K |-> row])
<1>1. at[w] = "insert_order" /\ Writes(w, K, rows) /\ KeepsAll /\ GoesTo(w, "insert_new_order")
  BY DEF InsertsOrder, At, Puts, PutsAll
<1>2. /\ Tabled /\ HasDistricts(db) /\ BookShape(w) /\ IsDraw(my[w]) /\ d \in Districts
      /\ open[w] /\ HasDistricts(view[w]) /\ Counts(w, d) /\ my[w].o = NextId(db, d)
      /\ \A k \in wrote[w] : k[1] # "orders"
      /\ \A e \in Districts \ {d} : Neutral(w, e)
  BY <1>1, MyShape DEF BookShape
<1>3. Steps(w) /\ at'[w] = "insert_new_order" /\ my'[w] = my[w]
  BY <1>1, <1>2, Keeps
<1>4. mine[1] = "orders" /\ mine[2] = d /\ mine[3] = NextId(db, d)
  BY <1>2, KeyShape
<1> HIDE DEF row, mine
<1>5. /\ Same(K, Sees(w), rows)
      /\ DOMAIN rows = DOMAIN view[w] \cup K
      /\ \A k \in DOMAIN view[w] \ K : rows[k] = view[w][k]
  BY <1>2 DEF Same, With, Sees
<1> HIDE DEF rows
<1>6. /\ Tabled' /\ open' = open /\ db' = db /\ wrote'[w] = wrote[w] \cup K /\ view'[w] = rows
      /\ stale'[w] = stale[w] /\ IsSnapshot(w)'
      /\ \A v \in Workers \ {w} : BookShape(v)'
  <2>1. /\ Tabled' /\ open' = open /\ db' = db /\ wrote'[w] = wrote[w] \cup K
        /\ view'[w] = rows /\ stale'[w] = stale[w]
        /\ \A v \in Workers \ {w} : BookShape(v)'
    BY <1>1, <1>2, <1>3, <1>5, WritesEffect
  <2>2. IsSnapshot(w)'
    BY <1>1, <1>2, <1>3, <1>5, WritesSnapshot
  <2>3. QED
    BY <2>1, <2>2
<1>7. \A e \in Districts :
        /\ DistrictKey(e) \in DOMAIN rows
        /\ rows[DistrictKey(e)] = view[w][DistrictKey(e)]
        /\ DistrictKey(e) # mine
  BY <1>2, <1>4, <1>5, KeyShape, HasDistrict
<1>8. HasDistricts(view[w])' /\ \A e \in Districts : NextId(rows, e) = NextId(view[w], e)
  BY <1>2, <1>6, <1>7 DEF HasDistricts, NextId
<1>9. Adds(w, d)'
  <2>1. Counts(w, d)'
    BY <1>2, <1>3, <1>6, <1>8 DEF Counts, NextId
  <2>2. mine \in wrote'[w] /\ mine[3] = NextId(db, d)'
    BY <1>3, <1>4, <1>6 DEF NextId
  <2>3. \A k \in wrote'[w] : k[1] = "orders" => k \in DOMAIN view'[w] /\ k = mine
    BY <1>2, <1>5, <1>6
  <2>4. QED
    BY <1>3, <1>4, <2>1, <2>2, <2>3 DEF Adds
<1>10. ASSUME NEW e \in Districts \ {d}
       PROVE  Neutral(w, e)'
  <2>1. DistrictKey(e) \in wrote[w] \cup K => NextId(rows, e) = NextId(db, e)
    BY <1>2, <1>7, <1>8 DEF Neutral
  <2>2. \A k \in wrote[w] \cup K : k[1] = "orders" => k[2] # e
    BY <1>2, <1>4
  <2>3. NextId(view[w], e)' = NextId(rows, e) /\ NextId(db, e)' = NextId(db, e)
    BY <1>6 DEF NextId
  <2>4. QED
    BY <1>6, <2>1, <2>2, <2>3 DEF Neutral
<1>11. \A e \in Districts : Neutral(w, e)' \/ Adds(w, e)'
  <2>1. Adds(w, my[w].d)' /\ my'[w].d = d
    BY <1>3, <1>9
  <2>2. QED
    BY <1>10, <2>1 DEF Adds, Counts, NextId
<1>12. BookShape(w)'
  BY <1>2, <1>3, <1>6, <1>8, <1>11 DEF BookShape
<1>13. HasDistricts(db)' /\ OrderIdsDense'
  BY <1>6 DEF BookIInv, HasDistricts, OrderIdsDense, Ids, OfDistrict
<1>14. QED
  BY <1>6, <1>12, <1>13 DEF BookIInv

\* Statements on other tables.
LEMMA PutsElsewhere ==
  ASSUME BookIInv, NEW w \in Workers, NEW k, NEW row, Puts(w, k, row), Steps(w),
         k[1] \notin {"district", "orders"},
         IsDraw(my'[w]), my'[w].d \in Districts,
         at[w] \notin {"insert_order", "rollback"},
         at'[w] \notin {"idle", "read_district", "take_id", "insert_order"}
  PROVE  BookIInv'
<1> DEFINE new == [x \in {k} |-> row]
<1>1. DOMAIN new = {k} /\ Writes(w, DOMAIN new, With(Sees(w), new))
  BY DEF Puts, PutsAll
<1> HIDE DEF new
<1>2. Quiet(DOMAIN new, Sees(w), With(Sees(w), new))
  BY <1>1, QuietElsewhere
<1>3. QED
  BY <1>1, <1>2, QuietWrite

LEMMA PutsAndKeeps ==
  ASSUME BookIInv, NEW w \in Workers, NEW k, NEW row, Puts(w, k, row),
         k[1] \notin {"district", "orders"}, KeepsAll, NEW place, GoesTo(w, place),
         at[w] \notin {"idle", "insert_order", "rollback"},
         place \notin {"idle", "read_district", "take_id", "insert_order"}
  PROVE  BookIInv'
BY MyShape, Keeps, PutsElsewhere

LEMMA NewOrderKeeps ==
  ASSUME BookIInv, NEW w \in Workers,
         InsertsNewOrder(w) \/ UpdatesStock(w) \/ InsertsLine(w)
  PROVE  BookIInv'
<1>1. CASE InsertsNewOrder(w)
  BY <1>1, OtherKeys, PutsAndKeeps DEF InsertsNewOrder, At
<1>2. CASE UpdatesStock(w)
  BY <1>2, OtherKeys, PutsAndKeeps DEF UpdatesStock, At
<1>3. CASE InsertsLine(w)
  <2> DEFINE m == [my[w] EXCEPT !.n = @ + 1, !.seen = 0]
  <2>1. /\ at[w] = "insert_line" /\ my' = [my EXCEPT ![w] = m]
        /\ Puts(w, LineKey(my[w].d, my[w].o, my[w].n, my[w].id),
                     Line(Item(w), Quantity(w), FALSE))
    BY <1>3 DEF InsertsLine, At
  <2>2. PICK place \in {"read_stock", "commit"} : GoesTo(w, place)
    BY <1>3 DEF InsertsLine
  <2>3. Tabled /\ IsDraw(my[w]) /\ my[w].d \in Districts
    BY <2>1, MyShape
  <2>4. IsDraw(m) /\ m.d = my[w].d
    BY <2>3 DEF IsDraw
  <2> HIDE DEF m
  <2>5. /\ Steps(w) /\ at'[w] = place /\ IsDraw(my'[w]) /\ my'[w].d \in Districts
    BY <2>1, <2>2, <2>3, <2>4, MySteps
  <2>6. QED
    BY <2>1, <2>2, <2>5, OtherKeys, PutsElsewhere
<1>4. QED
  BY <1>1, <1>2, <1>3

LEMMA PaymentKeeps ==
  ASSUME BookIInv, NEW w \in Workers,
         \/ UpdatesWarehouse(w) \/ UpdatesDistrict(w)
         \/ UpdatesCustomer(w) \/ InsertsHistory(w)
  PROVE  BookIInv'
<1>1. CASE UpdatesWarehouse(w)
  BY <1>1, OtherKeys, PutsAndKeeps DEF UpdatesWarehouse, At
<1>2. CASE UpdatesDistrict(w)
  <2> DEFINE k == DistrictKey(my[w].d)
             new == [x \in {k} |-> [Sees(w)[k] EXCEPT !.ytd = @ + my[w].amount]]
  <2>1. /\ at[w] = "update_district" /\ KeepsAll /\ GoesTo(w, "read_customer")
        /\ Writes(w, DOMAIN new, With(Sees(w), new))
    BY <1>2 DEF UpdatesDistrict, At, Puts, PutsAll
  <2>2. Tabled /\ IsDraw(my[w]) /\ my[w].d \in Districts
    BY <2>1, MyShape
  <2>3. Quiet(DOMAIN new, Sees(w), With(Sees(w), new))
    BY <2>2, QuietDistrict
  <2> HIDE DEF new
  <2>4. Steps(w) /\ at'[w] = "read_customer" /\ my'[w] = my[w]
    BY <2>1, <2>2, Keeps
  <2>5. QED
    BY <2>1, <2>2, <2>3, <2>4, QuietWrite
<1>3. CASE UpdatesCustomer(w)
  BY <1>3, OtherKeys, PutsAndKeeps DEF UpdatesCustomer, At
<1>4. CASE InsertsHistory(w)
  BY <1>4, OtherKeys, PutsAndKeeps DEF InsertsHistory, At
<1>5. QED
  BY <1>1, <1>2, <1>3, <1>4

LEMMA DeliveryKeeps ==
  ASSUME BookIInv, NEW w \in Workers,
         DeletesNewOrder(w) \/ UpdatesOrder(w) \/ UpdatesLines(w) \/ CreditsCustomer(w)
  PROVE  BookIInv'
<1>1. CASE DeletesNewOrder(w)
  <2> DEFINE K == OfOrder(Sees(w), "new_orders", my[w].d, my[w].o)
             rows == Restrict(Sees(w), DOMAIN Sees(w) \ K)
  <2>1. /\ at[w] = "delete_new_order" /\ KeepsAll /\ GoesTo(w, "update_order")
        /\ Writes(w, K, rows)
    BY <1>1 DEF DeletesNewOrder, At, Deletes
  <2>2. Quiet(K, Sees(w), rows)
    BY QuietDelete DEF OfOrder
  <2> HIDE DEF K, rows
  <2>3. Tabled /\ IsDraw(my[w]) /\ my[w].d \in Districts
    BY <2>1, MyShape
  <2>4. Steps(w) /\ at'[w] = "update_order" /\ my'[w] = my[w]
    BY <2>1, <2>3, Keeps
  <2>5. QED
    BY <2>1, <2>2, <2>3, <2>4, QuietWrite
<1>2. CASE UpdatesOrder(w)
  <2> DEFINE new == [k \in OfOrder(Sees(w), "orders", my[w].d, my[w].o) |->
                       [Sees(w)[k] EXCEPT !.carrier = 1]]
  <2>1. /\ at[w] = "update_order" /\ KeepsAll /\ GoesTo(w, "update_lines")
        /\ Writes(w, DOMAIN new, With(Sees(w), new))
    BY <1>2 DEF UpdatesOrder, At, PutsAll
  <2>2. DOMAIN new \subseteq DOMAIN Sees(w) /\ \A k \in DOMAIN new : k[1] = "orders"
    BY DEF OfOrder
  <2> HIDE DEF new
  <2>3. Quiet(DOMAIN new, Sees(w), With(Sees(w), new))
    BY <2>2, QuietOrders
  <2>4. Tabled /\ IsDraw(my[w]) /\ my[w].d \in Districts
    BY <2>1, MyShape
  <2>5. Steps(w) /\ at'[w] = "update_lines" /\ my'[w] = my[w]
    BY <2>1, <2>4, Keeps
  <2>6. QED
    BY <2>1, <2>3, <2>4, <2>5, QuietWrite
<1>3. CASE UpdatesLines(w)
  <2> DEFINE new == [k \in OfOrder(Sees(w), "order_line", my[w].d, my[w].o) |->
                       [Sees(w)[k] EXCEPT !.dated = TRUE]]
  <2>1. /\ at[w] = "update_lines" /\ KeepsAll /\ GoesTo(w, "read_order")
        /\ Writes(w, DOMAIN new, With(Sees(w), new))
    BY <1>3 DEF UpdatesLines, At, PutsAll
  <2>2. \A k \in DOMAIN new : k[1] = "order_line"
    BY DEF OfOrder
  <2> HIDE DEF new
  <2>3. Quiet(DOMAIN new, Sees(w), With(Sees(w), new))
    BY <2>2, QuietElsewhere
  <2>4. Tabled /\ IsDraw(my[w]) /\ my[w].d \in Districts
    BY <2>1, MyShape
  <2>5. Steps(w) /\ at'[w] = "read_order" /\ my'[w] = my[w]
    BY <2>1, <2>4, Keeps
  <2>6. QED
    BY <2>1, <2>3, <2>4, <2>5, QuietWrite
<1>4. CASE CreditsCustomer(w)
  <2>1. /\ at[w] = "credit_customer" /\ NextDistrict(w)
        /\ \E row : Puts(w, CustomerKey(my[w].d, my[w].c), row)
    BY <1>4 DEF CreditsCustomer, At
  <2>2. Tabled /\ IsDraw(my[w]) /\ my[w].d \in Districts
    BY <2>1, MyShape
  <2>3. /\ Steps(w) /\ IsDraw(my'[w]) /\ my'[w].d \in Districts
        /\ at'[w] \in {"find_oldest", "commit"}
    BY <2>1, <2>2, NextDistrictMoves
  <2>4. QED
    BY <2>1, <2>3, OtherKeys, PutsElsewhere
<1>5. QED
  BY <1>1, <1>2, <1>3, <1>4

LEMMA ReadKeeps ==
  ASSUME BookIInv, NEW w \in Workers,
         \/ ReadsStock(w) \/ ReadsCustomer(w) \/ ReadsOrder(w) \/ SumsAmounts(w)
         \/ FindsOldest(w)
  PROVE  BookIInv'
<1>1. CASE \E x, place :
             /\ GoesTo(w, place)
             /\ KeepsId(w, x) \/ KeepsSeen(w, x)
             /\ Reads /\ at[w] \notin {"idle", "insert_order", "rollback"}
             /\ place \notin {"idle", "read_district", "take_id", "insert_order"}
  <2>1. Tabled /\ IsDraw(my[w]) /\ my[w].d \in Districts
    BY <1>1, MyShape
  <2>2. PICK place : /\ GoesTo(w, place)
                     /\ place \notin {"idle", "read_district", "take_id", "insert_order"}
                     /\ \E x : KeepsId(w, x) \/ KeepsSeen(w, x)
    BY <1>1
  <2>3. /\ Steps(w) /\ at'[w] = place /\ IsDraw(my'[w]) /\ my'[w].d = my[w].d
    BY <2>1, <2>2, KeepsAnswer
  <2>4. QED
    BY <1>1, <2>1, <2>2, <2>3, QuietRead
<1>2. CASE ReadsStock(w)
  BY <1>1, <1>2 DEF ReadsStock, At
<1>3. CASE ReadsCustomer(w)
  BY <1>1, <1>3 DEF ReadsCustomer, At
<1>4. CASE ReadsOrder(w)
  <2>1. /\ at[w] = "read_order" /\ Reads /\ GoesTo(w, "sum_amounts")
    BY <1>4 DEF ReadsOrder, At
  <2>2. PICK x : my' = [my EXCEPT ![w].c = x]
    BY <1>4 DEF ReadsOrder
  <2>3. Tabled /\ IsDraw(my[w]) /\ my[w].d \in Districts
    BY <2>1, MyShape
  <2>4. Steps(w) /\ at'[w] = "sum_amounts" /\ IsDraw(my'[w]) /\ my'[w].d = my[w].d
    BY <2>1, <2>2, <2>3, KeepsAnswer
  <2>5. QED
    BY <2>1, <2>3, <2>4, QuietRead
<1>5. CASE SumsAmounts(w)
  BY <1>1, <1>5 DEF SumsAmounts, At
<1>6. CASE FindsOldest(w)
  <2>1. at[w] = "find_oldest" /\ Reads
    BY <1>6 DEF FindsOldest, At
  <2>2. \/ NextDistrict(w)
        \/ \E x : KeepsId(w, x) /\ GoesTo(w, "delete_new_order")
    BY <1>6 DEF FindsOldest
  <2>3. CASE NextDistrict(w)
    BY <2>1, <2>3, MyShape, NextDistrictMoves, QuietRead
  <2>4. CASE \E x : KeepsId(w, x) /\ GoesTo(w, "delete_new_order")
    BY <1>1, <2>1, <2>4
  <2>5. QED
    BY <2>2, <2>3, <2>4
<1>7. QED
  BY <1>2, <1>3, <1>4, <1>5, <1>6

LEMMA SkipsDistrictKeeps ==
  ASSUME BookIInv, NEW w \in Workers, SkipsDistrict(w)
  PROVE  BookIInv'
<1>1. at[w] = "find_oldest" /\ NextDistrict(w) /\ (Reads \/ Ends(w))
  BY DEF SkipsDistrict
<1>2. /\ Steps(w) /\ IsDraw(my'[w]) /\ my'[w].d \in Districts
      /\ at'[w] \in {"find_oldest", "commit"}
  BY <1>1, MyShape, NextDistrictMoves
<1>3. QED
  BY <1>1, <1>2, QuietRead, EndsEffect

LEMMA BeginsKeeps ==
  ASSUME BookIInv, NEW w \in Workers,
         BeginsNewOrder(w) \/ BeginsPayment(w) \/ BeginsDelivery(w)
  PROVE  BookIInv'
<1>1. CASE BeginsNewOrder(w)
  BY <1>1, Draws, StartsEffect DEF BeginsNewOrder
<1>2. CASE BeginsPayment(w)
  BY <1>2, Draws, StartsEffect DEF BeginsPayment
<1>3. CASE BeginsDelivery(w)
  <2>1. 1 \in Districts
    BY NumDistrictsAssumption DEF Districts
  <2>2. QED
    BY <1>3, <2>1, Draws, StartsEffect DEF BeginsDelivery
<1>4. QED
  BY <1>1, <1>2, <1>3

\* Nothing happens to the tables, and the attempt is over or will be rolled back.
LEMMA LeavesKeeps ==
  ASSUME BookIInv, NEW w \in Workers, Reads, Steps(w), IsDraw(my'[w]),
         \/ at'[w] = "idle" /\ ~open[w]
         \/ at'[w] = "rollback" /\ my'[w].d \in Districts
  PROVE  BookIInv'
<1>1. /\ Tabled /\ HasDistricts(db) /\ OrderIdsDense /\ \A v \in Workers : BookShape(v)
  BY DEF BookIInv
<1>2. db' = db /\ open' = open /\ view' = view /\ wrote' = wrote /\ stale' = stale
  BY DEF Reads, serverVars
<1>3. Tabled'
  BY <1>1, <1>2 DEF Tabled, Steps
<1>4. BookShape(w)'
  <2>1. IsSnapshot(w) => IsSnapshot(w)'
    BY <1>2 DEF IsSnapshot
  <2>2. HasDistricts(view[w]) => HasDistricts(view[w])'
    BY <1>2 DEF HasDistricts
  <2>3. CASE ~open[w]
    BY <1>1, <1>2, <2>3 DEF BookShape
  <2>4. CASE open[w]
    <3>1. at'[w] = "rollback"
      BY <2>4
    <3>2. HasDistricts(view[w]) /\ IsSnapshot(w)
      BY <1>1, <2>4 DEF BookShape
    <3>3. QED
      BY <1>2, <2>1, <2>2, <2>4, <3>1, <3>2 DEF BookShape
  <2>5. QED
    BY <2>3, <2>4
<1>5. ASSUME NEW v \in Workers \ {w}
      PROVE  BookShape(v)'
  <2>1. Same({}, db, db')
    BY <1>2 DEF Same
  <2>2. at'[v] = at[v] /\ my'[v] = my[v]
    BY DEF Steps
  <2>3. ASSUME open[v], NEW u \in Workers \ {v}, open'[u]
        PROVE  wrote'[u] \cap wrote[v] = {}
    BY <1>1, <1>2, <2>3 DEF BookShape, IsSnapshot
  <2>4. stale'[v] = IF open[v] THEN stale[v] \cup {} ELSE stale[v]
    BY <1>2
  <2>5. QED
    BY <1>1, <1>2, <2>1, <2>2, <2>3, <2>4, Bystander
<1>6. HasDistricts(db)' /\ OrderIdsDense'
  BY <1>1, <1>2 DEF HasDistricts, OrderIdsDense, Ids, OfDistrict
<1>7. QED
  BY <1>3, <1>4, <1>5, <1>6 DEF BookIInv

LEMMA EndKeeps ==
  ASSUME BookIInv, NEW w \in Workers, Commits(w) \/ Refused(w) \/ RollsBack(w)
  PROVE  BookIInv'
<1>1. CASE Commits(w)
  <2>1. /\ at[w] = "commit" /\ Idles(w)
        /\ \/ CommitsWork(w)
           \/ ~open[w] /\ Reads
    BY <1>1 DEF Commits, At
  <2>2. Steps(w) /\ at'[w] = "idle" /\ IsDraw(my'[w])
    BY <2>1, MyShape, Idle
  <2>3. QED
    BY <2>1, <2>2, CommitsEffect, LeavesKeeps
<1>2. CASE Refused(w)
  <2>1. /\ at[w] # "idle" /\ KeepsAll /\ GoesTo(w, "rollback")
        /\ \/ Reads
           \/ Ends(w)
           \/ at[w] = "commit" /\ CommitsWork(w)
    BY <1>2 DEF Refused
  <2>2. IsDraw(my[w]) /\ my[w].d \in Districts /\ Tabled
    BY <2>1, MyShape
  <2>3. Steps(w) /\ at'[w] = "rollback" /\ my'[w] = my[w]
    BY <2>1, <2>2, Keeps
  <2>4. QED
    BY <2>1, <2>2, <2>3, CommitsEffect, EndsEffect, LeavesKeeps
<1>3. CASE RollsBack(w)
  <2>1. at[w] = "rollback" /\ Ends(w) /\ Idles(w)
    BY <1>3 DEF RollsBack, At
  <2>2. Steps(w) /\ at'[w] = "idle" /\ IsDraw(my'[w])
    BY <2>1, MyShape, Idle
  <2>3. QED
    BY <2>1, <2>2, EndsEffect
<1>4. QED
  BY <1>1, <1>2, <1>3

---------------------------------------------------------------------------

LEMMA BookStep == BookIInv /\ [Next]_vars => BookIInv'
<1> SUFFICES ASSUME BookIInv, [Next]_vars
             PROVE  BookIInv'
  OBVIOUS
<1>1. ASSUME NEW w \in Workers, Step(w)
      PROVE  BookIInv'
  <2>1. CASE BeginsNewOrder(w) \/ BeginsPayment(w) \/ BeginsDelivery(w)
    BY <2>1, BeginsKeeps
  <2>2. CASE ReadsDistrict(w)
    BY <2>2, ReadsDistrictKeeps
  <2>3. CASE TakesId(w)
    BY <2>3, TakesIdKeeps
  <2>4. CASE InsertsOrder(w)
    BY <2>4, InsertsOrderKeeps
  <2>5. CASE InsertsNewOrder(w) \/ UpdatesStock(w) \/ InsertsLine(w)
    BY <2>5, NewOrderKeeps
  <2>6. CASE \/ UpdatesWarehouse(w) \/ UpdatesDistrict(w)
             \/ UpdatesCustomer(w) \/ InsertsHistory(w)
    BY <2>6, PaymentKeeps
  <2>7. CASE DeletesNewOrder(w) \/ UpdatesOrder(w) \/ UpdatesLines(w) \/ CreditsCustomer(w)
    BY <2>7, DeliveryKeeps
  <2>8. CASE \/ ReadsStock(w) \/ ReadsCustomer(w) \/ ReadsOrder(w) \/ SumsAmounts(w)
             \/ FindsOldest(w)
    BY <2>8, ReadKeeps
  <2>9. CASE SkipsDistrict(w)
    BY <2>9, SkipsDistrictKeeps
  <2>10. CASE Commits(w) \/ Refused(w) \/ RollsBack(w)
    BY <2>10, EndKeeps
  <2>11. QED
    BY <1>1, <2>1, <2>2, <2>3, <2>4, <2>5, <2>6, <2>7, <2>8, <2>9, <2>10 DEF Step
<1>2. CASE UNCHANGED vars
  <2>1. /\ db' = db /\ open' = open /\ view' = view /\ wrote' = wrote /\ stale' = stale
        /\ at' = at /\ my' = my
    BY <1>2 DEF vars, serverVars
  <2>2. QED
    BY <2>1 DEF BookIInv, Tabled, HasDistricts, OrderIdsDense, Ids, OfDistrict, BookShape,
                IsSnapshot, Neutral, Counts, Adds, NextId
<1>3. CASE Stops
  BY <1>2, <1>3 DEF Stops
<1>4. QED
  BY <1>1, <1>2, <1>3 DEF Next

\* The loaded database.
LEMMA InitRowOf ==
  /\ \A d \in Districts : /\ DistrictKey(d) \in InitKeys
                          /\ InitRow(DistrictKey(d)) = [next |-> Len(Loaded) + 1, ytd |-> 0]
  /\ \A k \in InitKeys : k[1] = "orders" =>
       \E d \in Districts, o \in 1..Len(Loaded) : k = OrderKey(d, o, 0)
  /\ \A d \in Districts, o \in 1..Len(Loaded) : OrderKey(d, o, 0) \in InitKeys
<1>1. \A d \in Districts : DistrictKey(d) \in InitKeys
  BY DEF InitKeys
<1>2. \A d \in Districts : InitRow(DistrictKey(d)) = [next |-> Len(Loaded) + 1, ytd |-> 0]
  BY KeyShape DEF InitRow
<1>3. \A d \in Districts, o \in 1..Len(Loaded) : OrderKey(d, o, 0) \in InitKeys
  BY DEF InitKeys
<1>4. ASSUME NEW k \in InitKeys, k[1] = "orders"
      PROVE  \E d \in Districts, o \in 1..Len(Loaded) : k = OrderKey(d, o, 0)
  <2>1. /\ k # WarehouseKey
        /\ \A d \in Districts : k # DistrictKey(d)
        /\ \A d \in Districts, c \in Customers : k # CustomerKey(d, c)
        /\ \A i \in Items : k # StockKey(i)
    BY <1>4, KeyShape, OtherKeys
  <2>2. k \notin UNION {{NewOrderKey(d, o, 0) : o \in Oldest(d)..Len(Loaded)} : d \in Districts}
    BY <1>4, OtherKeys
  <2>3. k \notin UNION {{LineKey(d, o, n, 0) : d \in Districts, n \in DOMAIN Loaded[o].lines} :
                          o \in 1..Len(Loaded)}
    BY <1>4, OtherKeys
  <2>4. QED
    BY <2>1, <2>2, <2>3 DEF InitKeys
<1>5. QED
  BY <1>1, <1>2, <1>3, <1>4

LEMMA BookInit == Init => BookIInv
<1> SUFFICES ASSUME Init
             PROVE  BookIInv
  OBVIOUS
<1>1. DOMAIN db = InitKeys /\ \A k \in InitKeys : db[k] = InitRow(k)
  BY DEF Init, InitRows
<1>2. Len(Loaded) \in Nat
  BY LoadedAssumption
<1>3. \A d \in Districts : /\ DistrictKey(d) \in DOMAIN db
                           /\ db[DistrictKey(d)] = [next |-> Len(Loaded) + 1, ytd |-> 0]
  BY <1>1, InitRowOf
<1>4. HasDistricts(db) /\ \A d \in Districts : NextId(db, d) = Len(Loaded) + 1
  BY <1>2, <1>3 DEF HasDistricts, IsDistrict, NextId
<1>5. ASSUME NEW d \in Districts
      PROVE  Dense(db, d)
  <2>1. NextId(db, d) - 1 = Len(Loaded)
    BY <1>2, <1>4
  <2>2. \A k \in DOMAIN db : k[1] = "orders" /\ k[2] = d =>
          k[3] \in 1..Len(Loaded) /\ k = OrderKey(d, k[3], 0)
    BY <1>1, InitRowOf, KeyShape
  <2>3. \A o \in 1..Len(Loaded) : OrderKey(d, o, 0) \in DOMAIN db
    BY <1>1, InitRowOf
  <2>4. QED
    BY <2>1, <2>2, <2>3, KeyShape DEF Dense
<1>6. IsDraw(Blank)
  BY DEF IsDraw, Blank
<1>7. \A w \in Workers : BookShape(w)
  BY <1>6 DEF Init, BookShape
<1>8. Tabled
  BY DEF Init, Tabled
<1>9. QED
  BY <1>4, <1>5, <1>7, <1>8, DenseMeans DEF BookIInv

\* The orders of every district are numbered 1 .. d_next_o_id - 1, one row
\* each, in every committed state: of two NewOrders that read the same
\* d_next_o_id the server lets only one update it, and the other one's rows
\* go with its transaction.
THEOREM IdsStayDense == Spec => []OrderIdsDense
<1>1. Init => BookIInv
  BY BookInit
<1>2. BookIInv /\ [Next]_vars => BookIInv'
  BY BookStep
<1>3. BookIInv => OrderIdsDense
  BY DEF BookIInv
<1>4. QED
  BY <1>1, <1>2, <1>3, PTL DEF Spec

---------------------------------------------------------------------------
(* Rows and what a worker knows. *)

\* The columns of a row, by the table of its key; a stock row is refilled by 91
\* and never falls below 10.
Typed(k, row) ==
  /\ k[1] \in {"warehouse", "district", "customer", "stock",
               "orders", "new_orders", "order_line", "history"}
  /\ k[1] = "warehouse" => row \in [ytd : Nat]
  /\ k[1] = "district" => row \in [next : Nat, ytd : Nat]
  /\ k[1] = "customer" =>
       row \in [balance : Int, ytd : Nat, payments : Nat, deliveries : Nat]
  /\ k[1] = "stock" =>
       /\ row \in [quantity : 10..100, ytd : Nat, orders : Nat]
       /\ (row.quantity + row.ytd - InitStock) % 91 = 0
  /\ k[1] = "orders" => row \in [c : Customers, cnt : Nat, carrier : -1..10]
  /\ k[1] = "new_orders" => row \in [o_id : Nat] /\ k[3] \in Nat
  /\ k[1] = "order_line" => row \in [item : Items, amount : Nat, dated : BOOLEAN]
  /\ k[1] = "history" => row \in [d : Districts, amount : Nat]

\* The rows that are never inserted or deleted.
Fixed ==
  {WarehouseKey} \cup {DistrictKey(d) : d \in Districts} \cup {StockKey(i) : i \in Items}
  \cup {CustomerKey(d, c) : d \in Districts, c \in Customers}

Good(rows) ==
  /\ IsFiniteSet(DOMAIN rows)
  /\ Fixed \subseteq DOMAIN rows
  /\ \A k \in DOMAIN rows : Typed(k, rows[k])

NewOrderPlaces ==
  {"read_district", "take_id", "insert_order", "insert_new_order", "read_stock",
   "update_stock", "insert_line"}
PaymentPlaces ==
  {"update_warehouse", "update_district", "read_customer", "update_customer",
   "insert_history"}
DeliveryPlaces ==
  {"find_oldest", "delete_new_order", "update_order", "update_lines", "read_order",
   "sum_amounts", "credit_customer"}

\* What an attempt drew says what it is.
IsNewOrder(w) == my[w].lines # <<>>
IsPayment(w)  == my[w].lines = <<>> /\ my[w].cd # 0
IsDelivery(w) == my[w].lines = <<>> /\ my[w].cd = 0

Works(w) == at[w] \notin {"idle", "rollback"}

DrawTyped(w) ==
  /\ my[w].d \in Districts
  /\ my[w].id \in 1..attempts
  /\ my[w].o \in Nat
  /\ IsNewOrder(w) =>
       my[w].lines \in Baskets /\ my[w].c \in Customers /\ my[w].n \in 1..(Len(my[w].lines) + 1)
  /\ IsPayment(w) =>
       my[w].cd \in Districts /\ my[w].c \in Customers /\ my[w].amount \in Amounts
  /\ at[w] \in NewOrderPlaces => IsNewOrder(w) /\ my[w].n \in 1..Len(my[w].lines)
  /\ at[w] \in PaymentPlaces => IsPayment(w)
  /\ at[w] \in DeliveryPlaces => IsDelivery(w)
  /\ at[w] = "commit" /\ IsNewOrder(w) => my[w].n = Len(my[w].lines) + 1

\* What an attempt read is still there when it is used.
SeenFits(w) ==
  /\ at[w] = "update_stock" => my[w].seen = view[w][StockKey(Item(w))]
  /\ at[w] = "update_customer" => my[w].seen = view[w][CustomerKey(my[w].cd, my[w].c)]
  /\ at[w] \in {"sum_amounts", "credit_customer"} => my[w].c \in Customers
  /\ at[w] = "credit_customer" => my[w].seen \in Nat

RowShape(w) ==
  /\ at[w] \in Places
  /\ IsFiniteSet(wrote[w])
  /\ ~open[w] => view[w] = <<>>
  /\ open[w] => Good(view[w])
  /\ at[w] \in NewOrderPlaces \cup PaymentPlaces => open[w]
  /\ at[w] # "idle" => DrawTyped(w) /\ SeenFits(w)

RowIInv ==
  /\ Good(db)
  /\ attempts \in 0..MaxAttempts
  /\ torn \in BOOLEAN
  /\ \A w \in Workers : RowShape(w)

---------------------------------------------------------------------------
(* Keys. *)

LEMMA KeyColumns ==
  ASSUME NEW d, NEW o, NEW n, NEW by
  PROVE  /\ WarehouseKey = <<"warehouse", 0, 0, 0, 0>>
         /\ DistrictKey(d) = <<"district", d, 0, 0, 0>>
         /\ CustomerKey(d, o) = <<"customer", d, o, 0, 0>>
         /\ StockKey(o) = <<"stock", 0, o, 0, 0>>
         /\ OrderKey(d, o, by) = <<"orders", d, o, 0, by>>
         /\ NewOrderKey(d, o, by) = <<"new_orders", d, o, 0, by>>
         /\ LineKey(d, o, n, by) = <<"order_line", d, o, n, by>>
         /\ HistoryKey(d, o, by) = <<"history", d, o, 0, by>>
BY DEF WarehouseKey, DistrictKey, CustomerKey, StockKey, OrderKey, NewOrderKey, LineKey,
       HistoryKey, Key

\* What a payment pays is a number.
LEMMA AmountsAreNumbers == \A x \in Amounts : x \in Int
BY AmountsAssumption

LEMMA BasketShape ==
  ASSUME NEW lines \in Lines
  PROVE  /\ Len(lines) \in Nat \ {0}
         /\ lines # <<>>
         /\ \A n \in 1..Len(lines) : lines[n][1] \in Items /\ lines[n][2] \in 1..10
<1>1. lines \in Seq(Items \X (1..10)) /\ lines # <<>>
  BY DEF Lines
<1>2. Len(lines) \in Nat \ {0}
  BY <1>1, EmptySeq
<1>3. \A n \in 1..Len(lines) : lines[n] \in Items \X (1..10)
  BY <1>1, ElementOfSeq
<1>4. QED
  BY <1>1, <1>2, <1>3

---------------------------------------------------------------------------
(* Rows. *)

LEMMA FixedKeys ==
  /\ WarehouseKey \in Fixed
  /\ \A d \in Districts : DistrictKey(d) \in Fixed
  /\ \A i \in Items : StockKey(i) \in Fixed
  /\ \A d \in Districts, c \in Customers : CustomerKey(d, c) \in Fixed
  /\ \A k \in Fixed : k[1] \in {"warehouse", "district", "stock", "customer"}
<1>1. \A k \in Fixed :
        \/ k = WarehouseKey
        \/ \E d \in Districts : k = DistrictKey(d)
        \/ \E i \in Items : k = StockKey(i)
        \/ \E d \in Districts, c \in Customers : k = CustomerKey(d, c)
  BY DEF Fixed
<1>2. \A k \in Fixed : k[1] \in {"warehouse", "district", "stock", "customer"}
  BY <1>1, KeyShape, OtherKeys
<1>3. QED
  BY <1>2 DEF Fixed

LEMMA GoodPutsAll ==
  ASSUME NEW rows, Good(rows), NEW new, IsFiniteSet(DOMAIN new),
         \A k \in DOMAIN new : Typed(k, new[k])
  PROVE  Good(With(rows, new))
<1> DEFINE r == With(rows, new)
<1>1. /\ DOMAIN r = DOMAIN rows \cup DOMAIN new
      /\ \A k \in DOMAIN r : r[k] = IF k \in DOMAIN new THEN new[k] ELSE rows[k]
  BY DEF With
<1> HIDE DEF r
<1>2. IsFiniteSet(DOMAIN r)
  BY <1>1, FS_Union DEF Good
<1>3. \A k \in DOMAIN r : Typed(k, r[k])
  BY <1>1 DEF Good
<1>4. Good(r)
  BY <1>1, <1>2, <1>3 DEF Good
<1>5. QED
  BY <1>4 DEF r

LEMMA GoodPut ==
  ASSUME NEW rows, Good(rows), NEW k, NEW row, Typed(k, row)
  PROVE  Good(With(rows, [x \in {k} |-> row]))
<1> DEFINE new == [x \in {k} |-> row]
<1>1. DOMAIN new = {k} /\ \A x \in DOMAIN new : Typed(x, new[x])
  OBVIOUS
<1>2. IsFiniteSet({k})
  BY FS_Singleton
<1> HIDE DEF new
<1>3. Good(With(rows, new))
  BY <1>1, <1>2, GoodPutsAll
<1>4. QED
  BY <1>3 DEF new

LEMMA GoodDeletes ==
  ASSUME NEW rows, Good(rows), NEW K, \A k \in K : k[1] = "new_orders"
  PROVE  Good(Restrict(rows, DOMAIN rows \ K))
<1> DEFINE new == Restrict(rows, DOMAIN rows \ K)
<1>1. DOMAIN new = DOMAIN rows \ K /\ \A k \in DOMAIN rows \ K : new[k] = rows[k]
  BY DEF Restrict
<1> HIDE DEF new
<1>2. IsFiniteSet(DOMAIN new)
  BY <1>1, FS_Subset DEF Good
<1>3. Fixed \subseteq DOMAIN new
  BY <1>1, FixedKeys DEF Good
<1>4. Good(new)
  BY <1>1, <1>2, <1>3 DEF Good
<1>5. QED
  BY <1>4 DEF new

\* The committed rows with those of a transaction.
LEMMA MergedRows ==
  ASSUME NEW w
  PROVE  /\ \A k : k \in DOMAIN Merged(w) <=>
                     IF k \in wrote[w] THEN k \in DOMAIN view[w] ELSE k \in DOMAIN db
         /\ \A k \in DOMAIN Merged(w) :
              Merged(w)[k] = IF k \in wrote[w] THEN view[w][k] ELSE db[k]
         /\ DOMAIN Merged(w) \subseteq DOMAIN db \cup DOMAIN view[w]
BY DEF Merged

LEMMA GoodMerged ==
  ASSUME NEW w \in Workers, Good(db), Good(view[w])
  PROVE  Good(Merged(w))
<1>1. IsFiniteSet(DOMAIN Merged(w))
  <2>1. IsFiniteSet(DOMAIN db \cup DOMAIN view[w])
    BY FS_Union DEF Good
  <2>2. QED
    BY <2>1, MergedRows, FS_Subset
<1>2. Fixed \subseteq DOMAIN Merged(w)
  BY MergedRows DEF Good
<1>3. \A k \in DOMAIN Merged(w) : Typed(k, Merged(w)[k])
  BY MergedRows DEF Good
<1>4. QED
  BY <1>1, <1>2, <1>3 DEF Good

---------------------------------------------------------------------------
(* Steps. *)

\* A statement of w on the keys in K, after which its session sees `rows` and
\* its program is at `place`.
Does(w, K, rows, place) ==
  /\ Writes(w, K, rows) /\ Steps(w) /\ at'[w] = place
  /\ attempts' = attempts /\ torn' = torn

LEMMA WriteSplits ==
  ASSUME BookIInv, NEW w \in Workers, NEW K, NEW rows, Writes(w, K, rows)
  PROVE  /\ open' = open
         /\ \A v \in Workers \ {w} : view'[v] = view[v] /\ wrote'[v] = wrote[v]
         /\ open[w] => db' = db /\ view'[w] = rows /\ wrote'[w] = wrote[w] \cup K
         /\ ~open[w] => db' = rows /\ view'[w] = view[w] /\ wrote'[w] = wrote[w]
         /\ K \cap stale[w] = {}
         /\ \A v \in Workers \ {w} : open[v] => K \cap wrote[v] = {}
<1>1. Tabled
  BY DEF BookIInv
<1>2. K \cap stale[w] = {} /\ \A v \in Workers \ {w} : open[v] => K \cap wrote[v] = {}
  BY DEF Writes, Claimed
<1>3. CASE open[w]
  <2>1. /\ db' = db /\ open' = open
        /\ view' = [view EXCEPT ![w] = rows] /\ wrote' = [wrote EXCEPT ![w] = @ \cup K]
    BY <1>3 DEF Writes
  <2>2. QED
    BY <1>1, <1>2, <1>3, <2>1 DEF Tabled
<1>4. CASE ~open[w]
  <2>1. db' = rows /\ open' = open /\ view' = view /\ wrote' = wrote
    BY <1>4 DEF Writes
  <2>2. QED
    BY <1>2, <1>4, <2>1
<1>5. QED
  BY <1>3, <1>4

\* The program of w goes on with m for what it knows.
LEMMA Moves ==
  ASSUME Tabled, NEW w \in Workers, NEW place, GoesTo(w, place),
         NEW m, my' = [my EXCEPT ![w] = m]
  PROVE  Steps(w) /\ at'[w] = place /\ my'[w] = m
<1>1. /\ my' = [v \in Workers |-> my'[v]] /\ my'[w] = m
      /\ \A v \in Workers \ {w} : my'[v] = my[v]
  BY DEF Tabled
<1>2. QED
  BY <1>1, MovesOn

\* No field but those in F changes.
Others(w, F) ==
  /\ "id" \notin F => my'[w].id = my[w].id
  /\ "d" \notin F => my'[w].d = my[w].d
  /\ "c" \notin F => my'[w].c = my[w].c
  /\ "o" \notin F => my'[w].o = my[w].o
  /\ "n" \notin F => my'[w].n = my[w].n
  /\ "seen" \notin F => my'[w].seen = my[w].seen
  /\ my'[w].cd = my[w].cd /\ my'[w].lines = my[w].lines /\ my'[w].amount = my[w].amount

LEMMA FieldMoves ==
  ASSUME Tabled, NEW w \in Workers, IsDraw(my[w]), NEW place, GoesTo(w, place), NEW x
  PROVE  /\ KeepsAll => Steps(w) /\ at'[w] = place /\ Others(w, {})
         /\ KeepsId(w, x) => Steps(w) /\ at'[w] = place /\ Others(w, {"o"}) /\ my'[w].o = x
         /\ KeepsSeen(w, x) =>
              Steps(w) /\ at'[w] = place /\ Others(w, {"seen"}) /\ my'[w].seen = x
         /\ my' = [my EXCEPT ![w].c = x] =>
              Steps(w) /\ at'[w] = place /\ Others(w, {"c"}) /\ my'[w].c = x
<1>1. ASSUME KeepsAll
      PROVE  Steps(w) /\ at'[w] = place /\ Others(w, {})
  BY <1>1, Keeps DEF Others
<1>2. ASSUME KeepsId(w, x)
      PROVE  Steps(w) /\ at'[w] = place /\ Others(w, {"o"}) /\ my'[w].o = x
  <2> DEFINE m == [my[w] EXCEPT !.o = x]
  <2>1. my' = [my EXCEPT ![w] = m]
    BY <1>2 DEF KeepsId
  <2>2. /\ m.o = x /\ m.id = my[w].id /\ m.d = my[w].d /\ m.c = my[w].c /\ m.n = my[w].n
        /\ m.cd = my[w].cd /\ m.lines = my[w].lines /\ m.amount = my[w].amount
        /\ m.seen = my[w].seen
    BY DEF IsDraw
  <2> HIDE DEF m
  <2>3. QED
    BY <2>1, <2>2, Moves DEF Others
<1>3. ASSUME KeepsSeen(w, x)
      PROVE  Steps(w) /\ at'[w] = place /\ Others(w, {"seen"}) /\ my'[w].seen = x
  <2> DEFINE m == [my[w] EXCEPT !.seen = x]
  <2>1. my' = [my EXCEPT ![w] = m]
    BY <1>3 DEF KeepsSeen
  <2>2. /\ m.o = my[w].o /\ m.id = my[w].id /\ m.d = my[w].d /\ m.c = my[w].c
        /\ m.cd = my[w].cd /\ m.lines = my[w].lines /\ m.amount = my[w].amount
        /\ m.seen = x /\ m.n = my[w].n
    BY DEF IsDraw
  <2> HIDE DEF m
  <2>3. QED
    BY <2>1, <2>2, Moves DEF Others
<1>4. ASSUME my' = [my EXCEPT ![w].c = x]
      PROVE  Steps(w) /\ at'[w] = place /\ Others(w, {"c"}) /\ my'[w].c = x
  <2> DEFINE m == [my[w] EXCEPT !.c = x]
  <2>1. my' = [my EXCEPT ![w] = m]
    BY <1>4
  <2>2. /\ m.o = my[w].o /\ m.id = my[w].id /\ m.d = my[w].d /\ m.c = x
        /\ m.cd = my[w].cd /\ m.lines = my[w].lines /\ m.amount = my[w].amount
        /\ m.seen = my[w].seen /\ m.n = my[w].n
    BY DEF IsDraw
  <2> HIDE DEF m
  <2>3. QED
    BY <2>1, <2>2, Moves DEF Others
<1>5. QED
  BY <1>1, <1>2, <1>3, <1>4

LEMMA ReadsDistrictDoes ==
  ASSUME BookIInv, NEW w \in Workers, ReadsDistrict(w)
  PROVE  /\ at[w] = "read_district" /\ Does(w, {}, Sees(w), "take_id")
         /\ Others(w, {"o"}) /\ my'[w].o = NextId(Sees(w), my[w].d)
<1>1. /\ at[w] = "read_district" /\ attempts' = attempts /\ torn' = torn /\ Reads
      /\ KeepsId(w, NextId(Sees(w), my[w].d)) /\ GoesTo(w, "take_id")
  BY DEF ReadsDistrict, At, NextId
<1>2. QED
  BY <1>1, MyShape, FieldMoves, ReadsAsWrites DEF Does

LEMMA TakesIdDoes ==
  ASSUME BookIInv, NEW w \in Workers, TakesId(w)
  PROVE  LET k == DistrictKey(my[w].d)
             new == [x \in {k} |-> [Sees(w)[k] EXCEPT !.next = @ + 1]]
         IN  /\ at[w] = "take_id" /\ Others(w, {})
             /\ Does(w, {k}, With(Sees(w), new), "insert_order")
<1> DEFINE k == DistrictKey(my[w].d)
           new == [x \in {k} |-> [Sees(w)[k] EXCEPT !.next = @ + 1]]
<1>1. /\ at[w] = "take_id" /\ attempts' = attempts /\ torn' = torn
      /\ Writes(w, DOMAIN new, With(Sees(w), new))
      /\ KeepsAll /\ GoesTo(w, "insert_order")
  BY DEF TakesId, At, Puts, PutsAll
<1>2. DOMAIN new = {k}
  OBVIOUS
<1> HIDE DEF new
<1>3. QED
  BY <1>1, <1>2, MyShape, FieldMoves DEF Does, new

\* One row is inserted or updated, and nothing is read.
LEMMA PutDoes ==
  ASSUME BookIInv, NEW w \in Workers, at[w] # "idle", NEW k, NEW row, Puts(w, k, row),
         attempts' = attempts, torn' = torn, KeepsAll, NEW place, GoesTo(w, place)
  PROVE  Does(w, {k}, With(Sees(w), [x \in {k} |-> row]), place) /\ Others(w, {})
<1> DEFINE new == [x \in {k} |-> row]
<1>1. Writes(w, DOMAIN new, With(Sees(w), new))
  BY DEF Puts, PutsAll
<1>2. DOMAIN new = {k}
  OBVIOUS
<1> HIDE DEF new
<1>3. QED
  BY <1>1, <1>2, MyShape, FieldMoves DEF Does, new

LEMMA InsertsOrderDoes ==
  ASSUME BookIInv, NEW w \in Workers, InsertsOrder(w)
  PROVE  LET k == OrderKey(my[w].d, my[w].o, my[w].id)
             row == Order(my[w].c, Len(my[w].lines), -1)
         IN  /\ at[w] = "insert_order" /\ Others(w, {})
             /\ Does(w, {k}, With(Sees(w), [x \in {k} |-> row]), "insert_new_order")
BY PutDoes DEF InsertsOrder, At

LEMMA InsertsNewOrderDoes ==
  ASSUME BookIInv, NEW w \in Workers, InsertsNewOrder(w)
  PROVE  LET k == NewOrderKey(my[w].d, my[w].o, my[w].id)
             row == [o_id |-> my[w].o]
         IN  /\ at[w] = "insert_new_order" /\ Others(w, {})
             /\ Does(w, {k}, With(Sees(w), [x \in {k} |-> row]), "read_stock")
BY PutDoes DEF InsertsNewOrder, At

LEMMA ReadsStockDoes ==
  ASSUME BookIInv, NEW w \in Workers, ReadsStock(w)
  PROVE  /\ at[w] = "read_stock" /\ Does(w, {}, Sees(w), "update_stock")
         /\ Others(w, {"seen"}) /\ my'[w].seen = Sees(w)[StockKey(Item(w))]
<1>1. /\ at[w] = "read_stock" /\ attempts' = attempts /\ torn' = torn /\ Reads
      /\ KeepsSeen(w, Sees(w)[StockKey(Item(w))]) /\ GoesTo(w, "update_stock")
  BY DEF ReadsStock, At
<1>2. QED
  BY <1>1, MyShape, FieldMoves, ReadsAsWrites DEF Does

LEMMA UpdatesStockDoes ==
  ASSUME BookIInv, NEW w \in Workers, UpdatesStock(w)
  PROVE  LET k == StockKey(Item(w))
             row == Restocked(my[w].seen, Quantity(w))
         IN  /\ at[w] = "update_stock" /\ Others(w, {})
             /\ Does(w, {k}, With(Sees(w), [x \in {k} |-> row]), "insert_line")
BY PutDoes DEF UpdatesStock, At

LEMMA InsertsLineDoes ==
  ASSUME BookIInv, NEW w \in Workers, InsertsLine(w)
  PROVE  LET k == LineKey(my[w].d, my[w].o, my[w].n, my[w].id)
             row == Line(Item(w), Quantity(w), FALSE)
         IN  /\ at[w] = "insert_line" /\ Others(w, {"n", "seen"}) /\ my'[w].n = my[w].n + 1
             /\ Does(w, {k}, With(Sees(w), [x \in {k} |-> row]),
                     IF my[w].n < Len(my[w].lines) THEN "read_stock" ELSE "commit")
<1> DEFINE k == LineKey(my[w].d, my[w].o, my[w].n, my[w].id)
           new == [x \in {k} |-> Line(Item(w), Quantity(w), FALSE)]
           place == IF my[w].n < Len(my[w].lines) THEN "read_stock" ELSE "commit"
           m == [my[w] EXCEPT !.n = @ + 1, !.seen = 0]
<1>1. /\ at[w] = "insert_line" /\ attempts' = attempts /\ torn' = torn
      /\ Writes(w, DOMAIN new, With(Sees(w), new))
      /\ my' = [my EXCEPT ![w] = m] /\ GoesTo(w, place)
  BY DEF InsertsLine, At, Puts, PutsAll
<1>2. Tabled /\ IsDraw(my[w])
  BY <1>1, MyShape
<1>3. DOMAIN new = {k}
  OBVIOUS
<1>4. /\ m.o = my[w].o /\ m.id = my[w].id /\ m.d = my[w].d /\ m.c = my[w].c
      /\ m.cd = my[w].cd /\ m.lines = my[w].lines /\ m.amount = my[w].amount
      /\ m.n = my[w].n + 1
  BY <1>2 DEF IsDraw
<1> HIDE DEF new, m, place
<1>5. Steps(w) /\ at'[w] = place /\ my'[w] = m
  BY <1>1, <1>2, Moves
<1>6. QED
  BY <1>1, <1>3, <1>4, <1>5 DEF Does, Others, new, place

LEMMA UpdatesWarehouseDoes ==
  ASSUME BookIInv, NEW w \in Workers, UpdatesWarehouse(w)
  PROVE  LET k == WarehouseKey
             row == [Sees(w)[k] EXCEPT !.ytd = @ + my[w].amount]
         IN  /\ at[w] = "update_warehouse" /\ Others(w, {})
             /\ Does(w, {k}, With(Sees(w), [x \in {k} |-> row]), "update_district")
BY PutDoes DEF UpdatesWarehouse, At

LEMMA UpdatesDistrictDoes ==
  ASSUME BookIInv, NEW w \in Workers, UpdatesDistrict(w)
  PROVE  LET k == DistrictKey(my[w].d)
             row == [Sees(w)[k] EXCEPT !.ytd = @ + my[w].amount]
         IN  /\ at[w] = "update_district" /\ Others(w, {})
             /\ Does(w, {k}, With(Sees(w), [x \in {k} |-> row]), "read_customer")
BY PutDoes DEF UpdatesDistrict, At

LEMMA ReadsCustomerDoes ==
  ASSUME BookIInv, NEW w \in Workers, ReadsCustomer(w)
  PROVE  /\ at[w] = "read_customer" /\ Does(w, {}, Sees(w), "update_customer")
         /\ Others(w, {"seen"}) /\ my'[w].seen = Sees(w)[CustomerKey(my[w].cd, my[w].c)]
<1>1. /\ at[w] = "read_customer" /\ attempts' = attempts /\ torn' = torn /\ Reads
      /\ KeepsSeen(w, Sees(w)[CustomerKey(my[w].cd, my[w].c)]) /\ GoesTo(w, "update_customer")
  BY DEF ReadsCustomer, At
<1>2. QED
  BY <1>1, MyShape, FieldMoves, ReadsAsWrites DEF Does

LEMMA UpdatesCustomerDoes ==
  ASSUME BookIInv, NEW w \in Workers, UpdatesCustomer(w)
  PROVE  LET k == CustomerKey(my[w].cd, my[w].c)
             row == [Sees(w)[k] EXCEPT !.balance = my[w].seen.balance - my[w].amount,
                                       !.ytd = my[w].seen.ytd + my[w].amount,
                                       !.payments = my[w].seen.payments + 1]
         IN  /\ at[w] = "update_customer" /\ Others(w, {})
             /\ Does(w, {k}, With(Sees(w), [x \in {k} |-> row]), "insert_history")
BY PutDoes DEF UpdatesCustomer, At

LEMMA InsertsHistoryDoes ==
  ASSUME BookIInv, NEW w \in Workers, InsertsHistory(w)
  PROVE  LET k == HistoryKey(my[w].cd, my[w].c, my[w].id)
             row == [d |-> my[w].d, amount |-> my[w].amount]
         IN  /\ at[w] = "insert_history" /\ Others(w, {})
             /\ Does(w, {k}, With(Sees(w), [x \in {k} |-> row]), "commit")
BY PutDoes DEF InsertsHistory, At

LEMMA NextDistrictDoes ==
  ASSUME Tabled, NEW w \in Workers, NextDistrict(w), IsDraw(my[w]), my[w].d \in Districts
  PROVE  /\ Steps(w) /\ Others(w, {"d", "o", "c", "seen"})
         /\ at'[w] = IF my[w].d < NumDistricts THEN "find_oldest" ELSE "commit"
         /\ my'[w].d = IF my[w].d < NumDistricts THEN my[w].d + 1 ELSE my[w].d
         /\ my'[w].d \in Districts /\ my'[w].o = 0
<1> DEFINE place == IF my[w].d < NumDistricts THEN "find_oldest" ELSE "commit"
           m == [my[w] EXCEPT !.d = IF @ < NumDistricts THEN @ + 1 ELSE @,
                              !.o = 0, !.c = 0, !.seen = 0]
<1>1. my' = [my EXCEPT ![w] = m] /\ GoesTo(w, place)
  BY DEF NextDistrict
<1>2. /\ m.id = my[w].id /\ m.cd = my[w].cd /\ m.lines = my[w].lines
      /\ m.amount = my[w].amount /\ m.n = my[w].n /\ m.o = 0
      /\ m.d = IF my[w].d < NumDistricts THEN my[w].d + 1 ELSE my[w].d
  BY DEF IsDraw
<1>3. m.d \in Districts
  BY <1>2, NumDistrictsAssumption DEF Districts
<1> HIDE DEF m, place
<1>4. Steps(w) /\ at'[w] = place /\ my'[w] = m
  BY <1>1, Moves
<1>5. QED
  BY <1>2, <1>3, <1>4 DEF Others, place

LEMMA FindsOldestDoes ==
  ASSUME BookIInv, NEW w \in Workers, FindsOldest(w)
  PROVE  LET ids == {k[3] : k \in OfDistrict(Sees(w), "new_orders", my[w].d)}
         IN  /\ at[w] = "find_oldest"
             /\ \/ ids = {} /\ NextDistrict(w)
                   /\ Does(w, {}, Sees(w),
                           IF my[w].d < NumDistricts THEN "find_oldest" ELSE "commit")
                \/ ids # {} /\ Does(w, {}, Sees(w), "delete_new_order")
                   /\ Others(w, {"o"}) /\ my'[w].o = Min(ids)
<1> DEFINE ids == {k[3] : k \in OfDistrict(Sees(w), "new_orders", my[w].d)}
<1>1. /\ at[w] = "find_oldest" /\ attempts' = attempts /\ torn' = torn /\ Reads
      /\ \/ ids = {} /\ NextDistrict(w)
         \/ ids # {} /\ KeepsId(w, Min(ids)) /\ GoesTo(w, "delete_new_order")
  BY DEF FindsOldest, At
<1> HIDE DEF ids
<1>2. Tabled /\ IsDraw(my[w]) /\ my[w].d \in Districts
  BY <1>1, MyShape
<1>3. Writes(w, {}, Sees(w))
  BY <1>1, ReadsAsWrites
<1>4. CASE ids = {} /\ NextDistrict(w)
  BY <1>1, <1>2, <1>3, <1>4, NextDistrictDoes DEF Does, ids
<1>5. CASE ids # {} /\ KeepsId(w, Min(ids)) /\ GoesTo(w, "delete_new_order")
  BY <1>1, <1>2, <1>3, <1>5, FieldMoves DEF Does, ids
<1>6. QED
  BY <1>1, <1>4, <1>5

LEMMA DeletesNewOrderDoes ==
  ASSUME BookIInv, NEW w \in Workers, DeletesNewOrder(w)
  PROVE  LET K == OfOrder(Sees(w), "new_orders", my[w].d, my[w].o)
         IN  /\ at[w] = "delete_new_order" /\ Others(w, {})
             /\ Does(w, K, Restrict(Sees(w), DOMAIN Sees(w) \ K), "update_order")
BY MyShape, FieldMoves DEF DeletesNewOrder, At, Deletes, Does

\* Rows are updated together.
LEMMA PutsAllDoes ==
  ASSUME BookIInv, NEW w \in Workers, at[w] # "idle", NEW new, PutsAll(w, new),
         attempts' = attempts, torn' = torn, KeepsAll, NEW place, GoesTo(w, place)
  PROVE  Does(w, DOMAIN new, With(Sees(w), new), place) /\ Others(w, {})
BY MyShape, FieldMoves DEF PutsAll, Does

LEMMA UpdatesOrderDoes ==
  ASSUME BookIInv, NEW w \in Workers, UpdatesOrder(w)
  PROVE  LET new == [k \in OfOrder(Sees(w), "orders", my[w].d, my[w].o) |->
                       [Sees(w)[k] EXCEPT !.carrier = 1]]
         IN  /\ at[w] = "update_order" /\ Others(w, {})
             /\ Does(w, DOMAIN new, With(Sees(w), new), "update_lines")
BY PutsAllDoes DEF UpdatesOrder, At

LEMMA UpdatesLinesDoes ==
  ASSUME BookIInv, NEW w \in Workers, UpdatesLines(w)
  PROVE  LET new == [k \in OfOrder(Sees(w), "order_line", my[w].d, my[w].o) |->
                       [Sees(w)[k] EXCEPT !.dated = TRUE]]
         IN  /\ at[w] = "update_lines" /\ Others(w, {})
             /\ Does(w, DOMAIN new, With(Sees(w), new), "read_order")
BY PutsAllDoes DEF UpdatesLines, At

LEMMA ReadsOrderDoes ==
  ASSUME BookIInv, NEW w \in Workers, ReadsOrder(w)
  PROVE  /\ at[w] = "read_order" /\ Does(w, {}, Sees(w), "sum_amounts")
         /\ Others(w, {"c"})
         /\ \E k \in OfOrder(Sees(w), "orders", my[w].d, my[w].o) : my'[w].c = Sees(w)[k].c
<1>1. /\ at[w] = "read_order" /\ attempts' = attempts /\ torn' = torn /\ Reads
      /\ GoesTo(w, "sum_amounts")
  BY DEF ReadsOrder, At
<1>2. PICK k \in OfOrder(Sees(w), "orders", my[w].d, my[w].o) :
             my' = [my EXCEPT ![w].c = Sees(w)[k].c]
  BY DEF ReadsOrder
<1>3. Steps(w) /\ at'[w] = "sum_amounts" /\ Others(w, {"c"}) /\ my'[w].c = Sees(w)[k].c
  BY <1>1, <1>2, MyShape, FieldMoves
<1>4. QED
  BY <1>1, <1>2, <1>3, ReadsAsWrites DEF Does

LEMMA SumsAmountsDoes ==
  ASSUME BookIInv, NEW w \in Workers, SumsAmounts(w)
  PROVE  /\ at[w] = "sum_amounts" /\ Does(w, {}, Sees(w), "credit_customer")
         /\ Others(w, {"seen"})
         /\ my'[w].seen =
              SumOfAmounts(Sees(w), OfOrder(Sees(w), "order_line", my[w].d, my[w].o))
<1>1. /\ at[w] = "sum_amounts" /\ attempts' = attempts /\ torn' = torn /\ Reads
      /\ KeepsSeen(w, SumOfAmounts(Sees(w), OfOrder(Sees(w), "order_line", my[w].d, my[w].o)))
      /\ GoesTo(w, "credit_customer")
  BY DEF SumsAmounts, At
<1>2. QED
  BY <1>1, MyShape, FieldMoves, ReadsAsWrites DEF Does

LEMMA CreditsCustomerDoes ==
  ASSUME BookIInv, NEW w \in Workers, CreditsCustomer(w)
  PROVE  LET k == CustomerKey(my[w].d, my[w].c)
             row == [Sees(w)[k] EXCEPT !.balance = @ + my[w].seen, !.deliveries = @ + 1]
         IN  /\ at[w] = "credit_customer" /\ NextDistrict(w)
             /\ Does(w, {k}, With(Sees(w), [x \in {k} |-> row]),
                     IF my[w].d < NumDistricts THEN "find_oldest" ELSE "commit")
<1> DEFINE k == CustomerKey(my[w].d, my[w].c)
           new == [x \in {k} |-> [Sees(w)[k] EXCEPT !.balance = @ + my[w].seen,
                                                    !.deliveries = @ + 1]]
<1>1. /\ at[w] = "credit_customer" /\ attempts' = attempts /\ torn' = torn /\ NextDistrict(w)
      /\ Writes(w, DOMAIN new, With(Sees(w), new))
  BY DEF CreditsCustomer, At, Puts, PutsAll
<1>2. DOMAIN new = {k}
  OBVIOUS
<1> HIDE DEF new
<1>3. QED
  BY <1>1, <1>2, MyShape, NextDistrictDoes DEF Does, new

---------------------------------------------------------------------------
(* Rows keep their columns. *)

LEMMA GoodSees ==
  ASSUME RowIInv, NEW w \in Workers
  PROVE  Good(Sees(w))
BY DEF RowIInv, RowShape, Sees

LEMMA RowBystander ==
  ASSUME NEW v \in Workers, RowShape(v), attempts \in Nat, attempts' \in Nat,
         attempts <= attempts',
         view'[v] = view[v], wrote'[v] = wrote[v], open'[v] = open[v],
         at'[v] = at[v], my'[v] = my[v]
  PROVE  RowShape(v)'
<1>1. DrawTyped(v) => DrawTyped(v)'
  BY DEF DrawTyped, IsNewOrder, IsPayment, IsDelivery
<1>2. SeenFits(v) => SeenFits(v)'
  BY DEF SeenFits, Item
<1>3. Good(view[v]) => Good(view[v])'
  BY DEF Good, Typed
<1>4. QED
  BY <1>1, <1>2, <1>3 DEF RowShape

LEMMA RowWrite ==
  ASSUME BookIInv, RowIInv, NEW w \in Workers, NEW K, NEW rows, NEW place,
         Does(w, K, rows, place), IsFiniteSet(K), Good(rows),
         at[w] # "idle", place \in Places,
         place \in NewOrderPlaces \cup PaymentPlaces => open[w],
         DrawTyped(w)', SeenFits(w)'
  PROVE  RowIInv'
<1>1. /\ Writes(w, K, rows) /\ Steps(w) /\ at'[w] = place
      /\ attempts' = attempts /\ torn' = torn
  BY DEF Does
<1>2. /\ open' = open
      /\ \A v \in Workers \ {w} : view'[v] = view[v] /\ wrote'[v] = wrote[v]
      /\ open[w] => db' = db /\ view'[w] = rows /\ wrote'[w] = wrote[w] \cup K
      /\ ~open[w] => db' = rows /\ view'[w] = view[w] /\ wrote'[w] = wrote[w]
  BY <1>1, WriteSplits
<1>3. Good(db)'
  BY <1>2 DEF RowIInv, Good, Typed
<1>4. RowShape(w)'
  <2>1. RowShape(w)
    BY DEF RowIInv
  <2>2. IsFiniteSet(wrote'[w])
    BY <1>2, <2>1, FS_Union DEF RowShape
  <2>3. Good(view[w])' <=> Good(view'[w])
    BY DEF Good, Typed
  <2>4. QED
    BY <1>1, <1>2, <2>1, <2>2, <2>3 DEF RowShape
<1>5. ASSUME NEW v \in Workers \ {w}
      PROVE  RowShape(v)'
  <2>1. RowShape(v) /\ attempts \in Nat
    BY MaxAttemptsAssumption DEF RowIInv
  <2>2. at'[v] = at[v] /\ my'[v] = my[v] /\ attempts' \in Nat /\ attempts <= attempts'
    BY <1>1, <2>1 DEF Steps
  <2>3. QED
    BY <1>2, <2>1, <2>2, RowBystander
<1>6. QED
  BY <1>1, <1>3, <1>4, <1>5 DEF RowIInv

\* A query, whose answer SeenFits is about.
LEMMA RowRead ==
  ASSUME BookIInv, RowIInv, NEW w \in Workers, NEW place,
         Does(w, {}, Sees(w), place),
         at[w] # "idle", place \in Places,
         place \in NewOrderPlaces \cup PaymentPlaces => open[w],
         DrawTyped(w)', SeenFits(w)'
  PROVE  RowIInv'
BY GoodSees, FS_EmptySet, RowWrite

\* What an attempt drew is not overwritten.
LEMMA DrawKept ==
  ASSUME NEW w \in Workers, DrawTyped(w), attempts' = attempts,
         NEW F, Others(w, F), F \subseteq {"d", "o", "c", "seen", "n"},
         "n" \in F => F = {"n", "seen"} /\ my[w].n \in 1..Len(my[w].lines)
                      /\ my'[w].n = my[w].n + 1 /\ my[w].lines \in Lines
                      /\ at[w] \in NewOrderPlaces
                      /\ at'[w] = IF my[w].n < Len(my[w].lines) THEN "read_stock" ELSE "commit",
         "d" \in F => my'[w].d \in Districts,
         "o" \in F => my'[w].o \in Nat,
         "c" \in F => IsDelivery(w),
         "n" \notin F =>
           /\ at'[w] \in NewOrderPlaces => at[w] \in NewOrderPlaces
           /\ at'[w] \in PaymentPlaces => at[w] \in PaymentPlaces
           /\ at'[w] \in DeliveryPlaces => at[w] \in DeliveryPlaces
           /\ at'[w] = "commit" => at[w] \in PaymentPlaces \cup DeliveryPlaces
  PROVE  DrawTyped(w)'
<1>1. /\ my'[w].d \in Districts /\ my'[w].o \in Nat /\ my'[w].id \in 1..attempts
      /\ my'[w].cd = my[w].cd /\ my'[w].lines = my[w].lines /\ my'[w].amount = my[w].amount
  BY DEF DrawTyped, Others
<1>2. (IsNewOrder(w)' <=> IsNewOrder(w)) /\ (IsPayment(w)' <=> IsPayment(w))
      /\ (IsDelivery(w)' <=> IsDelivery(w))
  BY <1>1 DEF IsNewOrder, IsPayment, IsDelivery
<1>3. IsNewOrder(w) \/ IsPayment(w) => my'[w].c = my[w].c
  BY DEF IsNewOrder, IsPayment, IsDelivery, Others
<1>4. CASE "n" \in F
  <2>1. Len(my[w].lines) \in Nat \ {0} /\ IsNewOrder(w)
    BY <1>4, BasketShape DEF IsNewOrder
  <2>2. my'[w].n \in 1..(Len(my[w].lines) + 1)
    BY <1>4, <2>1
  <2>3. /\ at'[w] \in NewOrderPlaces => my'[w].n \in 1..Len(my[w].lines)
        /\ at'[w] = "commit" => my'[w].n = Len(my[w].lines) + 1
        /\ at'[w] \notin PaymentPlaces \cup DeliveryPlaces
    BY <1>4, <2>1 DEF NewOrderPlaces, PaymentPlaces, DeliveryPlaces
  <2>4. ~IsPayment(w)
    BY <2>1 DEF IsNewOrder, IsPayment
  <2>5. QED
    BY <1>1, <1>2, <1>3, <2>1, <2>2, <2>3, <2>4 DEF DrawTyped
<1>5. CASE "n" \notin F
  <2>1. my'[w].n = my[w].n
    BY <1>5 DEF Others
  <2>2. at[w] \in PaymentPlaces \cup DeliveryPlaces => ~IsNewOrder(w)
    BY DEF DrawTyped, IsNewOrder, IsPayment, IsDelivery
  <2>3. QED
    BY <1>1, <1>2, <1>3, <1>5, <2>1, <2>2 DEF DrawTyped
<1>6. QED
  BY <1>4, <1>5

LEMMA NoSeen ==
  ASSUME NEW w, at'[w] \notin {"update_stock", "update_customer", "sum_amounts",
                               "credit_customer"}
  PROVE  SeenFits(w)'
BY DEF SeenFits

\* What NewOrder knows.
LEMMA NewOrderKnows ==
  ASSUME RowIInv, NEW w \in Workers, at[w] \in NewOrderPlaces
  PROVE  /\ DrawTyped(w) /\ SeenFits(w) /\ open[w] /\ Good(view[w]) /\ Sees(w) = view[w]
         /\ at[w] # "idle" /\ IsNewOrder(w) /\ my[w].lines \in Lines
         /\ my[w].n \in 1..Len(my[w].lines) /\ Len(my[w].lines) \in Nat \ {0}
         /\ Item(w) \in Items /\ Quantity(w) \in 1..10
<1>1. RowShape(w) /\ at[w] # "idle"
  BY DEF RowIInv, NewOrderPlaces
<1>2. DrawTyped(w) /\ SeenFits(w) /\ open[w] /\ Good(view[w])
  BY <1>1 DEF RowShape
<1>3. IsNewOrder(w) /\ my[w].lines \in Lines /\ my[w].n \in 1..Len(my[w].lines)
  BY <1>2, BasketsAssumption DEF DrawTyped
<1>4. QED
  BY <1>1, <1>2, <1>3, BasketShape DEF Sees, Item, Quantity

LEMMA PaymentKnows ==
  ASSUME RowIInv, NEW w \in Workers, at[w] \in PaymentPlaces
  PROVE  /\ DrawTyped(w) /\ SeenFits(w) /\ open[w] /\ Good(view[w]) /\ Sees(w) = view[w]
         /\ at[w] # "idle" /\ IsPayment(w) /\ my[w].d \in Districts /\ my[w].cd \in Districts
         /\ my[w].c \in Customers /\ my[w].amount \in Nat
<1>1. RowShape(w) /\ at[w] # "idle"
  BY DEF RowIInv, PaymentPlaces
<1>2. DrawTyped(w) /\ SeenFits(w) /\ open[w] /\ Good(view[w])
  BY <1>1 DEF RowShape
<1>3. QED
  BY <1>1, <1>2, AmountsAssumption DEF DrawTyped, Sees

LEMMA DeliveryKnows ==
  ASSUME RowIInv, NEW w \in Workers, at[w] \in DeliveryPlaces
  PROVE  /\ DrawTyped(w) /\ SeenFits(w) /\ Good(Sees(w))
         /\ at[w] # "idle" /\ IsDelivery(w) /\ my[w].d \in Districts
<1>1. RowShape(w) /\ at[w] # "idle"
  BY DEF RowIInv, DeliveryPlaces
<1>2. DrawTyped(w) /\ SeenFits(w)
  BY <1>1 DEF RowShape
<1>3. QED
  BY <1>1, <1>2, GoodSees DEF DrawTyped

LEMMA NewOrderRows ==
  ASSUME BookIInv, RowIInv, NEW w \in Workers,
         \/ ReadsDistrict(w) \/ TakesId(w) \/ InsertsOrder(w) \/ InsertsNewOrder(w)
         \/ ReadsStock(w) \/ UpdatesStock(w) \/ InsertsLine(w)
  PROVE  RowIInv'
<1> USE DEF NewOrderPlaces, PaymentPlaces, DeliveryPlaces, Places
<1>1. CASE ReadsDistrict(w)
  <2>1. /\ at[w] = "read_district" /\ Does(w, {}, Sees(w), "take_id")
        /\ Others(w, {"o"}) /\ my'[w].o = NextId(Sees(w), my[w].d)
    BY <1>1, ReadsDistrictDoes
  <2>2. DrawTyped(w) /\ open[w] /\ my'[w].o \in Nat
    BY <2>1, NewOrderKnows, MyShape, HasDistrict
  <2>3. at'[w] = "take_id" /\ attempts' = attempts
    BY <2>1 DEF Does
  <2>4. DrawTyped(w)'
    BY <2>1, <2>2, <2>3, DrawKept
  <2>5. SeenFits(w)'
    BY <2>3, NoSeen
  <2>6. QED
    BY <2>1, <2>2, <2>4, <2>5, RowRead
<1>2. CASE TakesId(w)
  <2> DEFINE k == DistrictKey(my[w].d)
             row == [Sees(w)[k] EXCEPT !.next = @ + 1]
             rows == With(Sees(w), [x \in {k} |-> row])
  <2>1. at[w] = "take_id" /\ Others(w, {}) /\ Does(w, {k}, rows, "insert_order")
    BY <1>2, TakesIdDoes
  <2>2. DrawTyped(w) /\ open[w] /\ Good(Sees(w)) /\ my[w].d \in Districts
    BY <2>1, NewOrderKnows, GoodSees DEF DrawTyped
  <2>3. Typed(k, row)
    <3>1. k[1] = "district" /\ k \in DOMAIN Sees(w)
      BY <2>2, KeyShape, FixedKeys DEF Good
    <3>2. Sees(w)[k] \in [next : Nat, ytd : Nat]
      BY <2>2, <3>1 DEF Good, Typed
    <3>3. QED
      BY <3>1, <3>2 DEF Typed
  <2>4. at'[w] = "insert_order" /\ attempts' = attempts /\ IsFiniteSet({k})
    BY <2>1, FS_Singleton DEF Does
  <2> HIDE DEF row, k
  <2>5. Good(rows)
    BY <2>2, <2>3, GoodPut
  <2> HIDE DEF rows
  <2>6. DrawTyped(w)' /\ SeenFits(w)'
    BY <2>1, <2>2, <2>4, DrawKept, NoSeen
  <2>7. QED
    BY <2>1, <2>2, <2>4, <2>5, <2>6, RowWrite
<1>3. CASE InsertsOrder(w)
  <2> DEFINE k == OrderKey(my[w].d, my[w].o, my[w].id)
             row == Order(my[w].c, Len(my[w].lines), -1)
             rows == With(Sees(w), [x \in {k} |-> row])
  <2>1. at[w] = "insert_order" /\ Others(w, {}) /\ Does(w, {k}, rows, "insert_new_order")
    BY <1>3, InsertsOrderDoes
  <2>2. /\ DrawTyped(w) /\ open[w] /\ Good(Sees(w)) /\ my[w].c \in Customers
        /\ Len(my[w].lines) \in Nat
    BY <2>1, NewOrderKnows, GoodSees DEF DrawTyped
  <2>3. Typed(k, row)
    BY <2>2, KeyShape DEF Typed, Order
  <2>4. at'[w] = "insert_new_order" /\ attempts' = attempts /\ IsFiniteSet({k})
    BY <2>1, FS_Singleton DEF Does
  <2> HIDE DEF row, k
  <2>5. Good(rows)
    BY <2>2, <2>3, GoodPut
  <2> HIDE DEF rows
  <2>6. DrawTyped(w)' /\ SeenFits(w)'
    BY <2>1, <2>2, <2>4, DrawKept, NoSeen
  <2>7. QED
    BY <2>1, <2>2, <2>4, <2>5, <2>6, RowWrite
<1>4. CASE InsertsNewOrder(w)
  <2> DEFINE k == NewOrderKey(my[w].d, my[w].o, my[w].id)
             row == [o_id |-> my[w].o]
             rows == With(Sees(w), [x \in {k} |-> row])
  <2>1. at[w] = "insert_new_order" /\ Others(w, {}) /\ Does(w, {k}, rows, "read_stock")
    BY <1>4, InsertsNewOrderDoes
  <2>2. DrawTyped(w) /\ open[w] /\ Good(Sees(w)) /\ my[w].o \in Nat
    BY <2>1, NewOrderKnows, GoodSees DEF DrawTyped
  <2>3. Typed(k, row)
    BY <2>2, KeyColumns DEF Typed
  <2>4. at'[w] = "read_stock" /\ attempts' = attempts /\ IsFiniteSet({k})
    BY <2>1, FS_Singleton DEF Does
  <2> HIDE DEF row, k
  <2>5. Good(rows)
    BY <2>2, <2>3, GoodPut
  <2> HIDE DEF rows
  <2>6. DrawTyped(w)' /\ SeenFits(w)'
    BY <2>1, <2>2, <2>4, DrawKept, NoSeen
  <2>7. QED
    BY <2>1, <2>2, <2>4, <2>5, <2>6, RowWrite
<1>5. CASE ReadsStock(w)
  <2>1. /\ at[w] = "read_stock" /\ Does(w, {}, Sees(w), "update_stock")
        /\ Others(w, {"seen"}) /\ my'[w].seen = Sees(w)[StockKey(Item(w))]
    BY <1>5, ReadsStockDoes
  <2>2. DrawTyped(w) /\ open[w] /\ Sees(w) = view[w]
    BY <2>1, NewOrderKnows
  <2>3. at'[w] = "update_stock" /\ attempts' = attempts /\ Writes(w, {}, Sees(w))
    BY <2>1 DEF Does
  <2>4. DrawTyped(w)'
    BY <2>1, <2>2, <2>3, DrawKept
  <2>5. SeenFits(w)'
    <3>1. view'[w] = view[w]
      BY <2>2, <2>3, WriteSplits
    <3>2. Item(w)' = Item(w)
      BY <2>1 DEF Item, Others
    <3>3. QED
      BY <2>1, <2>2, <2>3, <3>1, <3>2 DEF SeenFits
  <2>6. QED
    BY <2>1, <2>2, <2>4, <2>5, RowRead
<1>6. CASE UpdatesStock(w)
  <2> DEFINE k == StockKey(Item(w))
             row == Restocked(my[w].seen, Quantity(w))
             rows == With(Sees(w), [x \in {k} |-> row])
  <2>1. at[w] = "update_stock" /\ Others(w, {}) /\ Does(w, {k}, rows, "insert_line")
    BY <1>6, UpdatesStockDoes
  <2>2. /\ DrawTyped(w) /\ open[w] /\ Good(view[w]) /\ Sees(w) = view[w]
        /\ Item(w) \in Items /\ Quantity(w) \in 1..10
        /\ my[w].seen = view[w][k]
    BY <2>1, NewOrderKnows DEF SeenFits
  <2>3. Typed(k, row)
    <3>1. k[1] = "stock" /\ k \in DOMAIN view[w]
      BY <2>2, OtherKeys, FixedKeys DEF Good
    <3>2. Typed(k, view[w][k])
      BY <2>2, <3>1 DEF Good
    <3> DEFINE s == view[w][k]  q == Quantity(w)
    <3>3. /\ s \in [quantity : 10..100, ytd : Nat, orders : Nat]
          /\ (s.quantity + s.ytd - InitStock) % 91 = 0
      BY <3>1, <3>2 DEF Typed
    <3>4. row = [s EXCEPT !.quantity = IF @ >= q + 10 THEN @ - q ELSE @ - q + 91,
                          !.ytd = @ + q, !.orders = @ + 1]
      BY <2>2 DEF Restocked
    <3>5. q \in 1..10
      BY <2>2
    <3> HIDE DEF s, q, row
    <3>6. /\ row \in [quantity : 10..100, ytd : Nat, orders : Nat]
          /\ row.quantity = IF s.quantity >= q + 10 THEN s.quantity - q ELSE s.quantity - q + 91
          /\ row.ytd = s.ytd + q
      <4>1. /\ s.quantity \in 10..100 /\ s.ytd \in Nat /\ s.orders \in Nat
        BY <3>3
      <4>2. /\ row.quantity = IF s.quantity >= q + 10 THEN s.quantity - q ELSE s.quantity - q + 91
            /\ row.ytd = s.ytd + q /\ row.orders = s.orders + 1
            /\ row = [quantity |-> row.quantity, ytd |-> row.ytd, orders |-> row.orders]
        BY <3>3, <3>4
      <4>3. row.quantity \in 10..100 /\ row.ytd \in Nat /\ row.orders \in Nat
        BY <3>5, <4>1, <4>2
      <4>4. QED
        BY <4>2, <4>3
    <3>7. (row.quantity + row.ytd - InitStock) % 91 = 0
      <4>1. /\ s.quantity \in 10..100 /\ s.ytd \in Nat /\ InitStock \in Int
        BY <3>3, InitStockAssumption
      <4>2. \/ row.quantity + row.ytd - InitStock = s.quantity + s.ytd - InitStock
            \/ row.quantity + row.ytd - InitStock = (s.quantity + s.ytd - InitStock) + 91
        BY <3>5, <3>6, <4>1
      <4>3. s.quantity + s.ytd - InitStock \in Int
        BY <4>1
      <4>4. \A x \in Int : x % 91 = 0 => (x + 91) % 91 = 0
        OBVIOUS
      <4>5. QED
        BY <3>3, <4>2, <4>3, <4>4
    <3>8. QED
      BY <3>1, <3>6, <3>7 DEF Typed
  <2>4. at'[w] = "insert_line" /\ attempts' = attempts /\ IsFiniteSet({k})
    BY <2>1, FS_Singleton DEF Does
  <2> HIDE DEF row, k
  <2>5. Good(rows)
    <3>1. Good(Sees(w))
      BY <2>2
    <3>2. QED
      BY <2>3, <3>1, GoodPut
  <2> HIDE DEF rows
  <2>6. DrawTyped(w)' /\ SeenFits(w)'
    BY <2>1, <2>2, <2>4, DrawKept, NoSeen
  <2>7. QED
    BY <2>1, <2>2, <2>4, <2>5, <2>6, RowWrite
<1>7. CASE InsertsLine(w)
  <2> DEFINE k == LineKey(my[w].d, my[w].o, my[w].n, my[w].id)
             row == Line(Item(w), Quantity(w), FALSE)
             rows == With(Sees(w), [x \in {k} |-> row])
             place == IF my[w].n < Len(my[w].lines) THEN "read_stock" ELSE "commit"
  <2>1. /\ at[w] = "insert_line" /\ Others(w, {"n", "seen"}) /\ my'[w].n = my[w].n + 1
        /\ Does(w, {k}, rows, place)
    BY <1>7, InsertsLineDoes
  <2>2. /\ DrawTyped(w) /\ open[w] /\ Good(Sees(w))
        /\ Item(w) \in Items /\ Quantity(w) \in 1..10
        /\ my[w].lines \in Lines /\ my[w].n \in 1..Len(my[w].lines)
    BY <2>1, NewOrderKnows, GoodSees
  <2>3. Typed(k, row)
    BY <2>2, OtherKeys DEF Typed, Line
  <2>4. /\ at'[w] = place /\ attempts' = attempts /\ IsFiniteSet({k})
        /\ place \in {"read_stock", "commit"}
    BY <2>1, FS_Singleton DEF Does
  <2> HIDE DEF row, k
  <2>5. Good(rows)
    BY <2>2, <2>3, GoodPut
  <2> HIDE DEF rows
  <2>6. DrawTyped(w)'
    BY <2>1, <2>2, <2>4, DrawKept
  <2>7. SeenFits(w)'
    BY <2>4, NoSeen
  <2> HIDE DEF place
  <2>8. QED
    BY <2>1, <2>2, <2>4, <2>5, <2>6, <2>7, RowWrite
<1>8. QED
  BY <1>1, <1>2, <1>3, <1>4, <1>5, <1>6, <1>7

LEMMA PaymentRows ==
  ASSUME BookIInv, RowIInv, NEW w \in Workers,
         \/ UpdatesWarehouse(w) \/ UpdatesDistrict(w) \/ ReadsCustomer(w)
         \/ UpdatesCustomer(w) \/ InsertsHistory(w)
  PROVE  RowIInv'
<1> USE DEF NewOrderPlaces, PaymentPlaces, DeliveryPlaces, Places
<1>1. CASE UpdatesWarehouse(w)
  <2> DEFINE k == WarehouseKey
             row == [Sees(w)[k] EXCEPT !.ytd = @ + my[w].amount]
             rows == With(Sees(w), [x \in {k} |-> row])
  <2>1. at[w] = "update_warehouse" /\ Others(w, {}) /\ Does(w, {k}, rows, "update_district")
    BY <1>1, UpdatesWarehouseDoes
  <2>2. DrawTyped(w) /\ open[w] /\ Good(Sees(w)) /\ my[w].amount \in Nat
    BY <2>1, PaymentKnows, GoodSees
  <2>3. Typed(k, row)
    <3>1. k[1] = "warehouse" /\ k \in DOMAIN Sees(w)
      BY <2>2, OtherKeys, FixedKeys DEF Good
    <3>2. Sees(w)[k] \in [ytd : Nat]
      BY <2>2, <3>1 DEF Good, Typed
    <3>3. QED
      BY <2>2, <3>1, <3>2 DEF Typed
  <2>4. at'[w] = "update_district" /\ attempts' = attempts /\ IsFiniteSet({k})
    BY <2>1, FS_Singleton DEF Does
  <2> HIDE DEF row, k
  <2>5. Good(rows)
    BY <2>2, <2>3, GoodPut
  <2> HIDE DEF rows
  <2>6. DrawTyped(w)' /\ SeenFits(w)'
    BY <2>1, <2>2, <2>4, DrawKept, NoSeen
  <2>7. QED
    BY <2>1, <2>2, <2>4, <2>5, <2>6, RowWrite
<1>2. CASE UpdatesDistrict(w)
  <2> DEFINE k == DistrictKey(my[w].d)
             row == [Sees(w)[k] EXCEPT !.ytd = @ + my[w].amount]
             rows == With(Sees(w), [x \in {k} |-> row])
  <2>1. at[w] = "update_district" /\ Others(w, {}) /\ Does(w, {k}, rows, "read_customer")
    BY <1>2, UpdatesDistrictDoes
  <2>2. DrawTyped(w) /\ open[w] /\ Good(Sees(w)) /\ my[w].amount \in Nat /\ my[w].d \in Districts
    BY <2>1, PaymentKnows, GoodSees
  <2>3. Typed(k, row)
    <3>1. k[1] = "district" /\ k \in DOMAIN Sees(w)
      BY <2>2, KeyShape, FixedKeys DEF Good
    <3>2. Sees(w)[k] \in [next : Nat, ytd : Nat]
      BY <2>2, <3>1 DEF Good, Typed
    <3>3. QED
      BY <2>2, <3>1, <3>2 DEF Typed
  <2>4. at'[w] = "read_customer" /\ attempts' = attempts /\ IsFiniteSet({k})
    BY <2>1, FS_Singleton DEF Does
  <2> HIDE DEF row, k
  <2>5. Good(rows)
    BY <2>2, <2>3, GoodPut
  <2> HIDE DEF rows
  <2>6. DrawTyped(w)' /\ SeenFits(w)'
    BY <2>1, <2>2, <2>4, DrawKept, NoSeen
  <2>7. QED
    BY <2>1, <2>2, <2>4, <2>5, <2>6, RowWrite
<1>3. CASE ReadsCustomer(w)
  <2>1. /\ at[w] = "read_customer" /\ Does(w, {}, Sees(w), "update_customer")
        /\ Others(w, {"seen"}) /\ my'[w].seen = Sees(w)[CustomerKey(my[w].cd, my[w].c)]
    BY <1>3, ReadsCustomerDoes
  <2>2. DrawTyped(w) /\ open[w] /\ Sees(w) = view[w]
    BY <2>1, PaymentKnows
  <2>3. at'[w] = "update_customer" /\ attempts' = attempts /\ Writes(w, {}, Sees(w))
    BY <2>1 DEF Does
  <2>4. DrawTyped(w)'
    BY <2>1, <2>2, <2>3, DrawKept
  <2>5. SeenFits(w)'
    <3>1. view'[w] = view[w]
      BY <2>2, <2>3, WriteSplits
    <3>2. my'[w].cd = my[w].cd /\ my'[w].c = my[w].c
      BY <2>1 DEF Others
    <3>3. QED
      BY <2>1, <2>2, <2>3, <3>1, <3>2 DEF SeenFits
  <2>6. QED
    BY <2>1, <2>2, <2>4, <2>5, RowRead
<1>4. CASE UpdatesCustomer(w)
  <2> DEFINE k == CustomerKey(my[w].cd, my[w].c)
             row == [Sees(w)[k] EXCEPT !.balance = my[w].seen.balance - my[w].amount,
                                       !.ytd = my[w].seen.ytd + my[w].amount,
                                       !.payments = my[w].seen.payments + 1]
             rows == With(Sees(w), [x \in {k} |-> row])
  <2>1. at[w] = "update_customer" /\ Others(w, {}) /\ Does(w, {k}, rows, "insert_history")
    BY <1>4, UpdatesCustomerDoes
  <2>2. /\ DrawTyped(w) /\ open[w] /\ Good(Sees(w)) /\ my[w].amount \in Nat
        /\ my[w].cd \in Districts /\ my[w].c \in Customers /\ my[w].seen = Sees(w)[k]
    BY <2>1, PaymentKnows, GoodSees DEF SeenFits
  <2>3. Typed(k, row)
    <3>1. k[1] = "customer" /\ k \in DOMAIN Sees(w)
      BY <2>2, OtherKeys, FixedKeys DEF Good
    <3>2. Sees(w)[k] \in [balance : Int, ytd : Nat, payments : Nat, deliveries : Nat]
      BY <2>2, <3>1 DEF Good, Typed
    <3> DEFINE s == Sees(w)[k]  x == my[w].amount
    <3>3. row = [s EXCEPT !.balance = s.balance - x, !.ytd = s.ytd + x,
                          !.payments = s.payments + 1]
      BY <2>2
    <3>4. s \in [balance : Int, ytd : Nat, payments : Nat, deliveries : Nat] /\ x \in Nat
      BY <2>2, <3>2
    <3> HIDE DEF s, x, row
    <3>5. row \in [balance : Int, ytd : Nat, payments : Nat, deliveries : Nat]
      <4>1. /\ s.balance - x \in Int /\ s.ytd + x \in Nat /\ s.payments + 1 \in Nat
            /\ s.deliveries \in Nat
        BY <3>4
      <4>2. row = [balance |-> s.balance - x, ytd |-> s.ytd + x,
                   payments |-> s.payments + 1, deliveries |-> s.deliveries]
        BY <3>3, <3>4
      <4>3. QED
        BY <4>1, <4>2
    <3>6. QED
      BY <3>1, <3>5 DEF Typed
  <2>4. at'[w] = "insert_history" /\ attempts' = attempts /\ IsFiniteSet({k})
    BY <2>1, FS_Singleton DEF Does
  <2> HIDE DEF row, k
  <2>5. Good(rows)
    <3>1. Good(Sees(w))
      BY <2>2
    <3>2. QED
      BY <2>3, <3>1, GoodPut
  <2> HIDE DEF rows
  <2>6. DrawTyped(w)' /\ SeenFits(w)'
    BY <2>1, <2>2, <2>4, DrawKept, NoSeen
  <2>7. QED
    BY <2>1, <2>2, <2>4, <2>5, <2>6, RowWrite
<1>5. CASE InsertsHistory(w)
  <2> DEFINE k == HistoryKey(my[w].cd, my[w].c, my[w].id)
             row == [d |-> my[w].d, amount |-> my[w].amount]
             rows == With(Sees(w), [x \in {k} |-> row])
  <2>1. at[w] = "insert_history" /\ Others(w, {}) /\ Does(w, {k}, rows, "commit")
    BY <1>5, InsertsHistoryDoes
  <2>2. DrawTyped(w) /\ open[w] /\ Good(Sees(w)) /\ my[w].amount \in Nat /\ my[w].d \in Districts
    BY <2>1, PaymentKnows, GoodSees
  <2>3. Typed(k, row)
    BY <2>2, OtherKeys DEF Typed
  <2>4. at'[w] = "commit" /\ attempts' = attempts /\ IsFiniteSet({k})
    BY <2>1, FS_Singleton DEF Does
  <2> HIDE DEF row, k
  <2>5. Good(rows)
    BY <2>2, <2>3, GoodPut
  <2> HIDE DEF rows
  <2>6. DrawTyped(w)' /\ SeenFits(w)'
    BY <2>1, <2>2, <2>4, DrawKept, NoSeen
  <2>7. QED
    BY <2>1, <2>2, <2>4, <2>5, <2>6, RowWrite
<1>6. QED
  BY <1>1, <1>2, <1>3, <1>4, <1>5

\* SumOfAmounts is a sum.
LEMMA AmountsAre ==
  ASSUME NEW rows, NEW K, IsFiniteSet(K)
  PROVE  SumOfAmounts(rows, K) = SumOver([k \in K |-> rows[k].amount], K)
<1> DEFINE f == [k \in K |-> rows[k].amount]
           Solves(g) ==
             g = [s \in SUBSET K |->
                    IF s = {} THEN 0 ELSE rows[Chosen(s)].amount + g[s \ {Chosen(s)}]]
           h == CHOOSE g : Solves(g)
<1>1. SumOfAmounts(rows, K) = h[K]
  BY DEF SumOfAmounts, MapThenSumSet, MapThenFoldSet, Chosen
<1>2. \A s \in SUBSET K : s # {} => f[Chosen(s)] = rows[Chosen(s)].amount
  BY AnyOf
<1>3. \A g : Solves(g) <=> Acc(g, f, K)
  BY <1>2 DEF Acc
<1>4. \E g : Acc(g, f, K)
  BY AccExists
<1> HIDE DEF f, Solves
<1>5. Acc(h, f, K)
  BY <1>3, <1>4
<1> HIDE DEF h
<1>6. SumOver(f, K) = h[K]
  BY <1>5, SumAcc
<1>7. QED
  BY <1>1, <1>6 DEF f

LEMMA AmountsType ==
  ASSUME NEW rows, Good(rows), NEW d, NEW o
  PROVE  SumOfAmounts(rows, OfOrder(rows, "order_line", d, o)) \in Nat
<1> DEFINE K == OfOrder(rows, "order_line", d, o)
<1>1. K \in SUBSET DOMAIN rows /\ \A k \in K : rows[k].amount \in Nat
  BY DEF OfOrder, Good, Typed
<1> HIDE DEF K
<1>2. IsFiniteSet(K)
  BY <1>1, FS_Subset DEF Good
<1>3. SumOver([k \in K |-> rows[k].amount], K) \in Nat
  BY <1>1, <1>2, SumOfNats
<1>4. QED
  BY <1>2, <1>3, AmountsAre DEF K

LEMMA DeliveryRows ==
  ASSUME BookIInv, RowIInv, NEW w \in Workers,
         \/ FindsOldest(w) \/ DeletesNewOrder(w) \/ UpdatesOrder(w) \/ UpdatesLines(w)
         \/ ReadsOrder(w) \/ SumsAmounts(w) \/ CreditsCustomer(w)
  PROVE  RowIInv'
<1> USE DEF NewOrderPlaces, PaymentPlaces, DeliveryPlaces, Places
<1>1. CASE FindsOldest(w)
  <2> DEFINE ids == {k[3] : k \in OfDistrict(Sees(w), "new_orders", my[w].d)}
  <2>1. /\ at[w] = "find_oldest"
        /\ \/ ids = {} /\ NextDistrict(w)
              /\ Does(w, {}, Sees(w),
                      IF my[w].d < NumDistricts THEN "find_oldest" ELSE "commit")
           \/ ids # {} /\ Does(w, {}, Sees(w), "delete_new_order")
              /\ Others(w, {"o"}) /\ my'[w].o = Min(ids)
    BY <1>1, FindsOldestDoes
  <2>2. DrawTyped(w) /\ Good(Sees(w)) /\ IsDelivery(w) /\ my[w].d \in Districts
    BY <2>1, DeliveryKnows
  <2>3. Tabled /\ IsDraw(my[w])
    BY <2>1, MyShape
  <2>4. CASE /\ NextDistrict(w)
             /\ Does(w, {}, Sees(w),
                      IF my[w].d < NumDistricts THEN "find_oldest" ELSE "commit")
    <3> DEFINE place == IF my[w].d < NumDistricts THEN "find_oldest" ELSE "commit"
    <3>1. /\ Others(w, {"d", "o", "c", "seen"}) /\ my'[w].d \in Districts /\ my'[w].o = 0
      BY <2>2, <2>3, <2>4, NextDistrictDoes
    <3>2. at'[w] = place /\ attempts' = attempts /\ place \in {"find_oldest", "commit"}
      BY <2>4 DEF Does
    <3>3. DrawTyped(w)'
      BY <2>1, <2>2, <3>1, <3>2, DrawKept
    <3>4. SeenFits(w)'
      BY <3>2, NoSeen
    <3> HIDE DEF place
    <3>5. QED
      BY <2>1, <2>4, <3>2, <3>3, <3>4, RowRead DEF place
  <2>5. CASE ids # {} /\ Does(w, {}, Sees(w), "delete_new_order")
              /\ Others(w, {"o"}) /\ my'[w].o = Min(ids)
    <3>1. ids \subseteq Nat
      BY <2>2 DEF OfDistrict, Good, Typed
    <3> HIDE DEF ids
    <3>2. Min(ids) \in Nat
      BY <2>5, <3>1, LeastNat DEF Min
    <3>3. at'[w] = "delete_new_order" /\ attempts' = attempts
      BY <2>5 DEF Does
    <3>4. DrawTyped(w)' /\ SeenFits(w)'
      BY <2>1, <2>2, <2>5, <3>2, <3>3, DrawKept, NoSeen
    <3>5. QED
      BY <2>1, <2>5, <3>4, RowRead
  <2>6. QED
    BY <2>1, <2>4, <2>5
<1>2. CASE DeletesNewOrder(w)
  <2> DEFINE K == OfOrder(Sees(w), "new_orders", my[w].d, my[w].o)
             rows == Restrict(Sees(w), DOMAIN Sees(w) \ K)
  <2>1. at[w] = "delete_new_order" /\ Others(w, {}) /\ Does(w, K, rows, "update_order")
    BY <1>2, DeletesNewOrderDoes
  <2>2. DrawTyped(w) /\ Good(Sees(w))
    BY <2>1, DeliveryKnows
  <2>3. K \in SUBSET DOMAIN Sees(w) /\ \A k \in K : k[1] = "new_orders"
    BY DEF OfOrder
  <2> HIDE DEF K
  <2>4. Good(rows) /\ IsFiniteSet(K)
    BY <2>2, <2>3, GoodDeletes, FS_Subset DEF Good
  <2>5. at'[w] = "update_order" /\ attempts' = attempts
    BY <2>1 DEF Does
  <2>6. DrawTyped(w)' /\ SeenFits(w)'
    BY <2>1, <2>2, <2>5, DrawKept, NoSeen
  <2> HIDE DEF rows
  <2>7. QED
    BY <2>1, <2>4, <2>6, RowWrite
<1>3. CASE UpdatesOrder(w)
  <2> DEFINE K == OfOrder(Sees(w), "orders", my[w].d, my[w].o)
             new == [k \in K |-> [Sees(w)[k] EXCEPT !.carrier = 1]]
             rows == With(Sees(w), new)
  <2>1. at[w] = "update_order" /\ Others(w, {}) /\ Does(w, DOMAIN new, rows, "update_lines")
    BY <1>3, UpdatesOrderDoes
  <2>2. DrawTyped(w) /\ Good(Sees(w))
    BY <2>1, DeliveryKnows
  <2>3. K \in SUBSET DOMAIN Sees(w) /\ \A k \in K : k[1] = "orders"
    BY DEF OfOrder
  <2>4. DOMAIN new = K /\ \A k \in K : new[k] = [Sees(w)[k] EXCEPT !.carrier = 1]
    OBVIOUS
  <2> HIDE DEF K, new
  <2>5. \A k \in K : Typed(k, new[k])
    <3>1. SUFFICES ASSUME NEW k \in K
                   PROVE  Typed(k, new[k])
      OBVIOUS
    <3>2. Sees(w)[k] \in [c : Customers, cnt : Nat, carrier : -1..10]
      BY <2>2, <2>3, <3>1 DEF Good, Typed
    <3>3. new[k] \in [c : Customers, cnt : Nat, carrier : -1..10]
      BY <2>4, <3>1, <3>2
    <3>4. QED
      BY <2>3, <3>1, <3>3 DEF Typed
  <2>6. Good(rows) /\ IsFiniteSet(DOMAIN new)
    <3>1. IsFiniteSet(K)
      BY <2>2, <2>3, FS_Subset DEF Good
    <3>2. QED
      BY <2>2, <2>4, <2>5, <3>1, GoodPutsAll
  <2>7. at'[w] = "update_lines" /\ attempts' = attempts
    BY <2>1 DEF Does
  <2>8. DrawTyped(w)' /\ SeenFits(w)'
    BY <2>1, <2>2, <2>7, DrawKept, NoSeen
  <2> HIDE DEF rows
  <2>9. QED
    BY <2>1, <2>6, <2>8, RowWrite
<1>4. CASE UpdatesLines(w)
  <2> DEFINE K == OfOrder(Sees(w), "order_line", my[w].d, my[w].o)
             new == [k \in K |-> [Sees(w)[k] EXCEPT !.dated = TRUE]]
             rows == With(Sees(w), new)
  <2>1. at[w] = "update_lines" /\ Others(w, {}) /\ Does(w, DOMAIN new, rows, "read_order")
    BY <1>4, UpdatesLinesDoes
  <2>2. DrawTyped(w) /\ Good(Sees(w))
    BY <2>1, DeliveryKnows
  <2>3. K \in SUBSET DOMAIN Sees(w) /\ \A k \in K : k[1] = "order_line"
    BY DEF OfOrder
  <2>4. DOMAIN new = K /\ \A k \in K : new[k] = [Sees(w)[k] EXCEPT !.dated = TRUE]
    OBVIOUS
  <2> HIDE DEF K, new
  <2>5. \A k \in K : Typed(k, new[k])
    <3>1. SUFFICES ASSUME NEW k \in K
                   PROVE  Typed(k, new[k])
      OBVIOUS
    <3>2. Sees(w)[k] \in [item : Items, amount : Nat, dated : BOOLEAN]
      BY <2>2, <2>3, <3>1 DEF Good, Typed
    <3>3. new[k] \in [item : Items, amount : Nat, dated : BOOLEAN]
      BY <2>4, <3>1, <3>2
    <3>4. QED
      BY <2>3, <3>1, <3>3 DEF Typed
  <2>6. Good(rows) /\ IsFiniteSet(DOMAIN new)
    <3>1. IsFiniteSet(K)
      BY <2>2, <2>3, FS_Subset DEF Good
    <3>2. QED
      BY <2>2, <2>4, <2>5, <3>1, GoodPutsAll
  <2>7. at'[w] = "read_order" /\ attempts' = attempts
    BY <2>1 DEF Does
  <2>8. DrawTyped(w)' /\ SeenFits(w)'
    BY <2>1, <2>2, <2>7, DrawKept, NoSeen
  <2> HIDE DEF rows
  <2>9. QED
    BY <2>1, <2>6, <2>8, RowWrite
<1>5. CASE ReadsOrder(w)
  <2>1. /\ at[w] = "read_order" /\ Does(w, {}, Sees(w), "sum_amounts") /\ Others(w, {"c"})
        /\ \E k \in OfOrder(Sees(w), "orders", my[w].d, my[w].o) : my'[w].c = Sees(w)[k].c
    BY <1>5, ReadsOrderDoes
  <2>2. DrawTyped(w) /\ Good(Sees(w)) /\ IsDelivery(w)
    BY <2>1, DeliveryKnows
  <2>3. my'[w].c \in Customers
    BY <2>1, <2>2 DEF OfOrder, Good, Typed
  <2>4. at'[w] = "sum_amounts" /\ attempts' = attempts
    BY <2>1 DEF Does
  <2>5. DrawTyped(w)'
    BY <2>1, <2>2, <2>4, DrawKept
  <2>6. SeenFits(w)'
    BY <2>3, <2>4 DEF SeenFits
  <2>7. QED
    BY <2>1, <2>5, <2>6, RowRead
<1>6. CASE SumsAmounts(w)
  <2>1. /\ at[w] = "sum_amounts" /\ Does(w, {}, Sees(w), "credit_customer")
        /\ Others(w, {"seen"})
        /\ my'[w].seen =
             SumOfAmounts(Sees(w), OfOrder(Sees(w), "order_line", my[w].d, my[w].o))
    BY <1>6, SumsAmountsDoes
  <2>2. DrawTyped(w) /\ SeenFits(w) /\ Good(Sees(w)) /\ my[w].c \in Customers
    BY <2>1, DeliveryKnows DEF SeenFits
  <2>3. my'[w].seen \in Nat /\ my'[w].c = my[w].c
    BY <2>1, <2>2, AmountsType DEF Others
  <2>4. at'[w] = "credit_customer" /\ attempts' = attempts
    BY <2>1 DEF Does
  <2>5. DrawTyped(w)'
    BY <2>1, <2>2, <2>4, DrawKept
  <2>6. SeenFits(w)'
    BY <2>2, <2>3, <2>4 DEF SeenFits
  <2>7. QED
    BY <2>1, <2>5, <2>6, RowRead
<1>7. CASE CreditsCustomer(w)
  <2> DEFINE k == CustomerKey(my[w].d, my[w].c)
             row == [Sees(w)[k] EXCEPT !.balance = @ + my[w].seen, !.deliveries = @ + 1]
             rows == With(Sees(w), [x \in {k} |-> row])
             place == IF my[w].d < NumDistricts THEN "find_oldest" ELSE "commit"
  <2>1. at[w] = "credit_customer" /\ NextDistrict(w) /\ Does(w, {k}, rows, place)
    BY <1>7, CreditsCustomerDoes
  <2>2. /\ DrawTyped(w) /\ Good(Sees(w)) /\ IsDelivery(w) /\ my[w].d \in Districts
        /\ my[w].c \in Customers /\ my[w].seen \in Nat
    BY <2>1, DeliveryKnows DEF SeenFits
  <2>3. Typed(k, row)
    <3>1. k[1] = "customer" /\ k \in DOMAIN Sees(w)
      BY <2>2, OtherKeys, FixedKeys DEF Good
    <3> DEFINE s == Sees(w)[k]  x == my[w].seen
    <3>2. s \in [balance : Int, ytd : Nat, payments : Nat, deliveries : Nat] /\ x \in Nat
      BY <2>2, <3>1 DEF Good, Typed
    <3>3. row = [s EXCEPT !.balance = s.balance + x, !.deliveries = s.deliveries + 1]
      OBVIOUS
    <3> HIDE DEF s, x, row
    <3>4. row = [balance |-> s.balance + x, ytd |-> s.ytd,
                 payments |-> s.payments, deliveries |-> s.deliveries + 1]
      BY <3>2, <3>3
    <3>5. row \in [balance : Int, ytd : Nat, payments : Nat, deliveries : Nat]
      BY <3>2, <3>4
    <3>6. QED
      BY <3>1, <3>5 DEF Typed
  <2>4. Tabled /\ IsDraw(my[w])
    BY <2>1, MyShape
  <2>5. /\ Others(w, {"d", "o", "c", "seen"}) /\ my'[w].d \in Districts /\ my'[w].o = 0
    BY <2>1, <2>2, <2>4, NextDistrictDoes
  <2>6. /\ at'[w] = place /\ attempts' = attempts /\ IsFiniteSet({k})
        /\ place \in {"find_oldest", "commit"}
    BY <2>1, FS_Singleton DEF Does
  <2> HIDE DEF row, k
  <2>7. Good(rows)
    <3>1. Good(Sees(w))
      BY <2>2
    <3>2. QED
      BY <2>3, <3>1, GoodPut
  <2>8. DrawTyped(w)'
    BY <2>1, <2>2, <2>5, <2>6, DrawKept
  <2>9. SeenFits(w)'
    BY <2>6, NoSeen
  <2> HIDE DEF rows, place
  <2>10. QED
    BY <2>1, <2>6, <2>7, <2>8, <2>9, RowWrite
<1>8. QED
  BY <1>1, <1>2, <1>3, <1>4, <1>5, <1>6, <1>7

---------------------------------------------------------------------------
(* Beginnings and ends. *)

\* What a step of w that is not a statement leaves.
LEMMA RowElse ==
  ASSUME BookIInv, RowIInv, NEW w \in Workers, Steps(w), Good(db)',
         attempts' \in 0..MaxAttempts, attempts <= attempts', torn' \in BOOLEAN,
         \A v \in Workers \ {w} :
           open'[v] = open[v] /\ view'[v] = view[v] /\ wrote'[v] = wrote[v],
         RowShape(w)'
  PROVE  RowIInv'
<1>1. ASSUME NEW v \in Workers \ {w}
      PROVE  RowShape(v)'
  <2>1. RowShape(v) /\ attempts \in Nat /\ attempts' \in Nat
    BY MaxAttemptsAssumption DEF RowIInv
  <2>2. at'[v] = at[v] /\ my'[v] = my[v]
    BY DEF Steps
  <2>3. QED
    BY <2>1, <2>2, RowBystander
<1>2. QED
  BY <1>1 DEF RowIInv

LEMMA ForgetsOthers ==
  ASSUME BookIInv, NEW w \in Workers, Forgets(w)
  PROVE  /\ ~open'[w] /\ view'[w] = <<>> /\ wrote'[w] = {}
         /\ \A v \in Workers \ {w} :
              open'[v] = open[v] /\ view'[v] = view[v] /\ wrote'[v] = wrote[v]
<1>1. Tabled
  BY DEF BookIInv
<1>2. QED
  BY <1>1 DEF Forgets, Tabled

LEMMA BeginsDoes ==
  ASSUME BookIInv, NEW w \in Workers, NEW draw, NEW place, Starts(w, draw, place)
  PROVE  /\ at[w] = "idle" /\ attempts < MaxAttempts /\ attempts' = attempts + 1
         /\ Steps(w) /\ at'[w] = place /\ my'[w] = draw /\ torn' = torn
         /\ open'[w] /\ view'[w] = db /\ wrote'[w] = {} /\ db' = db
         /\ \A v \in Workers \ {w} :
              open'[v] = open[v] /\ view'[v] = view[v] /\ wrote'[v] = wrote[v]
<1>1. /\ Tabled /\ BookShape(w)
  BY DEF BookIInv
<1>2. /\ at[w] = "idle" /\ attempts < MaxAttempts /\ attempts' = attempts + 1 /\ torn' = torn
      /\ GoesTo(w, place) /\ my' = [my EXCEPT ![w] = draw]
      /\ open' = [open EXCEPT ![w] = TRUE] /\ view' = [view EXCEPT ![w] = db]
      /\ wrote' = wrote /\ db' = db
  BY DEF Starts, Opens
<1>3. wrote[w] = {}
  BY <1>1, <1>2 DEF BookShape
<1>4. QED
  BY <1>1, <1>2, <1>3, Moves DEF Tabled

LEMMA BeginsRows ==
  ASSUME BookIInv, RowIInv, NEW w \in Workers,
         BeginsNewOrder(w) \/ BeginsPayment(w) \/ BeginsDelivery(w)
  PROVE  RowIInv'
<1> USE DEF NewOrderPlaces, PaymentPlaces, DeliveryPlaces, Places
<1>1. ASSUME NEW draw, NEW place, Starts(w, draw, place), draw.d \in Districts,
             draw.id = attempts + 1, draw.o = 0, draw.n = 1,
             \/ /\ place = "read_district" /\ draw.lines \in Baskets /\ draw.c \in Customers
             \/ /\ place = "update_warehouse" /\ draw.lines = <<>> /\ draw.cd \in Districts
                /\ draw.c \in Customers /\ draw.amount \in Amounts
             \/ /\ place = "find_oldest" /\ draw.lines = <<>> /\ draw.cd = 0
      PROVE  RowIInv'
  <2>1. /\ attempts < MaxAttempts /\ attempts' = attempts + 1
        /\ Steps(w) /\ at'[w] = place /\ my'[w] = draw /\ torn' = torn
        /\ open'[w] /\ view'[w] = db /\ wrote'[w] = {} /\ db' = db
        /\ \A v \in Workers \ {w} :
             open'[v] = open[v] /\ view'[v] = view[v] /\ wrote'[v] = wrote[v]
    BY <1>1, BeginsDoes
  <2>2. /\ attempts \in 0..MaxAttempts /\ torn \in BOOLEAN /\ Good(db)
    BY DEF RowIInv
  <2>3. Good(db)' /\ Good(view[w])'
    BY <2>1, <2>2 DEF Good, Typed
  <2>4. /\ attempts' \in 0..MaxAttempts /\ attempts <= attempts'
        /\ attempts + 1 \in 1..attempts'
    BY <2>1, <2>2, MaxAttemptsAssumption
  <2>5. DrawTyped(w)'
    <3>1. CASE place = "read_district"
      <4>1. draw.lines \in Lines
        BY <1>1, <3>1, BasketsAssumption
      <4>2. draw.lines # <<>> /\ Len(draw.lines) \in Nat \ {0}
        BY <4>1, BasketShape
      <4>3. IsNewOrder(w)' /\ ~IsPayment(w)' /\ ~IsDelivery(w)'
        BY <2>1, <4>2 DEF IsNewOrder, IsPayment, IsDelivery
      <4>4. QED
        BY <1>1, <2>1, <2>4, <3>1, <4>2, <4>3 DEF DrawTyped
    <3>2. CASE place = "update_warehouse"
      <4>1. 0 \notin Districts
        BY DEF Districts
      <4>2. ~IsNewOrder(w)' /\ IsPayment(w)' /\ ~IsDelivery(w)'
        BY <1>1, <2>1, <3>2, <4>1 DEF IsNewOrder, IsPayment, IsDelivery
      <4>3. QED
        BY <1>1, <2>1, <2>4, <3>2, <4>2 DEF DrawTyped
    <3>3. CASE place = "find_oldest"
      <4>1. ~IsNewOrder(w)' /\ ~IsPayment(w)' /\ IsDelivery(w)'
        BY <1>1, <2>1, <3>3 DEF IsNewOrder, IsPayment, IsDelivery
      <4>2. QED
        BY <1>1, <2>1, <2>4, <3>3, <4>1 DEF DrawTyped
    <3>4. QED
      BY <1>1, <3>1, <3>2, <3>3
  <2>6. SeenFits(w)'
    BY <1>1, <2>1, NoSeen
  <2>7. RowShape(w)'
    BY <1>1, <2>1, <2>3, <2>5, <2>6, FS_EmptySet DEF RowShape
  <2>8. QED
    BY <2>1, <2>2, <2>3, <2>4, <2>7, RowElse
<1>2. CASE BeginsNewOrder(w)
  <2>1. PICK d \in Districts, order \in Orders :
          Starts(w, Draw(d, d, order.c, order.lines, 0), "read_district")
    BY <1>2 DEF BeginsNewOrder
  <2>2. order.c \in Customers /\ order.lines \in Baskets
    BY DEF Orders
  <2>3. QED
    BY <1>1, <2>1, <2>2 DEF Draw, Blank
<1>3. CASE BeginsPayment(w)
  <2>1. PICK d \in Districts, cd \in Districts, c \in Customers, amount \in Amounts :
          Starts(w, Draw(d, cd, c, <<>>, amount), "update_warehouse")
    BY <1>3 DEF BeginsPayment
  <2>2. QED
    BY <1>1, <2>1 DEF Draw, Blank
<1>4. CASE BeginsDelivery(w)
  <2>1. Starts(w, Draw(1, 0, 0, <<>>, 0), "find_oldest") /\ 1 \in Districts
    BY <1>4, NumDistrictsAssumption DEF BeginsDelivery, Districts
  <2>2. QED
    BY <1>1, <2>1 DEF Draw, Blank
<1>5. QED
  BY <1>2, <1>3, <1>4

\* The ways of a statement to leave a transaction.
LEMMA LeavesDoes ==
  ASSUME BookIInv, NEW w \in Workers, Ends(w) \/ CommitsWork(w)
  PROVE  /\ ~open'[w] /\ view'[w] = <<>> /\ wrote'[w] = {}
         /\ Ends(w) => db' = db
         /\ CommitsWork(w) => open[w] /\ db' = Merged(w)
         /\ \A v \in Workers \ {w} :
              open'[v] = open[v] /\ view'[v] = view[v] /\ wrote'[v] = wrote[v]
BY ForgetsOthers DEF Ends, CommitsWork

LEMMA RowLeaves ==
  ASSUME BookIInv, RowIInv, NEW w \in Workers, Steps(w),
         \/ Reads \/ Ends(w) \/ CommitsWork(w),
         attempts' = attempts, torn' \in BOOLEAN,
         at'[w] \in Places \ (NewOrderPlaces \cup PaymentPlaces),
         at'[w] # "idle" => DrawTyped(w)' /\ SeenFits(w)'
  PROVE  RowIInv'
<1>1. /\ Good(db) /\ RowShape(w) /\ attempts \in 0..MaxAttempts /\ attempts <= attempts'
  BY MaxAttemptsAssumption DEF RowIInv
<1>2. CASE Reads
  <2>1. db' = db /\ open' = open /\ view' = view /\ wrote' = wrote
    BY <1>2 DEF Reads, serverVars
  <2>2. Good(db)' /\ (Good(view[w]) => Good(view[w])')
    BY <1>1, <2>1 DEF Good, Typed
  <2>3. RowShape(w)'
    BY <1>1, <2>1, <2>2 DEF RowShape
  <2>4. QED
    BY <1>1, <2>1, <2>2, <2>3, RowElse
<1>3. CASE Ends(w) \/ CommitsWork(w)
  <2>1. /\ ~open'[w] /\ view'[w] = <<>> /\ wrote'[w] = {}
        /\ \A v \in Workers \ {w} :
             open'[v] = open[v] /\ view'[v] = view[v] /\ wrote'[v] = wrote[v]
        /\ db' = db \/ (open[w] /\ db' = Merged(w))
    <3>1. CASE Ends(w)
      BY <3>1, LeavesDoes
    <3>2. CASE CommitsWork(w)
      BY <3>2, LeavesDoes
    <3>3. QED
      BY <1>3, <3>1, <3>2
  <2>2. open[w] => Good(view[w])
    BY <1>1 DEF RowShape
  <2>3. Good(db')
    BY <1>1, <2>1, <2>2, GoodMerged
  <2>4. Good(db)'
    BY <2>3 DEF Good, Typed
  <2>5. RowShape(w)'
    BY <2>1, FS_EmptySet DEF RowShape
  <2>6. QED
    BY <1>1, <2>1, <2>4, <2>5, RowElse
<1>4. QED
  BY <1>2, <1>3

LEMMA EndRows ==
  ASSUME BookIInv, RowIInv, NEW w \in Workers,
         SkipsDistrict(w) \/ Commits(w) \/ Refused(w) \/ RollsBack(w)
  PROVE  RowIInv'
<1> USE DEF NewOrderPlaces, PaymentPlaces, DeliveryPlaces, Places
<1>1. torn \in BOOLEAN /\ RowShape(w)
  BY DEF RowIInv
<1>2. CASE SkipsDistrict(w)
  <2>1. /\ at[w] = "find_oldest" /\ NextDistrict(w) /\ attempts' = attempts
        /\ Reads \/ Ends(w)
    BY <1>1, <1>2 DEF SkipsDistrict
  <2>2. torn' \in BOOLEAN
    BY <1>1, <1>2 DEF SkipsDistrict
  <2>3. DrawTyped(w) /\ IsDelivery(w) /\ my[w].d \in Districts
    BY <2>1, DeliveryKnows
  <2>4. /\ Steps(w) /\ Others(w, {"d", "o", "c", "seen"}) /\ my'[w].d \in Districts
        /\ my'[w].o = 0 /\ at'[w] \in {"find_oldest", "commit"}
    BY <2>1, <2>3, MyShape, NextDistrictDoes
  <2>5. DrawTyped(w)'
    BY <2>1, <2>3, <2>4, DrawKept
  <2>6. SeenFits(w)'
    BY <2>4, NoSeen
  <2>7. QED
    BY <2>1, <2>2, <2>4, <2>5, <2>6, RowLeaves
<1>3. CASE Commits(w)
  <2>1. /\ at[w] = "commit" /\ Idles(w) /\ attempts' = attempts /\ torn' = torn
        /\ Reads \/ CommitsWork(w)
    BY <1>3 DEF Commits, At
  <2>2. Steps(w) /\ at'[w] = "idle"
    BY <2>1, MyShape, Idle
  <2>3. QED
    BY <1>1, <2>1, <2>2, RowLeaves
<1>4. CASE Refused(w)
  <2>1. /\ at[w] # "idle" /\ KeepsAll /\ GoesTo(w, "rollback")
        /\ attempts' = attempts /\ torn' = torn
        /\ Reads \/ Ends(w) \/ CommitsWork(w)
    BY <1>4 DEF Refused
  <2>2. DrawTyped(w)
    BY <1>1, <2>1 DEF RowShape
  <2>3. Steps(w) /\ at'[w] = "rollback" /\ my'[w] = my[w]
    BY <2>1, MyShape, Keeps
  <2>4. DrawTyped(w)'
    BY <2>1, <2>2, <2>3 DEF DrawTyped, IsNewOrder, IsPayment, IsDelivery
  <2>5. SeenFits(w)'
    BY <2>3, NoSeen
  <2>6. QED
    BY <1>1, <2>1, <2>3, <2>4, <2>5, RowLeaves
<1>5. CASE RollsBack(w)
  <2>1. /\ at[w] = "rollback" /\ Ends(w) /\ Idles(w) /\ attempts' = attempts /\ torn' = torn
    BY <1>5 DEF RollsBack, At
  <2>2. Steps(w) /\ at'[w] = "idle"
    BY <2>1, MyShape, Idle
  <2>3. QED
    BY <1>1, <2>1, <2>2, RowLeaves
<1>6. QED
  BY <1>2, <1>3, <1>4, <1>5

LEMMA RowStep == BookIInv /\ RowIInv /\ [Next]_vars => RowIInv'
<1> SUFFICES ASSUME BookIInv, RowIInv, [Next]_vars
             PROVE  RowIInv'
  OBVIOUS
<1>1. ASSUME NEW w \in Workers, Step(w)
      PROVE  RowIInv'
  <2>1. CASE BeginsNewOrder(w) \/ BeginsPayment(w) \/ BeginsDelivery(w)
    BY <2>1, BeginsRows
  <2>2. CASE \/ ReadsDistrict(w) \/ TakesId(w) \/ InsertsOrder(w) \/ InsertsNewOrder(w)
             \/ ReadsStock(w) \/ UpdatesStock(w) \/ InsertsLine(w)
    BY <2>2, NewOrderRows
  <2>3. CASE \/ UpdatesWarehouse(w) \/ UpdatesDistrict(w) \/ ReadsCustomer(w)
             \/ UpdatesCustomer(w) \/ InsertsHistory(w)
    BY <2>3, PaymentRows
  <2>4. CASE \/ FindsOldest(w) \/ DeletesNewOrder(w) \/ UpdatesOrder(w) \/ UpdatesLines(w)
             \/ ReadsOrder(w) \/ SumsAmounts(w) \/ CreditsCustomer(w)
    BY <2>4, DeliveryRows
  <2>5. CASE SkipsDistrict(w) \/ Commits(w) \/ Refused(w) \/ RollsBack(w)
    BY <2>5, EndRows
  <2>6. QED
    BY <1>1, <2>1, <2>2, <2>3, <2>4, <2>5 DEF Step
<1>2. CASE UNCHANGED vars
  <2>1. /\ db' = db /\ open' = open /\ view' = view /\ wrote' = wrote /\ stale' = stale
        /\ at' = at /\ my' = my /\ attempts' = attempts /\ torn' = torn
    BY <1>2 DEF vars, serverVars
  <2>2. QED
    BY <2>1 DEF RowIInv, RowShape, Good, Typed, DrawTyped, SeenFits, IsNewOrder, IsPayment,
                IsDelivery, Item
<1>3. CASE Stops
  BY <1>2, <1>3 DEF Stops
<1>4. QED
  BY <1>1, <1>2, <1>3 DEF Next

---------------------------------------------------------------------------
(* The loaded database. *)

\* The keys of the loaded rows, table by table.
LEMMA InitKey ==
  ASSUME NEW k \in InitKeys
  PROVE  \/ k = WarehouseKey
         \/ \E d \in Districts : k = DistrictKey(d)
         \/ \E d \in Districts, c \in Customers : k = CustomerKey(d, c)
         \/ \E i \in Items : k = StockKey(i)
         \/ \E d \in Districts, o \in 1..Len(Loaded) : k = OrderKey(d, o, 0)
         \/ \E d \in Districts : \E o \in Oldest(d)..Len(Loaded) : k = NewOrderKey(d, o, 0)
         \/ \E d \in Districts, o \in 1..Len(Loaded) : \E n \in DOMAIN Loaded[o].lines :
              k = LineKey(d, o, n, 0)
BY DEF InitKeys

LEMMA LoadedShape ==
  /\ Len(Loaded) \in Nat
  /\ \A o \in 1..Len(Loaded) : /\ Loaded[o].c \in Customers /\ Loaded[o].lines \in Lines
                               /\ Len(Loaded[o].lines) \in Nat \ {0}
                               /\ DOMAIN Loaded[o].lines = 1..Len(Loaded[o].lines)
  /\ \A d \in Districts : Oldest(d) \in 1..(Len(Loaded) + 1)
<1>1. Len(Loaded) \in Nat
  BY LoadedAssumption
<1>2. ASSUME NEW o \in 1..Len(Loaded)
      PROVE  /\ Loaded[o].c \in Customers /\ Loaded[o].lines \in Lines
             /\ Len(Loaded[o].lines) \in Nat \ {0}
             /\ DOMAIN Loaded[o].lines = 1..Len(Loaded[o].lines)
  <2>1. Loaded[o] \in [c : Customers, lines : Lines]
    BY LoadedAssumption, ElementOfSeq
  <2>2. Loaded[o].lines \in Seq(Items \X (1..10))
    BY <2>1 DEF Lines
  <2>3. DOMAIN Loaded[o].lines = 1..Len(Loaded[o].lines)
    BY <2>2, LenProperties
  <2>4. QED
    BY <2>1, <2>3, BasketShape
<1>3. ASSUME NEW d \in Districts
      PROVE  Oldest(d) \in 1..(Len(Loaded) + 1)
  <2>1. Undelivered[d] \in 0..Len(Loaded)
    BY UndeliveredAssumption
  <2>2. QED
    BY <1>1, <2>1 DEF Oldest
<1>4. QED
  BY <1>1, <1>2, <1>3

LEMMA ImageFinite ==
  ASSUME NEW S, IsFiniteSet(S), NEW f, NEW T, T \subseteq {f[x] : x \in S}
  PROVE  IsFiniteSet(T)
<1> DEFINE g == [x \in S |-> f[x]]
           R == {f[x] : x \in S}
<1>1. g \in Surjection(S, R)
  BY DEF Surjection
<1>2. IsFiniteSet(R)
  BY <1>1, FS_Surjection
<1> HIDE DEF R
<1>3. T \in SUBSET R
  BY DEF R
<1>4. QED
  BY <1>2, <1>3, FS_Subset

LEMMA InitFinite == IsFiniteSet(InitKeys)
<1> DEFINE N == Len(Loaded)
           LinesOf(o) == {LineKey(d, o, n, 0) : d \in Districts, n \in DOMAIN Loaded[o].lines}
           D == {DistrictKey(d) : d \in Districts}
           C == {CustomerKey(d, c) : d \in Districts, c \in Customers}
           I == {StockKey(i) : i \in Items}
           O == {OrderKey(d, o, 0) : d \in Districts, o \in 1..N}
           W == UNION {{NewOrderKey(d, o, 0) : o \in Oldest(d)..N} : d \in Districts}
           L == UNION {LinesOf(o) : o \in 1..N}
<1>1. IsFiniteSet(Districts) /\ IsFiniteSet(1..N) /\ IsFiniteSet(Customers) /\ IsFiniteSet(Items)
  BY LoadedShape, FS_Interval, NumDistrictsAssumption, CustomersAssumption, ItemsAssumption
     DEF Districts
<1>2. IsFiniteSet(Districts \X Customers) /\ IsFiniteSet(Districts \X (1..N))
  BY <1>1, FS_Product
<1>3. IsFiniteSet(D)
  <2> DEFINE f == [d \in Districts |-> DistrictKey(d)]
  <2>1. D \subseteq {f[x] : x \in Districts}
    OBVIOUS
  <2> HIDE DEF f, D
  <2>2. QED
    BY <1>1, <2>1, ImageFinite
<1>4. IsFiniteSet(C)
  <2> DEFINE f == [p \in Districts \X Customers |-> CustomerKey(p[1], p[2])]
  <2>1. C \subseteq {f[x] : x \in Districts \X Customers}
    <3>1. ASSUME NEW d \in Districts, NEW c \in Customers
          PROVE  /\ <<d, c>> \in Districts \X Customers
                 /\ f[<<d, c>>] = CustomerKey(d, c)
      OBVIOUS
    <3>2. SUFFICES ASSUME NEW k \in C
                   PROVE  \E x \in Districts \X Customers : k = f[x]
      OBVIOUS
    <3>3. PICK d \in Districts, c \in Customers : k = CustomerKey(d, c)
      OBVIOUS
    <3> HIDE DEF f, C
    <3>4. QED
      BY <3>1, <3>3
  <2> HIDE DEF f, C
  <2>2. QED
    BY <1>2, <2>1, ImageFinite
<1>5. IsFiniteSet(I)
  <2> DEFINE f == [i \in Items |-> StockKey(i)]
  <2>1. I \subseteq {f[x] : x \in Items}
    OBVIOUS
  <2> HIDE DEF f, I
  <2>2. QED
    BY <1>1, <2>1, ImageFinite
<1>6. IsFiniteSet(O)
  <2> DEFINE f == [p \in Districts \X (1..N) |-> OrderKey(p[1], p[2], 0)]
  <2>1. O \subseteq {f[x] : x \in Districts \X (1..N)}
    <3>1. ASSUME NEW d \in Districts, NEW o \in 1..N
          PROVE  /\ <<d, o>> \in Districts \X (1..N)
                 /\ f[<<d, o>>] = OrderKey(d, o, 0)
      OBVIOUS
    <3>2. SUFFICES ASSUME NEW k \in O
                   PROVE  \E x \in Districts \X (1..N) : k = f[x]
      OBVIOUS
    <3>3. PICK d \in Districts, o \in 1..N : k = OrderKey(d, o, 0)
      OBVIOUS
    <3> HIDE DEF f, O
    <3>4. QED
      BY <3>1, <3>3
  <2> HIDE DEF f, O
  <2>2. QED
    BY <1>2, <2>1, ImageFinite
<1>7. IsFiniteSet(W)
  <2> DEFINE f == [p \in Districts \X (1..N) |-> NewOrderKey(p[1], p[2], 0)]
  <2>1. W \subseteq {f[x] : x \in Districts \X (1..N)}
    <3>1. ASSUME NEW d \in Districts, NEW o \in Oldest(d)..N
          PROVE  /\ <<d, o>> \in Districts \X (1..N)
                 /\ f[<<d, o>>] = NewOrderKey(d, o, 0)
      <4>1. o \in 1..N
        BY LoadedShape
      <4>2. QED
        BY <4>1
    <3>2. SUFFICES ASSUME NEW k \in W
                   PROVE  \E x \in Districts \X (1..N) : k = f[x]
      OBVIOUS
    <3>3. PICK d \in Districts : \E o \in Oldest(d)..N : k = NewOrderKey(d, o, 0)
      OBVIOUS
    <3> HIDE DEF f, W
    <3>4. QED
      BY <3>1, <3>3
  <2> HIDE DEF f, W
  <2>2. QED
    BY <1>2, <2>1, ImageFinite
<1>8. IsFiniteSet(L)
  <2>1. ASSUME NEW o \in 1..N
        PROVE  IsFiniteSet(LinesOf(o))
    <3> DEFINE P == Districts \X (1..Len(Loaded[o].lines))
               f == [p \in P |-> LineKey(p[1], o, p[2], 0)]
    <3>1. DOMAIN Loaded[o].lines = 1..Len(Loaded[o].lines) /\ Len(Loaded[o].lines) \in Nat
      BY LoadedShape
    <3>2. IsFiniteSet(P)
      <4>1. PICK m \in Nat : m = Len(Loaded[o].lines)
        BY <3>1
      <4>2. IsFiniteSet(1..m)
        BY FS_Interval
      <4>3. QED
        BY <1>1, <4>1, <4>2, FS_Product
    <3>3. LinesOf(o) \subseteq {f[x] : x \in P}
      <4>1. ASSUME NEW d \in Districts, NEW n \in DOMAIN Loaded[o].lines
            PROVE  <<d, n>> \in P /\ f[<<d, n>>] = LineKey(d, o, n, 0)
        BY <3>1
      <4> HIDE DEF f, P
      <4>2. ASSUME NEW k \in LinesOf(o)
            PROVE  \E x \in P : k = f[x]
        <5>1. PICK d \in Districts, n \in DOMAIN Loaded[o].lines : k = LineKey(d, o, n, 0)
          BY <4>2
        <5>2. <<d, n>> \in P /\ f[<<d, n>>] = k
          BY <4>1, <5>1
        <5>3. QED
          BY <5>2
      <4> HIDE DEF LinesOf
      <4>3. QED
        BY <4>2
    <3> HIDE DEF f, P, LinesOf
    <3>4. QED
      BY <3>2, <3>3, ImageFinite
  <2> DEFINE f == [o \in 1..N |-> LinesOf(o)]
             T == {LinesOf(o) : o \in 1..N}
  <2>2. T \subseteq {f[x] : x \in 1..N} /\ \A t \in T : IsFiniteSet(t)
    BY <2>1
  <2> HIDE DEF f, T
  <2>3. IsFiniteSet(T)
    BY <1>1, <2>2, ImageFinite
  <2>4. IsFiniteSet(UNION T)
    BY <2>2, <2>3, FS_UNION
  <2>5. QED
    BY <2>4 DEF T
<1>9. InitKeys = {WarehouseKey} \cup D \cup C \cup I \cup O \cup W \cup L
  BY DEF InitKeys
<1> HIDE DEF D, C, I, O, W, L
<1>10. IsFiniteSet({WarehouseKey})
  BY FS_Singleton
<1>11. QED
  BY <1>3, <1>4, <1>5, <1>6, <1>7, <1>8, <1>9, <1>10, FS_Union

LEMMA InitGood == Good(InitRows)
<1>1. DOMAIN InitRows = InitKeys /\ \A k \in InitKeys : InitRows[k] = InitRow(k)
  BY DEF InitRows
<1>2. Fixed \subseteq InitKeys
  BY DEF Fixed, InitKeys
<1>3. ASSUME NEW k \in InitKeys
      PROVE  Typed(k, InitRow(k))
  <2>1. CASE k = WarehouseKey
    <3>1. InitRow(k) = [ytd |-> 0]
      BY <2>1, OtherKeys DEF InitRow
    <3>2. QED
      BY <2>1, <3>1, OtherKeys DEF Typed
  <2>2. CASE \E d \in Districts : k = DistrictKey(d)
    <3>1. InitRow(k) = [next |-> Len(Loaded) + 1, ytd |-> 0] /\ k[1] = "district"
      BY <2>2, KeyShape DEF InitRow
    <3>2. QED
      BY <3>1, LoadedShape DEF Typed
  <2>3. CASE \E d \in Districts, c \in Customers : k = CustomerKey(d, c)
    <3>1. InitRow(k) = NewCustomer /\ k[1] = "customer"
      BY <2>3, OtherKeys DEF InitRow
    <3>2. QED
      BY <3>1 DEF Typed, NewCustomer
  <2>4. CASE \E i \in Items : k = StockKey(i)
    <3>1. InitRow(k) = [quantity |-> InitStock, ytd |-> 0, orders |-> 0] /\ k[1] = "stock"
      BY <2>4, OtherKeys DEF InitRow
    <3>2. InitStock \in 10..100 /\ (InitStock + 0 - InitStock) % 91 = 0
      BY InitStockAssumption
    <3>3. QED
      BY <3>1, <3>2 DEF Typed
  <2>5. CASE \E d \in Districts, o \in 1..Len(Loaded) : k = OrderKey(d, o, 0)
    <3>1. PICK d \in Districts, o \in 1..Len(Loaded) : k = OrderKey(d, o, 0)
      BY <2>5
    <3>2. k[1] = "orders" /\ k[3] = o
      BY <3>1, KeyShape
    <3>3. InitRow(k) = Order(Loaded[o].c, Len(Loaded[o].lines), IF k[3] < Oldest(k[2]) THEN 1 ELSE 0)
      BY <3>2 DEF InitRow
    <3>4. Loaded[o].c \in Customers /\ Len(Loaded[o].lines) \in Nat
      BY LoadedShape
    <3>5. QED
      BY <3>2, <3>3, <3>4 DEF Typed, Order
  <2>6. CASE \E d \in Districts : \E o \in Oldest(d)..Len(Loaded) : k = NewOrderKey(d, o, 0)
    <3>1. PICK d \in Districts : \E o \in Oldest(d)..Len(Loaded) : k = NewOrderKey(d, o, 0)
      BY <2>6
    <3> PICK o \in Oldest(d)..Len(Loaded) : k = NewOrderKey(d, o, 0)
      BY <3>1
    <3>2. k[1] = "new_orders" /\ k[3] = o /\ o \in Nat
      BY KeyColumns, LoadedShape
    <3>3. InitRow(k) = [o_id |-> o]
      BY <3>2 DEF InitRow
    <3>4. QED
      BY <3>2, <3>3 DEF Typed
  <2>7. CASE \E d \in Districts, o \in 1..Len(Loaded) : \E n \in DOMAIN Loaded[o].lines :
              k = LineKey(d, o, n, 0)
    <3>1. PICK d \in Districts, o \in 1..Len(Loaded) :
                 \E n \in DOMAIN Loaded[o].lines : k = LineKey(d, o, n, 0)
      BY <2>7
    <3> PICK n \in DOMAIN Loaded[o].lines : k = LineKey(d, o, n, 0)
      BY <3>1
    <3>2. k[1] = "order_line" /\ k[3] = o /\ k[4] = n
      BY KeyColumns
    <3>3. InitRow(k) = Line(Loaded[o].lines[n][1], Loaded[o].lines[n][2], o < Oldest(k[2]))
      BY <3>2 DEF InitRow
    <3> DEFINE lines == Loaded[o].lines
    <3>4. lines \in Lines /\ n \in 1..Len(lines)
      BY LoadedShape
    <3> HIDE DEF lines
    <3>5. lines[n][1] \in Items /\ lines[n][2] \in Nat
      BY <3>4, BasketShape
    <3>6. (o < Oldest(k[2])) \in BOOLEAN
      OBVIOUS
    <3>7. PICK b \in BOOLEAN : b = (o < Oldest(k[2]))
      BY <3>6
    <3>8. InitRow(k) = Line(lines[n][1], lines[n][2], b)
      BY <3>3, <3>7 DEF lines
    <3>9. InitRow(k) \in [item : Items, amount : Nat, dated : BOOLEAN]
      BY <3>5, <3>8 DEF Line
    <3>10. QED
      BY <3>2, <3>9 DEF Typed
  <2>8. QED
    BY <2>1, <2>2, <2>3, <2>4, <2>5, <2>6, <2>7, InitKey
<1>4. QED
  BY <1>1, <1>2, <1>3, InitFinite DEF Good

LEMMA RowInit == Init => RowIInv
<1> SUFFICES ASSUME Init
             PROVE  RowIInv
  OBVIOUS
<1>1. Good(db)
  BY InitGood DEF Init
<1>2. ASSUME NEW w \in Workers
      PROVE  RowShape(w)
  BY FS_EmptySet DEF Init, RowShape, Places, NewOrderPlaces, PaymentPlaces
<1>3. attempts \in 0..MaxAttempts /\ torn \in BOOLEAN
  <2>1. attempts = 0 /\ torn = FALSE
    BY DEF Init
  <2>2. 0 \in 0..MaxAttempts
    BY MaxAttemptsAssumption
  <2>3. QED
    BY <2>1, <2>2
<1>4. QED
  BY <1>1, <1>2, <1>3 DEF RowIInv

LEMMA RowsAreTyped == BookIInv /\ RowIInv => TypeOK
<1> SUFFICES ASSUME BookIInv, RowIInv
             PROVE  TypeOK
  OBVIOUS
<1>1. ASSUME NEW rows, Good(rows), NEW k \in DOMAIN rows
      PROVE  rows[k] \in Rows
  <2>1. Typed(k, rows[k])
    BY <1>1 DEF Good
  <2>2. Customers \subseteq Nat /\ Items \subseteq Nat
    BY CustomersAssumption, ItemsAssumption
  <2>3. \A r : /\ r \in [quantity : 10..100, ytd : Nat, orders : Nat] => r \in Rows
               /\ r \in [c : Customers, cnt : Nat, carrier : -1..10] => r \in Rows
               /\ r \in [item : Items, amount : Nat, dated : BOOLEAN] => r \in Rows
    <3>1. [quantity : 10..100, ytd : Nat, orders : Nat]
            \subseteq [quantity : Int, ytd : Nat, orders : Nat]
      OBVIOUS
    <3>2. [c : Customers, cnt : Nat, carrier : -1..10] \subseteq [c : Nat, cnt : Nat, carrier : -1..10]
      BY <2>2
    <3>3. [item : Items, amount : Nat, dated : BOOLEAN] \subseteq [item : Nat, amount : Nat, dated : BOOLEAN]
      BY <2>2
    <3>4. QED
      BY <3>1, <3>2, <3>3 DEF Rows
  <2>4. QED
    BY <2>1, <2>3 DEF Typed, Rows
<1>2. \A w \in Workers : RowShape(w) /\ BookShape(w)
  BY DEF BookIInv, RowIInv
<1>3. \A k \in DOMAIN db : db[k] \in Rows
  BY <1>1 DEF RowIInv
<1>4. ASSUME NEW w \in Workers
      PROVE  \A k \in DOMAIN view[w] : view[w][k] \in Rows
  <2>1. CASE open[w]
    BY <1>1, <1>2, <2>1 DEF RowShape
  <2>2. CASE ~open[w]
    BY <1>2, <2>2 DEF RowShape
  <2>3. QED
    BY <2>1, <2>2
<1>5. ASSUME NEW w \in Workers
      PROVE  /\ ~open[w] => view[w] = <<>> /\ wrote[w] = {} /\ stale[w] = {}
             /\ at[w] = "idle" => ~open[w]
  BY <1>2 DEF RowShape, BookShape
<1>6. open \in [Workers -> BOOLEAN] /\ at \in [Workers -> Places]
  <2>1. open \in [Workers -> BOOLEAN] /\ at = [w \in Workers |-> at[w]]
    BY DEF BookIInv, Tabled
  <2>2. \A w \in Workers : at[w] \in Places
    BY <1>2 DEF RowShape
  <2>3. QED
    BY <2>1, <2>2
<1>7. QED
  BY <1>3, <1>4, <1>5, <1>6 DEF TypeOK, RowIInv

LEMMA RowInvariant == Spec => [](BookIInv /\ RowIInv)
<1>1. Init => BookIInv /\ RowIInv
  BY BookInit, RowInit
<1>2. BookIInv /\ RowIInv /\ [Next]_vars => (BookIInv /\ RowIInv)'
  BY BookStep, RowStep
<1>3. QED
  BY <1>1, <1>2, PTL DEF Spec

\* Every row has the columns of its table, whatever the order of the statements
\* and however they fail, and a session in no transaction holds on to nothing.
THEOREM RowsKeepColumns == Spec => []TypeOK
BY RowInvariant, RowsAreTyped, PTL

---------------------------------------------------------------------------
(* Orders are whole.  What a transaction has inserted so far follows from   *)
(* where it is and what it knows.                                           *)

Inserts(m, place) ==
  IF m.lines # <<>>
  THEN {k \in {OrderKey(m.d, m.o, m.id)} :
          place \notin {"read_district", "take_id", "insert_order"}}
       \cup {k \in {NewOrderKey(m.d, m.o, m.id)} :
          place \notin {"read_district", "take_id", "insert_order", "insert_new_order"}}
       \cup {LineKey(m.d, m.o, j, m.id) : j \in 1..(m.n - 1)}
  ELSE {k \in {HistoryKey(m.cd, m.c, m.id)} : m.cd # 0 /\ place = "commit"}

Inserted(m, k) ==
  IF k[1] = "orders" THEN Order(m.c, Len(m.lines), -1)
  ELSE IF k[1] = "new_orders" THEN [o_id |-> m.o]
  ELSE IF k[1] = "order_line" THEN Line(m.lines[k[4]][1], m.lines[k[4]][2], FALSE)
  ELSE [d |-> m.d, amount |-> m.amount]

InsertedBy(w) == Inserts(my[w], at[w])

\* The columns that no statement updates.
SameOrder(k, old, new) ==
  /\ k[1] = "orders" => new.c = old.c /\ new.cnt = old.cnt
  /\ k[1] = "order_line" => new.item = old.item /\ new.amount = old.amount

\* A transaction has inserted the rows of its attempt, under keys of its own;
\* all others that it has written are committed rows, of which it deletes only
\* those of new_orders.
WorkShape(w) ==
  /\ InsertedBy(w) \subseteq wrote[w] \cap DOMAIN view[w]
  /\ \A k \in InsertedBy(w) : k \notin DOMAIN db /\ view[w][k] = Inserted(my[w], k)
  /\ \A k \in wrote[w] : k \in DOMAIN db \/ k \in InsertedBy(w)
  /\ \A k \in wrote[w] : k \in DOMAIN view[w] \/ k[1] = "new_orders"
  /\ \A k \in wrote[w] : k \in DOMAIN db /\ k \in DOMAIN view[w] =>
       k[1] # "history" /\ SameOrder(k, db[k], view[w][k])
  /\ \A k \in DOMAIN view[w] : k[5] = my[w].id => k \in InsertedBy(w)

\* An attempt that runs has a number of its own, which no committed row has.
IdsShape ==
  /\ \A k \in DOMAIN db : k[5] \in 0..attempts
  /\ \A v, w \in Workers : v # w /\ at[v] # "idle" /\ at[w] # "idle" => my[v].id # my[w].id
  /\ \A w \in Workers : Works(w) => \A k \in DOMAIN db : k[5] # my[w].id

Whole(rows) ==
  /\ \A k \in DOMAIN rows : k[1] = "orders" =>
       \A n \in 1..rows[k].cnt :
         \E l \in DOMAIN rows : l[1] = "order_line" /\ l[2] = k[2] /\ l[3] = k[3] /\ l[4] = n
  /\ \A l, k \in DOMAIN rows :
       k[1] = "orders" /\ l[1] = "order_line" /\ l[2] = k[2] /\ l[3] = k[3] =>
         l[4] \in 1..rows[k].cnt
  /\ \A l \in DOMAIN rows : l[1] \in {"order_line", "new_orders"} =>
       \E k \in DOMAIN rows : k[1] = "orders" /\ k[2] = l[2] /\ k[3] = l[3]
  /\ \A l, m \in DOMAIN rows :
       /\ l[1] = "order_line" /\ m[1] = "order_line"
       /\ l[2] = m[2] /\ l[3] = m[3] /\ l[4] = m[4]
       => l = m

OrderIInv ==
  /\ IdsShape
  /\ Whole(db)
  /\ \A w \in Workers : open[w] /\ Works(w) => WorkShape(w)

LEMMA InsertsMember ==
  ASSUME NEW m, NEW place, NEW k
  PROVE  k \in Inserts(m, place) <=>
           IF m.lines # <<>>
           THEN \/ /\ k = OrderKey(m.d, m.o, m.id)
                   /\ place \notin {"read_district", "take_id", "insert_order"}
                \/ /\ k = NewOrderKey(m.d, m.o, m.id)
                   /\ place \notin {"read_district", "take_id", "insert_order", "insert_new_order"}
                \/ \E j \in 1..(m.n - 1) : k = LineKey(m.d, m.o, j, m.id)
           ELSE k = HistoryKey(m.cd, m.c, m.id) /\ m.cd # 0 /\ place = "commit"
BY DEF Inserts

LEMMA InsertedKeys ==
  ASSUME NEW m, NEW place, NEW k \in Inserts(m, place)
  PROVE  /\ k[1] \in {"orders", "new_orders", "order_line", "history"} /\ k[5] = m.id
         /\ k[1] # "history" => m.lines # <<>> /\ k[2] = m.d /\ k[3] = m.o
         /\ k[1] = "history" => m.lines = <<>> /\ m.cd # 0 /\ k = HistoryKey(m.cd, m.c, m.id)
         /\ k[1] = "orders" => k = OrderKey(m.d, m.o, m.id)
         /\ k[1] = "order_line" => k[4] \in 1..(m.n - 1) /\ k = LineKey(m.d, m.o, k[4], m.id)
         /\ k \notin Fixed
<1>1. CASE m.lines = <<>>
  <2>1. k = HistoryKey(m.cd, m.c, m.id) /\ m.cd # 0
    BY <1>1, InsertsMember
  <2>2. k[1] = "history" /\ k[5] = m.id
    BY <2>1, KeyColumns
  <2>3. QED
    BY <1>1, <2>1, <2>2, FixedKeys
<1>2. CASE m.lines # <<>>
  <2>1. \/ k = OrderKey(m.d, m.o, m.id)
        \/ k = NewOrderKey(m.d, m.o, m.id)
        \/ \E j \in 1..(m.n - 1) : k = LineKey(m.d, m.o, j, m.id)
    BY <1>2, InsertsMember
  <2>2. CASE k = OrderKey(m.d, m.o, m.id)
    <3>1. k[1] = "orders" /\ k[2] = m.d /\ k[3] = m.o /\ k[5] = m.id
      BY <2>2, KeyColumns
    <3>2. QED
      BY <1>2, <2>2, <3>1, FixedKeys
  <2>3. CASE k = NewOrderKey(m.d, m.o, m.id)
    <3>1. k[1] = "new_orders" /\ k[2] = m.d /\ k[3] = m.o /\ k[5] = m.id
      BY <2>3, KeyColumns
    <3>2. QED
      BY <1>2, <3>1, FixedKeys
  <2>4. CASE \E j \in 1..(m.n - 1) : k = LineKey(m.d, m.o, j, m.id)
    <3>1. PICK j \in 1..(m.n - 1) : k = LineKey(m.d, m.o, j, m.id)
      BY <2>4
    <3>2. k[1] = "order_line" /\ k[2] = m.d /\ k[3] = m.o /\ k[4] = j /\ k[5] = m.id
      BY <3>1, KeyColumns
    <3>3. QED
      BY <1>2, <3>1, <3>2, FixedKeys
  <2>5. QED
    BY <2>1, <2>2, <2>3, <2>4
<1>3. QED
  BY <1>1, <1>2

\* Rows of orders are neither inserted nor changed, only waiting ones deleted.
Steady(old, new) ==
  /\ \A k \in DOMAIN new : k[1] \in {"orders", "order_line", "new_orders"} =>
       k \in DOMAIN old /\ SameOrder(k, old[k], new[k])
  /\ \A k \in DOMAIN old : k[1] \in {"orders", "order_line"} => k \in DOMAIN new

LEMMA SteadyIsWhole ==
  ASSUME NEW old, NEW new, Steady(old, new), Whole(old)
  PROVE  Whole(new)
<1>1. ASSUME NEW k \in DOMAIN new, k[1] = "orders", NEW n \in 1..new[k].cnt
      PROVE  \E l \in DOMAIN new :
               l[1] = "order_line" /\ l[2] = k[2] /\ l[3] = k[3] /\ l[4] = n
  <2>1. k \in DOMAIN old /\ n \in 1..old[k].cnt
    BY <1>1 DEF Steady, SameOrder
  <2>2. PICK l \in DOMAIN old : l[1] = "order_line" /\ l[2] = k[2] /\ l[3] = k[3] /\ l[4] = n
    BY <1>1, <2>1 DEF Whole
  <2>3. QED
    BY <2>2 DEF Steady
<1>2. ASSUME NEW l \in DOMAIN new, NEW k \in DOMAIN new,
             k[1] = "orders", l[1] = "order_line", l[2] = k[2], l[3] = k[3]
      PROVE  l[4] \in 1..new[k].cnt
  BY <1>2 DEF Steady, SameOrder, Whole
<1>3. ASSUME NEW l \in DOMAIN new, l[1] \in {"order_line", "new_orders"}
      PROVE  \E k \in DOMAIN new : k[1] = "orders" /\ k[2] = l[2] /\ k[3] = l[3]
  <2>1. PICK k \in DOMAIN old : k[1] = "orders" /\ k[2] = l[2] /\ k[3] = l[3]
    BY <1>3 DEF Steady, Whole
  <2>2. QED
    BY <2>1 DEF Steady
<1>4. ASSUME NEW l \in DOMAIN new, NEW m \in DOMAIN new,
             l[1] = "order_line", m[1] = "order_line",
             l[2] = m[2], l[3] = m[3], l[4] = m[4]
      PROVE  l = m
  BY <1>4 DEF Steady, Whole
<1>5. QED
  BY <1>1, <1>2, <1>3, <1>4 DEF Whole

---------------------------------------------------------------------------
(* A statement inside a transaction: it inserts the keys in N, and updates  *)
(* or deletes the others in K.                                              *)

Effect(w, K, N, rows) ==
  /\ Same(K, view[w], rows)
  /\ N \subseteq K
  /\ Inserts(my'[w], at'[w]) = Inserts(my[w], at[w]) \cup N
  /\ my'[w].id = my[w].id
  /\ \A k \in N : k[5] = my[w].id /\ k \in DOMAIN rows /\ rows[k] = Inserted(my'[w], k)
  /\ \A k \in Inserts(my[w], at[w]) : k \notin K /\ Inserted(my'[w], k) = Inserted(my[w], k)
  /\ \A k \in K \ N : /\ k \in DOMAIN view[w] /\ k[1] # "history"
                      /\ k \notin DOMAIN rows => k[1] = "new_orders"
                      /\ k \in DOMAIN rows => SameOrder(k, view[w][k], rows[k])

\* Others may commit what a transaction has not written.
LEMMA WorkBystander ==
  ASSUME NEW v \in Workers, WorkShape(v), NEW K, Same(K, db, db'), K \cap wrote[v] = {},
         view'[v] = view[v], wrote'[v] = wrote[v], at'[v] = at[v], my'[v] = my[v]
  PROVE  WorkShape(v)'
<1>1. InsertedBy(v)' = InsertedBy(v)
  BY DEF InsertedBy
<1>2. \A k \in wrote[v] : /\ k \in DOMAIN db' <=> k \in DOMAIN db
                          /\ k \in DOMAIN db => db'[k] = db[k]
  BY DEF Same
<1> HIDE DEF InsertedBy
<1>3. QED
  BY <1>1, <1>2 DEF WorkShape, SameOrder

LEMMA WorkWrite ==
  ASSUME BookIInv, OrderIInv, NEW w \in Workers, open[w], Works(w),
         NEW K, NEW N, NEW rows, NEW place, Does(w, K, rows, place), Effect(w, K, N, rows)
  PROVE  OrderIInv'
<1>1. /\ Writes(w, K, rows) /\ Steps(w) /\ attempts' = attempts
      /\ WorkShape(w) /\ IdsShape /\ Whole(db) /\ BookShape(w)
  BY DEF Does, OrderIInv, BookIInv
<1>2. /\ open' = open /\ db' = db /\ view'[w] = rows /\ wrote'[w] = wrote[w] \cup K
      /\ \A v \in Workers \ {w} : view'[v] = view[v] /\ wrote'[v] = wrote[v]
      /\ K \cap stale[w] = {}
  BY <1>1, WriteSplits
<1>3. /\ \A v \in Workers \ {w} : at'[v] = at[v] /\ my'[v] = my[v]
      /\ my'[w].id = my[w].id /\ at[w] # "idle"
  BY <1>1 DEF Steps, Effect, Works
<1>4. \A k \in K \ N : k \in DOMAIN db /\ (k \notin wrote[w] => view[w][k] = db[k])
  <2>1. SUFFICES ASSUME NEW k \in K \ N
                 PROVE  k \in DOMAIN db /\ (k \notin wrote[w] => view[w][k] = db[k])
    OBVIOUS
  <2>2. k \in DOMAIN view[w] /\ k \notin stale[w] /\ k \notin InsertedBy(w)
    BY <1>2 DEF Effect, InsertedBy
  <2>3. CASE k \in wrote[w]
    BY <1>1, <2>2, <2>3 DEF WorkShape
  <2>4. CASE k \notin wrote[w]
    BY <1>1, <2>2, <2>4 DEF BookShape, IsSnapshot
  <2>5. QED
    BY <2>3, <2>4
<1>5. \A k \in N : k \notin DOMAIN db
  BY <1>1 DEF IdsShape, Effect
<1>6. WorkShape(w)'
  <2> DEFINE I == InsertedBy(w)
             J == I \cup N
  <2>1. InsertedBy(w)' = J
    BY DEF Effect, InsertedBy
  <2>2. /\ N \subseteq K /\ \A k \in I : k \notin K /\ Inserted(my'[w], k) = Inserted(my[w], k)
        /\ \A k \in N : k[5] = my[w].id /\ k \in DOMAIN rows /\ rows[k] = Inserted(my'[w], k)
        /\ \A k : k \notin K => /\ k \in DOMAIN rows <=> k \in DOMAIN view[w]
                                /\ k \in DOMAIN view[w] => rows[k] = view[w][k]
    BY DEF Effect, InsertedBy, Same
  <2>3. /\ I \subseteq wrote[w] \cap DOMAIN view[w]
        /\ \A k \in I : k \notin DOMAIN db /\ view[w][k] = Inserted(my[w], k)
        /\ \A k \in wrote[w] : k \in DOMAIN db \/ k \in I
        /\ \A k \in wrote[w] : k \in DOMAIN view[w] \/ k[1] = "new_orders"
        /\ \A k \in DOMAIN view[w] : k[5] = my[w].id => k \in I
    BY <1>1 DEF WorkShape
  <2>4. \A k \in wrote[w] : k \in DOMAIN db /\ k \in DOMAIN view[w] =>
          k[1] # "history" /\ SameOrder(k, db[k], view[w][k])
    BY <1>1 DEF WorkShape
  <2>5. \A k \in K \ N : /\ k \in DOMAIN view[w] /\ k[1] # "history"
                         /\ k \notin DOMAIN rows => k[1] = "new_orders"
                         /\ k \in DOMAIN rows => SameOrder(k, view[w][k], rows[k])
    BY DEF Effect
  <2> HIDE DEF I
  <2>6. J \subseteq wrote'[w] \cap DOMAIN view'[w]
    BY <1>2, <2>2, <2>3
  <2>7. \A k \in J : k \notin DOMAIN db' /\ view'[w][k] = Inserted(my'[w], k)
    BY <1>2, <1>5, <2>2, <2>3
  <2>8. \A k \in wrote'[w] : k \in DOMAIN db' \/ k \in J
    BY <1>2, <1>4, <2>3
  <2>9. \A k \in wrote'[w] : k \in DOMAIN view'[w] \/ k[1] = "new_orders"
    BY <1>2, <2>2, <2>3, <2>5
  <2>10. ASSUME NEW k \in wrote'[w], k \in DOMAIN db', k \in DOMAIN view'[w]
         PROVE  k[1] # "history" /\ SameOrder(k, db'[k], view'[w][k])
    <3>1. CASE k \notin K
      BY <1>2, <2>2, <2>4, <2>10, <3>1
    <3>2. CASE k \in K
      <4>1. k \in K \ N /\ k \in DOMAIN rows /\ k \in DOMAIN db
        BY <1>2, <1>5, <2>10, <3>2
      <4>2. SameOrder(k, view[w][k], rows[k]) /\ k[1] # "history" /\ k \in DOMAIN view[w]
        BY <2>5, <4>1
      <4>3. SameOrder(k, db[k], view[w][k])
        BY <1>4, <2>4, <4>1, <4>2 DEF SameOrder
      <4>4. QED
        BY <1>2, <4>2, <4>3 DEF SameOrder
    <3>3. QED
      BY <3>1, <3>2
  <2>11. \A k \in DOMAIN view'[w] : k[5] = my'[w].id => k \in J
    BY <1>2, <1>3, <2>2, <2>3, <2>5
  <2> HIDE DEF J
  <2>12. QED
    BY <2>1, <2>6, <2>7, <2>8, <2>9, <2>10, <2>11 DEF WorkShape, SameOrder
<1>7. ASSUME NEW v \in Workers \ {w}, open'[v], Works(v)'
      PROVE  WorkShape(v)'
  <2>1. WorkShape(v)
    BY <1>2, <1>3, <1>7 DEF OrderIInv, Works
  <2>2. Same({}, db, db')
    BY <1>2 DEF Same
  <2>3. QED
    BY <1>2, <1>3, <2>1, <2>2, WorkBystander
<1>8. IdsShape'
  <2>1. \A v \in Workers : at'[v] # "idle" => at[v] # "idle" /\ my'[v].id = my[v].id
    BY <1>3
  <2>2. \A v \in Workers : Works(v)' => Works(v)
    BY <1>1, <1>3 DEF Works
  <2>3. \A k \in DOMAIN db' : k[5] \in 0..attempts'
    BY <1>1, <1>2 DEF IdsShape
  <2>4. \A v, u \in Workers : v # u /\ at'[v] # "idle" /\ at'[u] # "idle" => my'[v].id # my'[u].id
    BY <1>1, <2>1 DEF IdsShape
  <2>5. \A v \in Workers : Works(v)' => \A k \in DOMAIN db' : k[5] # my'[v].id
    BY <1>1, <1>2, <2>1, <2>2 DEF IdsShape, Works
  <2>6. QED
    BY <2>3, <2>4, <2>5 DEF IdsShape
<1>9. Whole(db)'
  BY <1>1, <1>2 DEF Whole
<1>10. QED
  BY <1>6, <1>7, <1>8, <1>9 DEF OrderIInv

LEMMA InsertsKept ==
  ASSUME NEW w, NEW F, Others(w, F), "id" \notin F,
         \/ IsDelivery(w)
         \/ /\ F \subseteq {"seen"}
            /\ IsNewOrder(w) =>
                 /\ at'[w] \in {"read_district", "take_id", "insert_order"} <=>
                      at[w] \in {"read_district", "take_id", "insert_order"}
                 /\ at'[w] = "insert_new_order" <=> at[w] = "insert_new_order"
            /\ IsPayment(w) => at[w] # "commit" /\ at'[w] # "commit"
  PROVE  /\ Inserts(my'[w], at'[w]) = Inserts(my[w], at[w])
         /\ \A k \in Inserts(my[w], at[w]) : Inserted(my'[w], k) = Inserted(my[w], k)
         /\ my'[w].id = my[w].id
<1>1. CASE IsDelivery(w)
  BY <1>1 DEF IsDelivery, Others, Inserts
<1>2. CASE ~IsDelivery(w)
  <2>1. /\ F \subseteq {"seen"}
        /\ IsNewOrder(w) =>
             /\ at'[w] \in {"read_district", "take_id", "insert_order"} <=>
                  at[w] \in {"read_district", "take_id", "insert_order"}
             /\ at'[w] = "insert_new_order" <=> at[w] = "insert_new_order"
        /\ IsPayment(w) => at[w] # "commit" /\ at'[w] # "commit"
    BY <1>2
  <2>2. /\ my'[w].id = my[w].id /\ my'[w].d = my[w].d /\ my'[w].c = my[w].c
        /\ my'[w].o = my[w].o /\ my'[w].n = my[w].n /\ my'[w].cd = my[w].cd
        /\ my'[w].lines = my[w].lines /\ my'[w].amount = my[w].amount
    BY <2>1 DEF Others
  <2>3. \A k : Inserted(my'[w], k) = Inserted(my[w], k)
    BY <2>2 DEF Inserted
  <2>4. Inserts(my'[w], at'[w]) = Inserts(my[w], at[w])
    <3>1. CASE IsNewOrder(w)
      BY <2>1, <2>2, <3>1 DEF IsNewOrder, Inserts
    <3>2. CASE IsPayment(w)
      BY <2>1, <2>2, <3>2 DEF IsPayment, Inserts
    <3>3. QED
      BY <1>2, <3>1, <3>2 DEF IsNewOrder, IsPayment, IsDelivery
  <2>5. QED
    BY <2>2, <2>3, <2>4
<1>3. QED
  BY <1>1, <1>2

LEMMA ReadEffect ==
  ASSUME NEW w, Inserts(my'[w], at'[w]) = Inserts(my[w], at[w]), my'[w].id = my[w].id,
         \A k \in Inserts(my[w], at[w]) : Inserted(my'[w], k) = Inserted(my[w], k)
  PROVE  Effect(w, {}, {}, view[w])
BY DEF Effect, Same

\* A row that is never inserted is updated.
LEMMA UpdateEffect ==
  ASSUME NEW w, Good(view[w]), NEW k \in Fixed, NEW row,
         Inserts(my'[w], at'[w]) = Inserts(my[w], at[w]), my'[w].id = my[w].id,
         \A x \in Inserts(my[w], at[w]) : Inserted(my'[w], x) = Inserted(my[w], x)
  PROVE  Effect(w, {k}, {}, With(view[w], [x \in {k} |-> row]))
<1> DEFINE new == With(view[w], [x \in {k} |-> row])
<1>1. Same({k}, view[w], new) /\ k \in DOMAIN new /\ k \in DOMAIN view[w]
  <2>1. Same({k}, view[w], new) /\ DOMAIN new = DOMAIN view[w] \cup {k}
    BY DEF With, Same
  <2>2. k \in DOMAIN view[w]
    BY DEF Good
  <2> HIDE DEF new
  <2>3. QED
    BY <2>1, <2>2
<1>2. k[1] \notin {"history", "orders", "order_line"} /\ k \notin Inserts(my[w], at[w])
  BY FixedKeys, InsertedKeys
<1> HIDE DEF new
<1>3. Effect(w, {k}, {}, new)
  BY <1>1, <1>2 DEF Effect, SameOrder
<1>4. QED
  BY <1>3 DEF new

\* A row is inserted.
LEMMA InsertEffect ==
  ASSUME NEW w, NEW k, k[5] = my[w].id, k \notin Inserts(my[w], at[w]),
         Inserts(my'[w], at'[w]) = Inserts(my[w], at[w]) \cup {k}, my'[w].id = my[w].id,
         \A x \in Inserts(my[w], at[w]) : Inserted(my'[w], x) = Inserted(my[w], x)
  PROVE  Effect(w, {k}, {k}, With(view[w], [x \in {k} |-> Inserted(my'[w], k)]))
<1> DEFINE row == Inserted(my'[w], k)
           new == With(view[w], [x \in {k} |-> row])
<1> HIDE DEF row
<1>1. Same({k}, view[w], new) /\ DOMAIN new = DOMAIN view[w] \cup {k} /\ new[k] = row
  BY DEF With, Same
<1> HIDE DEF new
<1>2. Effect(w, {k}, {k}, new)
  BY <1>1 DEF Effect, row
<1>3. QED
  BY <1>2 DEF new, row

LEMMA NewOrderWorks ==
  ASSUME BookIInv, RowIInv, OrderIInv, NEW w \in Workers,
         \/ ReadsDistrict(w) \/ TakesId(w) \/ InsertsOrder(w) \/ InsertsNewOrder(w)
         \/ ReadsStock(w) \/ UpdatesStock(w) \/ InsertsLine(w)
  PROVE  OrderIInv'
<1> USE DEF NewOrderPlaces
<1>1. ASSUME at[w] \in NewOrderPlaces
      PROVE  /\ open[w] /\ Works(w) /\ Good(view[w]) /\ Sees(w) = view[w] /\ IsNewOrder(w)
             /\ ~IsDelivery(w) /\ ~IsPayment(w) /\ my[w].lines # <<>>
             /\ my[w].d \in Districts /\ Item(w) \in Items
             /\ my[w].n \in 1..Len(my[w].lines) /\ Len(my[w].lines) \in Nat \ {0}
  BY <1>1, NewOrderKnows DEF Works, IsNewOrder, IsDelivery, IsPayment, DrawTyped
<1>2. CASE ReadsDistrict(w)
  <2>1. at[w] = "read_district" /\ Does(w, {}, Sees(w), "take_id") /\ Others(w, {"o"})
    BY <1>2, ReadsDistrictDoes
  <2>2. at'[w] = "take_id" /\ open[w] /\ Works(w) /\ Sees(w) = view[w] /\ my[w].lines # <<>>
    BY <1>1, <2>1 DEF Does
  <2>3. Inserts(my[w], at[w]) = {}
    BY <2>1, <2>2 DEF BookIInv, BookShape, OrderIInv, WorkShape, InsertedBy
  <2>4. 1..(my[w].n - 1) = {}
    <3>1. \A k : k \in Inserts(my[w], at[w]) <=>
                  \E j \in 1..(my[w].n - 1) : k = LineKey(my[w].d, my[w].o, j, my[w].id)
      BY <2>1, <2>2, InsertsMember
    <3>2. \A j : j \notin 1..(my[w].n - 1)
      BY <2>3, <3>1
    <3>3. QED
      BY <3>2
  <2>5. my'[w].n = my[w].n /\ my'[w].lines = my[w].lines /\ my'[w].id = my[w].id
    BY <2>1 DEF Others
  <2>6. \A k : k \notin Inserts(my'[w], at'[w])
    BY <2>2, <2>4, <2>5, InsertsMember
  <2>7. Effect(w, {}, {}, view[w])
    BY <2>3, <2>5, <2>6, ReadEffect
  <2>8. QED
    BY <2>1, <2>2, <2>7, WorkWrite
<1>3. CASE TakesId(w)
  <2> DEFINE k == DistrictKey(my[w].d)
             row == [Sees(w)[k] EXCEPT !.next = @ + 1]
  <2>1. /\ at[w] = "take_id" /\ Others(w, {})
        /\ Does(w, {k}, With(Sees(w), [x \in {k} |-> row]), "insert_order")
    BY <1>3, TakesIdDoes
  <2>2. at'[w] = "insert_order" /\ k \in Fixed
    BY <1>1, <2>1, FixedKeys DEF Does
  <2> HIDE DEF row, k
  <2>3. Effect(w, {k}, {}, With(Sees(w), [x \in {k} |-> row]))
    BY <1>1, <2>1, <2>2, InsertsKept, UpdateEffect
  <2>4. QED
    BY <1>1, <2>1, <2>3, WorkWrite
<1>4. CASE InsertsOrder(w)
  <2> DEFINE k == OrderKey(my[w].d, my[w].o, my[w].id)
             row == Order(my[w].c, Len(my[w].lines), -1)
  <2>1. /\ at[w] = "insert_order" /\ Others(w, {})
        /\ Does(w, {k}, With(Sees(w), [x \in {k} |-> row]), "insert_new_order")
    BY <1>4, InsertsOrderDoes
  <2>2. /\ at'[w] = "insert_new_order" /\ k[1] = "orders" /\ k[5] = my[w].id
        /\ my[w].lines # <<>>
    BY <1>1, <2>1, KeyColumns DEF Does
  <2>3. /\ my'[w].id = my[w].id /\ my'[w].d = my[w].d /\ my'[w].c = my[w].c
        /\ my'[w].o = my[w].o /\ my'[w].n = my[w].n /\ my'[w].cd = my[w].cd
        /\ my'[w].lines = my[w].lines /\ my'[w].amount = my[w].amount
    BY <2>1 DEF Others
  <2>4. \A x : x \in Inserts(my'[w], at'[w]) <=> x \in Inserts(my[w], at[w]) \cup {k}
    BY <2>1, <2>2, <2>3, InsertsMember
  <2>5. k \notin Inserts(my[w], at[w])
    BY <2>1, <2>2, InsertsMember, KeyColumns
  <2>6. row = Inserted(my'[w], k) /\ \A x : Inserted(my'[w], x) = Inserted(my[w], x)
    BY <2>2, <2>3 DEF Inserted
  <2> HIDE DEF row, k
  <2>7. Effect(w, {k}, {k}, With(Sees(w), [x \in {k} |-> row]))
    BY <1>1, <2>1, <2>2, <2>3, <2>4, <2>5, <2>6, InsertEffect
  <2>8. QED
    BY <1>1, <2>1, <2>7, WorkWrite
<1>5. CASE InsertsNewOrder(w)
  <2> DEFINE k == NewOrderKey(my[w].d, my[w].o, my[w].id)
             row == [o_id |-> my[w].o]
  <2>1. /\ at[w] = "insert_new_order" /\ Others(w, {})
        /\ Does(w, {k}, With(Sees(w), [x \in {k} |-> row]), "read_stock")
    BY <1>5, InsertsNewOrderDoes
  <2>2. /\ at'[w] = "read_stock" /\ k[1] = "new_orders" /\ k[5] = my[w].id
        /\ my[w].lines # <<>>
    BY <1>1, <2>1, KeyColumns DEF Does
  <2>3. /\ my'[w].id = my[w].id /\ my'[w].d = my[w].d /\ my'[w].c = my[w].c
        /\ my'[w].o = my[w].o /\ my'[w].n = my[w].n /\ my'[w].cd = my[w].cd
        /\ my'[w].lines = my[w].lines /\ my'[w].amount = my[w].amount
    BY <2>1 DEF Others
  <2>4. \A x : x \in Inserts(my'[w], at'[w]) <=> x \in Inserts(my[w], at[w]) \cup {k}
    BY <2>1, <2>2, <2>3, InsertsMember
  <2>5. k \notin Inserts(my[w], at[w])
    BY <2>1, <2>2, InsertsMember, KeyColumns
  <2>6. row = Inserted(my'[w], k) /\ \A x : Inserted(my'[w], x) = Inserted(my[w], x)
    BY <2>2, <2>3 DEF Inserted
  <2> HIDE DEF row, k
  <2>7. Effect(w, {k}, {k}, With(Sees(w), [x \in {k} |-> row]))
    BY <1>1, <2>1, <2>2, <2>3, <2>4, <2>5, <2>6, InsertEffect
  <2>8. QED
    BY <1>1, <2>1, <2>7, WorkWrite
<1>6. CASE ReadsStock(w)
  <2>1. at[w] = "read_stock" /\ Does(w, {}, Sees(w), "update_stock") /\ Others(w, {"seen"})
    BY <1>6, ReadsStockDoes
  <2>2. at'[w] = "update_stock"
    BY <2>1 DEF Does
  <2>3. Effect(w, {}, {}, view[w])
    BY <1>1, <2>1, <2>2, InsertsKept, ReadEffect
  <2>4. QED
    BY <1>1, <2>1, <2>3, WorkWrite
<1>7. CASE UpdatesStock(w)
  <2> DEFINE k == StockKey(Item(w))
             row == Restocked(my[w].seen, Quantity(w))
  <2>1. /\ at[w] = "update_stock" /\ Others(w, {})
        /\ Does(w, {k}, With(Sees(w), [x \in {k} |-> row]), "insert_line")
    BY <1>7, UpdatesStockDoes
  <2>2. at'[w] = "insert_line" /\ k \in Fixed
    BY <1>1, <2>1, FixedKeys DEF Does
  <2> HIDE DEF row, k
  <2>3. Effect(w, {k}, {}, With(Sees(w), [x \in {k} |-> row]))
    BY <1>1, <2>1, <2>2, InsertsKept, UpdateEffect
  <2>4. QED
    BY <1>1, <2>1, <2>3, WorkWrite
<1>8. CASE InsertsLine(w)
  <2> DEFINE k == LineKey(my[w].d, my[w].o, my[w].n, my[w].id)
             row == Line(Item(w), Quantity(w), FALSE)
             place == IF my[w].n < Len(my[w].lines) THEN "read_stock" ELSE "commit"
  <2>1. /\ at[w] = "insert_line" /\ Others(w, {"n", "seen"}) /\ my'[w].n = my[w].n + 1
        /\ Does(w, {k}, With(Sees(w), [x \in {k} |-> row]), place)
    BY <1>8, InsertsLineDoes
  <2>2. /\ at'[w] \in {"read_stock", "commit"} /\ k[1] = "order_line" /\ k[5] = my[w].id
        /\ k[4] = my[w].n /\ my[w].lines # <<>> /\ my[w].n \in Nat \ {0}
    BY <1>1, <2>1, KeyColumns DEF Does
  <2>3. /\ my'[w].id = my[w].id /\ my'[w].d = my[w].d /\ my'[w].c = my[w].c
        /\ my'[w].o = my[w].o /\ my'[w].cd = my[w].cd
        /\ my'[w].lines = my[w].lines /\ my'[w].amount = my[w].amount
    BY <2>1 DEF Others
  <2>4. \A x : x \in Inserts(my'[w], at'[w]) <=> x \in Inserts(my[w], at[w]) \cup {k}
    <3>1. \A x : (\E j \in 1..(my'[w].n - 1) : x = LineKey(my[w].d, my[w].o, j, my[w].id))
                 <=> \/ \E j \in 1..(my[w].n - 1) : x = LineKey(my[w].d, my[w].o, j, my[w].id)
                     \/ x = k
      <4>1. \A j : j \in 1..(my'[w].n - 1) <=> j \in 1..(my[w].n - 1) \/ j = my[w].n
        BY <2>1, <2>2
      <4>2. QED
        BY <4>1
    <3>2. QED
      BY <2>1, <2>2, <2>3, <3>1, InsertsMember
  <2>5. k \notin Inserts(my[w], at[w])
    BY <2>2, InsertedKeys
  <2>6. row = Inserted(my'[w], k) /\ \A x : Inserted(my'[w], x) = Inserted(my[w], x)
    BY <2>2, <2>3 DEF Inserted, Item, Quantity
  <2> HIDE DEF row, k, place
  <2>7. Effect(w, {k}, {k}, With(Sees(w), [x \in {k} |-> row]))
    BY <1>1, <2>1, <2>2, <2>3, <2>4, <2>5, <2>6, InsertEffect
  <2>8. QED
    BY <1>1, <2>1, <2>7, WorkWrite
<1>9. QED
  BY <1>2, <1>3, <1>4, <1>5, <1>6, <1>7, <1>8

LEMMA PaymentWorks ==
  ASSUME BookIInv, RowIInv, OrderIInv, NEW w \in Workers,
         \/ UpdatesWarehouse(w) \/ UpdatesDistrict(w) \/ ReadsCustomer(w)
         \/ UpdatesCustomer(w) \/ InsertsHistory(w)
  PROVE  OrderIInv'
<1> USE DEF PaymentPlaces
<1>1. ASSUME at[w] \in PaymentPlaces
      PROVE  /\ open[w] /\ Works(w) /\ Good(view[w]) /\ Sees(w) = view[w] /\ IsPayment(w)
             /\ ~IsNewOrder(w) /\ ~IsDelivery(w) /\ my[w].lines = <<>> /\ my[w].cd # 0
             /\ my[w].d \in Districts /\ my[w].cd \in Districts /\ my[w].c \in Customers
  BY <1>1, PaymentKnows DEF Works, IsPayment, IsNewOrder, IsDelivery
<1>2. ASSUME at[w] \in PaymentPlaces, NEW k \in Fixed, NEW row, NEW place, place \in PaymentPlaces,
             Does(w, {k}, With(Sees(w), [x \in {k} |-> row]), place), Others(w, {})
      PROVE  OrderIInv'
  <2>1. at'[w] = place
    BY <1>2 DEF Does
  <2>2. Effect(w, {k}, {}, With(Sees(w), [x \in {k} |-> row]))
    BY <1>1, <1>2, <2>1, InsertsKept, UpdateEffect
  <2>3. QED
    BY <1>1, <1>2, <2>2, WorkWrite
<1>3. CASE UpdatesWarehouse(w)
  <2> DEFINE k == WarehouseKey
             row == [Sees(w)[k] EXCEPT !.ytd = @ + my[w].amount]
  <2>1. /\ at[w] = "update_warehouse" /\ Others(w, {}) /\ k \in Fixed
        /\ Does(w, {k}, With(Sees(w), [x \in {k} |-> row]), "update_district")
    BY <1>3, UpdatesWarehouseDoes, FixedKeys
  <2> HIDE DEF row, k
  <2>2. QED
    BY <1>2, <2>1
<1>4. CASE UpdatesDistrict(w)
  <2> DEFINE k == DistrictKey(my[w].d)
             row == [Sees(w)[k] EXCEPT !.ytd = @ + my[w].amount]
  <2>1. /\ at[w] = "update_district" /\ Others(w, {})
        /\ Does(w, {k}, With(Sees(w), [x \in {k} |-> row]), "read_customer")
    BY <1>4, UpdatesDistrictDoes
  <2>2. k \in Fixed
    BY <1>1, <2>1, FixedKeys
  <2> HIDE DEF row, k
  <2>3. QED
    BY <1>2, <2>1, <2>2
<1>5. CASE ReadsCustomer(w)
  <2>1. /\ at[w] = "read_customer" /\ Does(w, {}, Sees(w), "update_customer")
        /\ Others(w, {"seen"})
    BY <1>5, ReadsCustomerDoes
  <2>2. at'[w] = "update_customer"
    BY <2>1 DEF Does
  <2>3. Effect(w, {}, {}, view[w])
    BY <1>1, <2>1, <2>2, InsertsKept, ReadEffect
  <2>4. QED
    BY <1>1, <2>1, <2>3, WorkWrite
<1>6. CASE UpdatesCustomer(w)
  <2> DEFINE k == CustomerKey(my[w].cd, my[w].c)
             row == [Sees(w)[k] EXCEPT !.balance = my[w].seen.balance - my[w].amount,
                                       !.ytd = my[w].seen.ytd + my[w].amount,
                                       !.payments = my[w].seen.payments + 1]
  <2>1. /\ at[w] = "update_customer" /\ Others(w, {})
        /\ Does(w, {k}, With(Sees(w), [x \in {k} |-> row]), "insert_history")
    BY <1>6, UpdatesCustomerDoes
  <2>2. k \in Fixed
    BY <1>1, <2>1, FixedKeys
  <2> HIDE DEF row, k
  <2>3. QED
    BY <1>2, <2>1, <2>2
<1>7. CASE InsertsHistory(w)
  <2> DEFINE k == HistoryKey(my[w].cd, my[w].c, my[w].id)
             row == [d |-> my[w].d, amount |-> my[w].amount]
  <2>1. /\ at[w] = "insert_history" /\ Others(w, {})
        /\ Does(w, {k}, With(Sees(w), [x \in {k} |-> row]), "commit")
    BY <1>7, InsertsHistoryDoes
  <2>2. /\ at'[w] = "commit" /\ k[1] = "history" /\ k[5] = my[w].id
    BY <2>1, KeyColumns DEF Does
  <2>3. /\ my'[w].id = my[w].id /\ my'[w].d = my[w].d /\ my'[w].c = my[w].c
        /\ my'[w].o = my[w].o /\ my'[w].n = my[w].n /\ my'[w].cd = my[w].cd
        /\ my'[w].lines = my[w].lines /\ my'[w].amount = my[w].amount
    BY <2>1 DEF Others
  <2>4. \A x : x \in Inserts(my'[w], at'[w]) <=> x \in Inserts(my[w], at[w]) \cup {k}
    BY <1>1, <2>1, <2>2, <2>3, InsertsMember
  <2>5. k \notin Inserts(my[w], at[w])
    BY <1>1, <2>1, InsertsMember
  <2>6. row = Inserted(my'[w], k) /\ \A x : Inserted(my'[w], x) = Inserted(my[w], x)
    BY <2>2, <2>3 DEF Inserted
  <2> HIDE DEF row, k
  <2>7. Effect(w, {k}, {k}, With(Sees(w), [x \in {k} |-> row]))
    BY <1>1, <2>1, <2>2, <2>3, <2>4, <2>5, <2>6, InsertEffect
  <2>8. QED
    BY <1>1, <2>1, <2>7, WorkWrite
<1>8. QED
  BY <1>3, <1>4, <1>5, <1>6, <1>7

---------------------------------------------------------------------------
(* Delivery inserts nothing; without a transaction its statements commit by *)
(* themselves.                                                              *)

\* Rows of orders keep what identifies them, customers what they paid, and only
\* waiting orders are deleted.
SameOf(k, old, new) ==
  /\ k[1] \in {"new_orders", "orders", "order_line", "customer"}
  /\ SameOrder(k, old, new)
  /\ k[1] = "customer" => new.ytd = old.ytd /\ new.payments = old.payments

Mild(K, old, new) ==
  /\ Same(K, old, new)
  /\ \A k \in K : /\ k \in DOMAIN old
                  /\ k \notin DOMAIN new => k[1] = "new_orders"
                  /\ k \in DOMAIN new => SameOf(k, old[k], new[k])

LEMMA MildUpdate ==
  ASSUME NEW rows, NEW new, DOMAIN new \subseteq DOMAIN rows,
         \A k \in DOMAIN new : SameOf(k, rows[k], new[k])
  PROVE  Mild(DOMAIN new, rows, With(rows, new))
<1> DEFINE r == With(rows, new)
<1>1. /\ DOMAIN r = DOMAIN rows \cup DOMAIN new
      /\ \A k \in DOMAIN r : r[k] = IF k \in DOMAIN new THEN new[k] ELSE rows[k]
  BY DEF With
<1> HIDE DEF r
<1>2. Mild(DOMAIN new, rows, r)
  BY <1>1 DEF Mild, Same
<1>3. QED
  BY <1>2 DEF r

LEMMA MildDelete ==
  ASSUME NEW rows, NEW K, K \subseteq DOMAIN rows, \A k \in K : k[1] = "new_orders"
  PROVE  Mild(K, rows, Restrict(rows, DOMAIN rows \ K))
<1> DEFINE r == Restrict(rows, DOMAIN rows \ K)
<1>1. DOMAIN r = DOMAIN rows \ K /\ \A k \in DOMAIN r : r[k] = rows[k]
  BY DEF Restrict
<1> HIDE DEF r
<1>2. Mild(K, rows, r)
  BY <1>1 DEF Mild, Same
<1>3. QED
  BY <1>2 DEF r

LEMMA MildWrite ==
  ASSUME BookIInv, RowIInv, OrderIInv, NEW w \in Workers, at[w] \in DeliveryPlaces,
         NEW K, NEW rows, NEW place, Does(w, K, rows, place), Mild(K, Sees(w), rows),
         NEW F, Others(w, F), "id" \notin F
  PROVE  OrderIInv'
<1>1. IsDelivery(w) /\ Works(w)
  BY DeliveryKnows DEF DeliveryPlaces, Works
<1>2. CASE open[w]
  <2>1. /\ Inserts(my'[w], at'[w]) = {} /\ Inserts(my[w], at[w]) = {} /\ my'[w].id = my[w].id
    BY <1>1 DEF IsDelivery, Others, Inserts
  <2>2. Effect(w, K, {}, rows)
    BY <1>2, <2>1 DEF Effect, Mild, SameOf, Sees
  <2>3. QED
    BY <1>1, <1>2, <2>2, WorkWrite
<1>3. CASE ~open[w]
  <2>1. /\ Writes(w, K, rows) /\ Steps(w) /\ attempts' = attempts
        /\ IdsShape /\ Whole(db) /\ Mild(K, db, rows)
    BY <1>3 DEF Does, OrderIInv, Sees
  <2>2. /\ open' = open /\ db' = rows
        /\ \A v \in Workers \ {w} : view'[v] = view[v] /\ wrote'[v] = wrote[v]
        /\ \A v \in Workers \ {w} : open[v] => K \cap wrote[v] = {}
    BY <1>3, <2>1, WriteSplits
  <2>3. /\ \A v \in Workers \ {w} : at'[v] = at[v] /\ my'[v] = my[v]
        /\ my'[w].id = my[w].id /\ at[w] # "idle"
    BY <1>1, <2>1 DEF Steps, Others, Works
  <2>4. Steady(db, rows) /\ DOMAIN rows \subseteq DOMAIN db
    BY <2>1 DEF Mild, SameOf, Same, Steady, SameOrder
  <2>5. Whole(db)'
    <3>1. Whole(rows)
      BY <2>1, <2>4, SteadyIsWhole
    <3>2. QED
      BY <2>2, <3>1 DEF Whole
  <2>6. IdsShape'
    <3>1. \A v \in Workers : at'[v] # "idle" => at[v] # "idle" /\ my'[v].id = my[v].id
      BY <2>3
    <3>2. \A v \in Workers : Works(v)' => Works(v)
      BY <1>1, <2>3 DEF Works
    <3>3. \A k \in DOMAIN db' : k[5] \in 0..attempts'
      BY <2>1, <2>2, <2>4 DEF IdsShape
    <3>4. \A v, u \in Workers : v # u /\ at'[v] # "idle" /\ at'[u] # "idle" => my'[v].id # my'[u].id
      BY <2>1, <3>1 DEF IdsShape
    <3>5. \A v \in Workers : Works(v)' => \A k \in DOMAIN db' : k[5] # my'[v].id
      BY <2>1, <2>2, <2>4, <3>1, <3>2 DEF IdsShape, Works
    <3>6. QED
      BY <3>3, <3>4, <3>5 DEF IdsShape
  <2>7. ASSUME NEW v \in Workers, open'[v], Works(v)'
        PROVE  WorkShape(v)'
    <3>1. v # w /\ open[v]
      BY <1>3, <2>2, <2>7
    <3>2. WorkShape(v)
      BY <2>3, <2>7, <3>1 DEF OrderIInv, Works
    <3>3. Same(K, db, db') /\ K \cap wrote[v] = {}
      BY <2>1, <2>2, <3>1 DEF Mild
    <3>4. QED
      BY <2>2, <2>3, <3>1, <3>2, <3>3, WorkBystander
  <2>8. QED
    BY <2>5, <2>6, <2>7 DEF OrderIInv
<1>4. QED
  BY <1>2, <1>3

LEMMA MildRead ==
  ASSUME NEW rows
  PROVE  Mild({}, rows, rows)
BY DEF Mild, Same

LEMMA DeliveryIsMild ==
  ASSUME BookIInv, RowIInv, NEW w \in Workers,
         \/ FindsOldest(w) \/ DeletesNewOrder(w) \/ UpdatesOrder(w) \/ UpdatesLines(w)
         \/ ReadsOrder(w) \/ SumsAmounts(w) \/ CreditsCustomer(w)
  PROVE  /\ at[w] \in DeliveryPlaces
         /\ \E K, rows, place, F : /\ Does(w, K, rows, place) /\ Mild(K, Sees(w), rows)
                                 /\ place \in DeliveryPlaces \cup {"commit"}
                                 /\ Others(w, F) /\ "id" \notin F
<1> DEFINE P == \E K, rows, place, F : /\ Does(w, K, rows, place) /\ Mild(K, Sees(w), rows)
                                       /\ place \in DeliveryPlaces \cup {"commit"}
                                       /\ Others(w, F) /\ "id" \notin F
           Q == at[w] \in DeliveryPlaces /\ P
<1> USE DEF DeliveryPlaces
<1>1. ASSUME at[w] \in DeliveryPlaces
      PROVE  Good(Sees(w)) /\ my[w].d \in Districts /\ Tabled /\ IsDraw(my[w])
  BY <1>1, DeliveryKnows, MyShape
<1>2. ASSUME at[w] \in DeliveryPlaces, NEW place, Does(w, {}, Sees(w), place),
             place \in DeliveryPlaces \cup {"commit"}, NEW F, Others(w, F), "id" \notin F
      PROVE  Q
  BY <1>2, MildRead
<1> SUFFICES Q
  OBVIOUS
<1> HIDE DEF Q
<1>3. CASE FindsOldest(w)
  <2>1. /\ at[w] = "find_oldest"
        /\ \E place \in DeliveryPlaces \cup {"commit"} : Does(w, {}, Sees(w), place)
        /\ NextDistrict(w) \/ Others(w, {"o"})
    BY <1>3, FindsOldestDoes
  <2>2. PICK place \in DeliveryPlaces \cup {"commit"} : Does(w, {}, Sees(w), place)
    BY <2>1
  <2>3. CASE NextDistrict(w)
    <3>1. Others(w, {"d", "o", "c", "seen"})
      BY <1>1, <2>1, <2>3, NextDistrictDoes
    <3>2. QED
      BY <1>2, <2>1, <2>2, <3>1
  <2>4. CASE Others(w, {"o"})
    BY <1>2, <2>1, <2>2, <2>4
  <2>5. QED
    BY <2>1, <2>3, <2>4
<1>4. CASE DeletesNewOrder(w)
  <2> DEFINE K == OfOrder(Sees(w), "new_orders", my[w].d, my[w].o)
  <2>1. /\ at[w] = "delete_new_order" /\ Others(w, {})
        /\ Does(w, K, Restrict(Sees(w), DOMAIN Sees(w) \ K), "update_order")
    BY <1>4, DeletesNewOrderDoes
  <2>2. K \subseteq DOMAIN Sees(w) /\ \A k \in K : k[1] = "new_orders"
    BY DEF OfOrder
  <2> HIDE DEF K
  <2>3. QED
    BY <2>1, <2>2, MildDelete DEF Q
<1>5. CASE UpdatesOrder(w)
  <2> DEFINE K == OfOrder(Sees(w), "orders", my[w].d, my[w].o)
             new == [k \in K |-> [Sees(w)[k] EXCEPT !.carrier = 1]]
  <2>1. /\ at[w] = "update_order" /\ Others(w, {})
        /\ Does(w, DOMAIN new, With(Sees(w), new), "update_lines")
    BY <1>5, UpdatesOrderDoes
  <2>2. DOMAIN new = K /\ \A k \in K : new[k] = [Sees(w)[k] EXCEPT !.carrier = 1]
    OBVIOUS
  <2>3. \A k \in K : k \in DOMAIN Sees(w) /\ k[1] = "orders"
    BY DEF OfOrder
  <2> HIDE DEF K, new
  <2>4. \A k \in K : SameOf(k, Sees(w)[k], new[k])
    <3>1. \A k \in K : Sees(w)[k] \in [c : Customers, cnt : Nat, carrier : -1..10]
      BY <1>1, <2>1, <2>3 DEF Good, Typed
    <3>2. QED
      BY <2>2, <2>3, <3>1 DEF SameOf, SameOrder
  <2>5. Mild(DOMAIN new, Sees(w), With(Sees(w), new))
    BY <2>2, <2>3, <2>4, MildUpdate
  <2>6. QED
    BY <2>1, <2>5 DEF Q
<1>6. CASE UpdatesLines(w)
  <2> DEFINE K == OfOrder(Sees(w), "order_line", my[w].d, my[w].o)
             new == [k \in K |-> [Sees(w)[k] EXCEPT !.dated = TRUE]]
  <2>1. /\ at[w] = "update_lines" /\ Others(w, {})
        /\ Does(w, DOMAIN new, With(Sees(w), new), "read_order")
    BY <1>6, UpdatesLinesDoes
  <2>2. DOMAIN new = K /\ \A k \in K : new[k] = [Sees(w)[k] EXCEPT !.dated = TRUE]
    OBVIOUS
  <2>3. \A k \in K : k \in DOMAIN Sees(w) /\ k[1] = "order_line"
    BY DEF OfOrder
  <2> HIDE DEF K, new
  <2>4. \A k \in K : SameOf(k, Sees(w)[k], new[k])
    <3>1. \A k \in K : Sees(w)[k] \in [item : Items, amount : Nat, dated : BOOLEAN]
      BY <1>1, <2>1, <2>3 DEF Good, Typed
    <3>2. QED
      BY <2>2, <2>3, <3>1 DEF SameOf, SameOrder
  <2>5. Mild(DOMAIN new, Sees(w), With(Sees(w), new))
    BY <2>2, <2>3, <2>4, MildUpdate
  <2>6. QED
    BY <2>1, <2>5 DEF Q
<1>7. CASE ReadsOrder(w)
  <2>1. at[w] = "read_order" /\ Does(w, {}, Sees(w), "sum_amounts") /\ Others(w, {"c"})
    BY <1>7, ReadsOrderDoes
  <2>2. QED
    BY <1>2, <2>1
<1>8. CASE SumsAmounts(w)
  <2>1. at[w] = "sum_amounts" /\ Does(w, {}, Sees(w), "credit_customer") /\ Others(w, {"seen"})
    BY <1>8, SumsAmountsDoes
  <2>2. QED
    BY <1>2, <2>1
<1>9. CASE CreditsCustomer(w)
  <2> DEFINE k == CustomerKey(my[w].d, my[w].c)
             row == [Sees(w)[k] EXCEPT !.balance = @ + my[w].seen, !.deliveries = @ + 1]
             new == [x \in {k} |-> row]
             place == IF my[w].d < NumDistricts THEN "find_oldest" ELSE "commit"
  <2>1. /\ at[w] = "credit_customer" /\ NextDistrict(w)
        /\ Does(w, {k}, With(Sees(w), new), place)
    BY <1>9, CreditsCustomerDoes
  <2>2. DOMAIN new = {k} /\ k[1] = "customer"
    BY KeyColumns
  <2>3. k \in DOMAIN Sees(w)
    <3>1. my[w].c \in Customers
      BY <2>1, DeliveryKnows DEF SeenFits
    <3>2. QED
      BY <1>1, <2>1, <3>1, FixedKeys DEF Good
  <2>4. Others(w, {"d", "o", "c", "seen"})
    BY <1>1, <2>1, NextDistrictDoes
  <2>5. row.ytd = Sees(w)[k].ytd /\ row.payments = Sees(w)[k].payments /\ new[k] = row
    <3>1. Sees(w)[k] \in [balance : Int, ytd : Nat, payments : Nat, deliveries : Nat]
      BY <1>1, <2>1, <2>2, <2>3 DEF Good, Typed
    <3>2. QED
      BY <3>1
  <2>6. place \in DeliveryPlaces \cup {"commit"}
    OBVIOUS
  <2> HIDE DEF row, k, new, place
  <2>7. Mild(DOMAIN new, Sees(w), With(Sees(w), new))
    BY <2>2, <2>3, <2>5, MildUpdate DEF SameOf, SameOrder
  <2>8. QED
    BY <2>1, <2>2, <2>4, <2>6, <2>7 DEF Q
<1>10. QED
  BY <1>3, <1>4, <1>5, <1>6, <1>7, <1>8, <1>9

LEMMA DeliveryWorks ==
  ASSUME BookIInv, RowIInv, OrderIInv, NEW w \in Workers,
         \/ FindsOldest(w) \/ DeletesNewOrder(w) \/ UpdatesOrder(w) \/ UpdatesLines(w)
         \/ ReadsOrder(w) \/ SumsAmounts(w) \/ CreditsCustomer(w)
  PROVE  OrderIInv'
<1>1. PICK K, rows, place, F : /\ Does(w, K, rows, place) /\ Mild(K, Sees(w), rows)
                               /\ Others(w, F) /\ "id" \notin F
  BY DeliveryIsMild
<1>2. at[w] \in DeliveryPlaces
  BY DeliveryIsMild
<1>3. QED
  BY <1>1, <1>2, MildWrite

---------------------------------------------------------------------------
(* COMMIT. *)

LEMMA MergedWhole ==
  ASSUME BookIInv, RowIInv, OrderIInv, NEW w \in Workers, open[w], at[w] = "commit"
  PROVE  /\ Whole(Merged(w))
         /\ \A k \in DOMAIN Merged(w) : k \in DOMAIN db \/ k \in InsertedBy(w)
         /\ Same(wrote[w], db, Merged(w))
<1> DEFINE M == Merged(w)
           I == InsertedBy(w)
<1>1. /\ WorkShape(w) /\ IdsShape /\ Whole(db)
      /\ \A d \in Districts : Neutral(w, d) \/ Adds(w, d)
      /\ \A d \in Districts : Dense(db, d)
      /\ HasDistricts(db)
  BY DenseMeans DEF OrderIInv, BookIInv, BookShape, Works
<1>2. DrawTyped(w)
  BY DEF RowIInv, RowShape
<1>3. /\ \A k : k \in DOMAIN M <=> IF k \in wrote[w] THEN k \in DOMAIN view[w] ELSE k \in DOMAIN db
      /\ \A k \in DOMAIN M : M[k] = IF k \in wrote[w] THEN view[w][k] ELSE db[k]
  BY MergedRows
<1>4. /\ I \subseteq wrote[w] \cap DOMAIN view[w]
      /\ \A k \in I : k \notin DOMAIN db /\ view[w][k] = Inserted(my[w], k)
      /\ \A k \in wrote[w] : k \in DOMAIN db \/ k \in I
      /\ \A k \in wrote[w] : k \in DOMAIN view[w] \/ k[1] = "new_orders"
  BY <1>1 DEF WorkShape
<1>5. \A k \in wrote[w] : k \in DOMAIN db /\ k \in DOMAIN view[w] => SameOrder(k, db[k], view[w][k])
  BY <1>1 DEF WorkShape
<1> HIDE DEF M, I
<1>6. Same(wrote[w], db, M)
  BY <1>3 DEF Same
<1>7. \A k \in DOMAIN M : k \in DOMAIN db \/ k \in I
  BY <1>3, <1>4
<1>8. \A k \in I : k \in DOMAIN M /\ M[k] = Inserted(my[w], k)
  BY <1>3, <1>4
<1>9. \A k \in DOMAIN M : k \in DOMAIN db => SameOrder(k, db[k], M[k])
  BY <1>3, <1>5 DEF SameOrder
<1>10. \A k \in DOMAIN db : k[1] \in {"orders", "order_line"} => k \in DOMAIN M
  BY <1>3, <1>4
<1>11. CASE my[w].lines = <<>>
  <2>1. \A k \in I : k[1] = "history"
    BY <1>11, InsertedKeys DEF I, InsertedBy
  <2>2. Steady(db, M)
    BY <1>7, <1>9, <1>10, <2>1 DEF Steady
  <2>3. Whole(M)
    BY <1>1, <2>2, SteadyIsWhole
  <2>4. QED
    BY <1>6, <1>7, <2>3 DEF M, I
<1>12. CASE my[w].lines # <<>>
  <2> DEFINE d == my[w].d  o == my[w].o  id == my[w].id
             new == OrderKey(d, o, id)
  <2>1. d \in Districts /\ my[w].n = Len(my[w].lines) + 1
    BY <1>2, <1>12 DEF DrawTyped, IsNewOrder
  <2>2. \A k \in I : /\ k[1] \in {"orders", "new_orders", "order_line"}
                     /\ k[2] = d /\ k[3] = o
                     /\ k[1] = "orders" => k = new
                     /\ k[1] = "order_line" =>
                          k[4] \in 1..(my[w].n - 1) /\ k = LineKey(d, o, k[4], id)
    BY <1>12, InsertedKeys DEF I, InsertedBy
  <2>3. new \in I /\ \A j \in 1..(my[w].n - 1) : LineKey(d, o, j, id) \in I
    BY <1>12, InsertsMember DEF I, InsertedBy
  <2>4. new[1] = "orders" /\ new[2] = d /\ new[3] = o
    BY KeyShape
  <2>5. \A j : LineKey(d, o, j, id)[1] = "order_line" /\ LineKey(d, o, j, id)[2] = d
               /\ LineKey(d, o, j, id)[3] = o /\ LineKey(d, o, j, id)[4] = j
    BY KeyColumns
  <2> HIDE DEF new
  <2>6. o = NextId(db, d)
    <3>1. ~Neutral(w, d)
      BY <1>4, <2>3, <2>4 DEF Neutral
    <3>2. Adds(w, d)
      BY <1>1, <2>1, <3>1
    <3>3. PICK n \in wrote[w] :
            /\ n[3] = NextId(db, d)
            /\ \A k \in wrote[w] : k[1] = "orders" /\ k[2] = d =>
                 k \in DOMAIN view[w] /\ (k = n \/ k \in DOMAIN db)
      BY <3>2 DEF Adds
    <3>4. QED
      BY <1>4, <2>3, <2>4, <3>3
  <2>7. \A k \in DOMAIN db : ~(k[1] = "orders" /\ k[2] = d /\ k[3] = o)
    <3>1. NextId(db, d) \in Nat \ {0} /\ Dense(db, d)
      BY <1>1, <2>1, HasDistrict
    <3>2. QED
      BY <2>6, <3>1 DEF Dense
  <2>8. \A k \in DOMAIN db : ~(k[1] \in {"order_line", "new_orders"} /\ k[2] = d /\ k[3] = o)
    BY <1>1, <2>7 DEF Whole
  <2>9. M[new].cnt = Len(my[w].lines) /\ my[w].n - 1 = Len(my[w].lines)
    <3>1. M[new] = Order(my[w].c, Len(my[w].lines), -1)
      BY <1>8, <2>3, <2>4 DEF Inserted
    <3>2. Len(my[w].lines) \in Nat
      <4>1. my[w].lines \in Lines
        BY <1>2, <1>12, BasketsAssumption DEF DrawTyped, IsNewOrder
      <4>2. QED
        BY <4>1, BasketShape
    <3>3. QED
      BY <2>1, <3>1, <3>2 DEF Order
  <2> HIDE DEF d, o, id
  <2>10. ASSUME NEW k \in DOMAIN M, k[1] = "orders", NEW n \in 1..M[k].cnt
         PROVE  \E l \in DOMAIN M :
                  l[1] = "order_line" /\ l[2] = k[2] /\ l[3] = k[3] /\ l[4] = n
    <3>1. CASE k \in DOMAIN db
      <4>1. n \in 1..db[k].cnt
        BY <1>9, <2>10, <3>1 DEF SameOrder
      <4>2. PICK l \in DOMAIN db : l[1] = "order_line" /\ l[2] = k[2] /\ l[3] = k[3] /\ l[4] = n
        BY <1>1, <2>10, <3>1, <4>1 DEF Whole
      <4>3. QED
        BY <1>10, <4>2
    <3>2. CASE k \in I
      <4>1. k = new
        BY <2>2, <2>10, <3>2
      <4>2. LineKey(d, o, n, id) \in I
        BY <2>3, <2>9, <2>10, <4>1
      <4>3. QED
        BY <1>8, <2>4, <2>5, <4>1, <4>2
    <3>3. QED
      BY <1>7, <3>1, <3>2
  <2>11. ASSUME NEW l \in DOMAIN M, NEW k \in DOMAIN M,
                k[1] = "orders", l[1] = "order_line", l[2] = k[2], l[3] = k[3]
         PROVE  l[4] \in 1..M[k].cnt
    <3>1. CASE k \in DOMAIN db
      <4>1. l \in DOMAIN db
        BY <1>7, <2>2, <2>7, <2>11, <3>1
      <4>2. l[4] \in 1..db[k].cnt
        BY <1>1, <2>11, <3>1, <4>1 DEF Whole
      <4>3. QED
        BY <1>9, <2>11, <3>1, <4>2 DEF SameOrder
    <3>2. CASE k \in I
      <4>1. k = new /\ k[2] = d /\ k[3] = o
        BY <2>2, <2>11, <3>2
      <4>2. l \in I
        BY <1>7, <2>8, <2>11, <4>1
      <4>3. QED
        BY <2>2, <2>9, <2>11, <4>1, <4>2
    <3>3. QED
      BY <1>7, <3>1, <3>2
  <2>12. ASSUME NEW l \in DOMAIN M, l[1] \in {"order_line", "new_orders"}
         PROVE  \E k \in DOMAIN M : k[1] = "orders" /\ k[2] = l[2] /\ k[3] = l[3]
    <3>1. CASE l \in DOMAIN db
      BY <1>1, <1>10, <2>12, <3>1 DEF Whole
    <3>2. CASE l \in I
      BY <1>8, <2>2, <2>3, <2>4, <3>2
    <3>3. QED
      BY <1>7, <3>1, <3>2
  <2>13. ASSUME NEW l \in DOMAIN M, NEW m \in DOMAIN M,
                l[1] = "order_line", m[1] = "order_line",
                l[2] = m[2], l[3] = m[3], l[4] = m[4]
         PROVE  l = m
    <3>1. CASE l \in DOMAIN db /\ m \in DOMAIN db
      BY <1>1, <2>13, <3>1 DEF Whole
    <3>2. CASE l \in I /\ m \in I
      BY <2>2, <2>13, <3>2
    <3>3. CASE (l \in I /\ m \in DOMAIN db) \/ (l \in DOMAIN db /\ m \in I)
      BY <2>2, <2>8, <2>13, <3>3
    <3>4. QED
      BY <1>7, <3>1, <3>2, <3>3
  <2>14. Whole(M)
    BY <2>10, <2>11, <2>12, <2>13 DEF Whole
  <2>15. QED
    BY <1>6, <1>7, <2>14 DEF M, I
<1>13. QED
  BY <1>11, <1>12

\* What a step of w that is no statement leaves.
LEMMA OrderElse ==
  ASSUME BookIInv, OrderIInv, NEW w \in Workers, Steps(w), attempts' = attempts,
         ~open'[w] \/ ~Works(w)', Works(w)' => Works(w),
         at'[w] # "idle" => at[w] # "idle" /\ my'[w].id = my[w].id,
         \A v \in Workers \ {w} :
           open'[v] = open[v] /\ view'[v] = view[v] /\ wrote'[v] = wrote[v],
         db' = db
  PROVE  OrderIInv'
<1>1. /\ IdsShape /\ Whole(db) /\ \A v \in Workers \ {w} : at'[v] = at[v] /\ my'[v] = my[v]
  BY DEF OrderIInv, Steps
<1>2. ASSUME NEW v \in Workers, open'[v], Works(v)'
      PROVE  WorkShape(v)'
  <2>1. v # w
    BY <1>2
  <2>2. WorkShape(v)
    BY <1>1, <1>2, <2>1 DEF OrderIInv, Works
  <2>3. Same({}, db, db')
    BY DEF Same
  <2>4. QED
    BY <1>1, <2>1, <2>2, <2>3, WorkBystander
<1>3. \A v \in Workers : at'[v] # "idle" => at[v] # "idle" /\ my'[v].id = my[v].id
  BY <1>1
<1>4. \A v \in Workers : Works(v)' => Works(v)
  BY <1>1 DEF Works
<1>5. IdsShape'
  <2>1. \A k \in DOMAIN db' : k[5] \in 0..attempts'
    BY <1>1 DEF IdsShape
  <2>2. \A v, u \in Workers : v # u /\ at'[v] # "idle" /\ at'[u] # "idle" => my'[v].id # my'[u].id
    BY <1>1, <1>3 DEF IdsShape
  <2>3. \A v \in Workers : Works(v)' => \A k \in DOMAIN db' : k[5] # my'[v].id
    BY <1>1, <1>3, <1>4 DEF IdsShape, Works
  <2>4. QED
    BY <2>1, <2>2, <2>3 DEF IdsShape
<1>6. Whole(db)'
  BY <1>1 DEF Whole
<1>7. QED
  BY <1>2, <1>5, <1>6 DEF OrderIInv

LEMMA OrderCommits ==
  ASSUME BookIInv, RowIInv, OrderIInv, NEW w \in Workers, CommitsWork(w), at[w] = "commit",
         Steps(w), attempts' = attempts, ~Works(w)', at'[w] # "idle" => my'[w].id = my[w].id
  PROVE  OrderIInv'
<1>1. /\ ~open'[w] /\ open[w] /\ db' = Merged(w)
      /\ \A v \in Workers \ {w} :
           open'[v] = open[v] /\ view'[v] = view[v] /\ wrote'[v] = wrote[v]
  BY LeavesDoes
<1>2. /\ Whole(Merged(w)) /\ Same(wrote[w], db, Merged(w)) /\ IdsShape
      /\ \A k \in DOMAIN Merged(w) : k \in DOMAIN db \/ k \in InsertedBy(w)
  BY <1>1, MergedWhole DEF OrderIInv
<1>3. \A v \in Workers \ {w} : at'[v] = at[v] /\ my'[v] = my[v]
  BY DEF Steps
<1>4. \A k \in InsertedBy(w) : k[5] = my[w].id /\ my[w].id \in 0..attempts
  BY InsertedKeys DEF InsertedBy, RowIInv, RowShape, DrawTyped
<1>5. ASSUME NEW v \in Workers, open'[v], Works(v)'
      PROVE  WorkShape(v)'
  <2>1. v # w
    BY <1>5
  <2>2. WorkShape(v)
    BY <1>1, <1>3, <1>5, <2>1 DEF OrderIInv, Works
  <2>3. wrote[w] \cap wrote[v] = {}
    BY <1>1, <1>5, <2>1 DEF BookIInv, BookShape, IsSnapshot
  <2>4. QED
    BY <1>1, <1>2, <1>3, <2>1, <2>2, <2>3, WorkBystander
<1>6. \A v \in Workers : at'[v] # "idle" => at[v] # "idle" /\ my'[v].id = my[v].id
  BY <1>3
<1>7. IdsShape'
  <2>1. \A k \in DOMAIN db' : k[5] \in 0..attempts'
    BY <1>1, <1>2, <1>4 DEF IdsShape
  <2>2. \A v, u \in Workers : v # u /\ at'[v] # "idle" /\ at'[u] # "idle" => my'[v].id # my'[u].id
    BY <1>2, <1>6 DEF IdsShape
  <2>3. ASSUME NEW v \in Workers, Works(v)', NEW k \in DOMAIN db'
        PROVE  k[5] # my'[v].id
    <3>1. v # w /\ Works(v) /\ my'[v] = my[v]
      BY <1>3, <2>3 DEF Works
    <3>2. my[w].id # my[v].id
      BY <1>2, <3>1 DEF IdsShape, Works
    <3>3. QED
      BY <1>1, <1>2, <1>4, <3>1, <3>2 DEF IdsShape
  <2>4. QED
    BY <2>1, <2>2, <2>3 DEF IdsShape
<1>8. Whole(db)'
  BY <1>1, <1>2 DEF Whole
<1>9. QED
  BY <1>5, <1>7, <1>8 DEF OrderIInv

LEMMA EndWorks ==
  ASSUME BookIInv, RowIInv, OrderIInv, NEW w \in Workers,
         SkipsDistrict(w) \/ Commits(w) \/ Refused(w) \/ RollsBack(w)
  PROVE  OrderIInv'
<1>1. ASSUME NEW v \in Workers, Reads
      PROVE  /\ open' = open /\ view' = view /\ wrote' = wrote /\ db' = db
  BY <1>1 DEF Reads, serverVars
<1>2. CASE SkipsDistrict(w)
  <2>1. at[w] = "find_oldest" /\ NextDistrict(w) /\ attempts' = attempts
    BY <1>2 DEF SkipsDistrict
  <2>2. IsDelivery(w) /\ my[w].d \in Districts
    BY <2>1, DeliveryKnows DEF DeliveryPlaces
  <2>3. /\ Steps(w) /\ Others(w, {"d", "o", "c", "seen"})
        /\ at'[w] = IF my[w].d < NumDistricts THEN "find_oldest" ELSE "commit"
    BY <2>1, <2>2, MyShape, NextDistrictDoes
  <2>4. CASE Reads /\ torn' = torn
    <3>1. \E place : Does(w, {}, Sees(w), place)
      BY <2>1, <2>3, <2>4, ReadsAsWrites DEF Does
    <3>2. QED
      BY <2>1, <2>3, <3>1, MildRead, MildWrite DEF DeliveryPlaces
  <2>5. CASE Ends(w)
    <3>1. /\ ~open'[w] /\ db' = db
          /\ \A v \in Workers \ {w} :
               open'[v] = open[v] /\ view'[v] = view[v] /\ wrote'[v] = wrote[v]
      BY <2>5, LeavesDoes
    <3>2. Works(w) /\ my'[w].id = my[w].id
      BY <2>1, <2>3 DEF Works, Others
    <3>3. QED
      BY <2>1, <2>3, <3>1, <3>2, OrderElse DEF Works
  <2>6. QED
    BY <1>2, <2>4, <2>5 DEF SkipsDistrict
<1>3. CASE Commits(w)
  <2>1. /\ at[w] = "commit" /\ Idles(w) /\ attempts' = attempts
        /\ Reads \/ CommitsWork(w)
    BY <1>3 DEF Commits, At
  <2>2. Steps(w) /\ at'[w] = "idle" /\ ~Works(w)'
    BY <2>1, MyShape, Idle DEF Works
  <2>3. CASE Reads
    BY <1>1, <2>1, <2>2, <2>3, OrderElse
  <2>4. CASE CommitsWork(w)
    BY <2>1, <2>2, <2>4, OrderCommits
  <2>5. QED
    BY <2>1, <2>3, <2>4
<1>4. CASE Refused(w)
  <2>1. /\ at[w] # "idle" /\ KeepsAll /\ GoesTo(w, "rollback") /\ attempts' = attempts
        /\ Reads \/ Ends(w) \/ (at[w] = "commit" /\ CommitsWork(w))
    BY <1>4 DEF Refused
  <2>2. Steps(w) /\ at'[w] = "rollback" /\ my'[w] = my[w] /\ ~Works(w)'
    BY <2>1, MyShape, Keeps DEF Works
  <2>3. CASE Reads
    BY <1>1, <2>1, <2>2, <2>3, OrderElse
  <2>4. CASE Ends(w)
    BY <2>1, <2>2, <2>4, LeavesDoes, OrderElse
  <2>5. CASE at[w] = "commit" /\ CommitsWork(w)
    BY <2>1, <2>2, <2>5, OrderCommits
  <2>6. QED
    BY <2>1, <2>3, <2>4, <2>5
<1>5. CASE RollsBack(w)
  <2>1. /\ at[w] = "rollback" /\ Ends(w) /\ Idles(w) /\ attempts' = attempts
    BY <1>5 DEF RollsBack, At
  <2>2. Steps(w) /\ at'[w] = "idle" /\ ~Works(w)'
    BY <2>1, MyShape, Idle DEF Works
  <2>3. QED
    BY <2>1, <2>2, LeavesDoes, OrderElse
<1>6. QED
  BY <1>2, <1>3, <1>4, <1>5

LEMMA BeginsWorks ==
  ASSUME BookIInv, RowIInv, OrderIInv, NEW w \in Workers,
         BeginsNewOrder(w) \/ BeginsPayment(w) \/ BeginsDelivery(w)
  PROVE  OrderIInv'
<1>1. ASSUME NEW draw, NEW place, Starts(w, draw, place), draw.id = attempts + 1, draw.n = 1,
             place \in {"read_district", "update_warehouse", "find_oldest"},
             place = "read_district" \/ draw.lines = <<>>
      PROVE  OrderIInv'
  <2>1. /\ at[w] = "idle" /\ attempts' = attempts + 1
        /\ Steps(w) /\ at'[w] = place /\ my'[w] = draw
        /\ open'[w] /\ view'[w] = db /\ wrote'[w] = {} /\ db' = db
        /\ \A v \in Workers \ {w} :
             open'[v] = open[v] /\ view'[v] = view[v] /\ wrote'[v] = wrote[v]
    BY <1>1, BeginsDoes
  <2>2. /\ attempts \in Nat /\ IdsShape /\ Whole(db)
        /\ \A v \in Workers : at[v] # "idle" => my[v].id \in 1..attempts
    BY MaxAttemptsAssumption DEF OrderIInv, RowIInv, RowShape, DrawTyped
  <2>3. \A v \in Workers \ {w} : at'[v] = at[v] /\ my'[v] = my[v]
    BY <2>1 DEF Steps
  <2>4. \A k \in DOMAIN db : k[5] \in 0..attempts
    BY <2>2 DEF IdsShape
  <2>5. WorkShape(w)'
    <3>1. draw.id # 0 /\ \A k \in DOMAIN db : k[5] # draw.id
      BY <1>1, <2>2, <2>4
    <3>2. \A k : k \notin Inserts(draw, place)
      BY <1>1, InsertsMember
    <3>3. InsertedBy(w)' = {}
      BY <2>1, <3>2 DEF InsertedBy
    <3> HIDE DEF InsertedBy
    <3>4. QED
      BY <2>1, <3>1, <3>3 DEF WorkShape
  <2>6. ASSUME NEW v \in Workers \ {w}, open'[v], Works(v)'
        PROVE  WorkShape(v)'
    <3>1. WorkShape(v)
      BY <2>1, <2>3, <2>6 DEF OrderIInv, Works
    <3>2. Same({}, db, db')
      BY <2>1 DEF Same
    <3>3. QED
      BY <2>1, <2>3, <3>1, <3>2, WorkBystander
  <2>7. IdsShape'
    <3>1. \A k \in DOMAIN db' : k[5] \in 0..attempts'
      BY <2>1, <2>2, <2>4
    <3>2. ASSUME NEW v \in Workers, NEW u \in Workers, v # u, at'[v] # "idle", at'[u] # "idle"
          PROVE  my'[v].id # my'[u].id
      <4>1. \A x \in Workers \ {w} : at'[x] # "idle" => my'[x].id \in 1..attempts
        BY <2>2, <2>3
      <4>2. my'[w].id = attempts + 1
        BY <1>1, <2>1
      <4>3. CASE v = w \/ u = w
        BY <2>2, <3>2, <4>1, <4>2, <4>3
      <4>4. CASE v # w /\ u # w
        BY <2>2, <2>3, <3>2, <4>4 DEF IdsShape
      <4>5. QED
        BY <4>3, <4>4
    <3>3. ASSUME NEW v \in Workers, Works(v)', NEW k \in DOMAIN db'
          PROVE  k[5] # my'[v].id
      <4>1. CASE v = w
        BY <1>1, <2>1, <2>2, <2>4, <4>1
      <4>2. CASE v # w
        BY <2>1, <2>2, <2>3, <3>3, <4>2 DEF IdsShape, Works
      <4>3. QED
        BY <4>1, <4>2
    <3>4. QED
      BY <3>1, <3>2, <3>3 DEF IdsShape
  <2>8. Whole(db)'
    BY <2>1, <2>2 DEF Whole
  <2>9. QED
    BY <2>5, <2>6, <2>7, <2>8 DEF OrderIInv
<1>2. CASE BeginsNewOrder(w)
  <2>1. PICK d \in Districts, order \in Orders :
          Starts(w, Draw(d, d, order.c, order.lines, 0), "read_district")
    BY <1>2 DEF BeginsNewOrder
  <2>2. QED
    BY <1>1, <2>1 DEF Draw, Blank
<1>3. CASE BeginsPayment(w)
  <2>1. PICK d \in Districts, cd \in Districts, c \in Customers, amount \in Amounts :
          Starts(w, Draw(d, cd, c, <<>>, amount), "update_warehouse")
    BY <1>3 DEF BeginsPayment
  <2>2. QED
    BY <1>1, <2>1 DEF Draw, Blank
<1>4. CASE BeginsDelivery(w)
  <2>1. Starts(w, Draw(1, 0, 0, <<>>, 0), "find_oldest")
    BY <1>4 DEF BeginsDelivery
  <2>2. QED
    BY <1>1, <2>1 DEF Draw, Blank
<1>5. QED
  BY <1>2, <1>3, <1>4

LEMMA OrderStep == BookIInv /\ RowIInv /\ OrderIInv /\ [Next]_vars => OrderIInv'
<1> SUFFICES ASSUME BookIInv, RowIInv, OrderIInv, [Next]_vars
             PROVE  OrderIInv'
  OBVIOUS
<1>1. ASSUME NEW w \in Workers, Step(w)
      PROVE  OrderIInv'
  <2>1. CASE BeginsNewOrder(w) \/ BeginsPayment(w) \/ BeginsDelivery(w)
    BY <2>1, BeginsWorks
  <2>2. CASE \/ ReadsDistrict(w) \/ TakesId(w) \/ InsertsOrder(w) \/ InsertsNewOrder(w)
             \/ ReadsStock(w) \/ UpdatesStock(w) \/ InsertsLine(w)
    BY <2>2, NewOrderWorks
  <2>3. CASE \/ UpdatesWarehouse(w) \/ UpdatesDistrict(w) \/ ReadsCustomer(w)
             \/ UpdatesCustomer(w) \/ InsertsHistory(w)
    BY <2>3, PaymentWorks
  <2>4. CASE \/ FindsOldest(w) \/ DeletesNewOrder(w) \/ UpdatesOrder(w) \/ UpdatesLines(w)
             \/ ReadsOrder(w) \/ SumsAmounts(w) \/ CreditsCustomer(w)
    BY <2>4, DeliveryWorks
  <2>5. CASE SkipsDistrict(w) \/ Commits(w) \/ Refused(w) \/ RollsBack(w)
    BY <2>5, EndWorks
  <2>6. QED
    BY <1>1, <2>1, <2>2, <2>3, <2>4, <2>5 DEF Step
<1>2. CASE UNCHANGED vars
  <2>1. /\ db' = db /\ open' = open /\ view' = view /\ wrote' = wrote
        /\ at' = at /\ my' = my /\ attempts' = attempts
    BY <1>2 DEF vars, serverVars
  <2>2. QED
    BY <2>1 DEF OrderIInv, IdsShape, Whole, WorkShape, Works, InsertedBy, SameOrder
<1>3. CASE Stops
  BY <1>2, <1>3 DEF Stops
<1>4. QED
  BY <1>1, <1>2, <1>3 DEF Next

\* The keys of a table are those of its loaded rows.
LEMMA InitColumns ==
  ASSUME NEW k \in InitKeys
  PROVE  /\ k[5] = 0 /\ k[1] # "history"
         /\ k[1] = "orders" => \E d \in Districts, o \in 1..Len(Loaded) : k = OrderKey(d, o, 0)
         /\ k[1] = "new_orders" => \E d \in Districts : \E o \in Oldest(d)..Len(Loaded) :
                                     k = NewOrderKey(d, o, 0)
         /\ k[1] = "order_line" => \E d \in Districts, o \in 1..Len(Loaded) :
                                     \E n \in DOMAIN Loaded[o].lines : k = LineKey(d, o, n, 0)
<1>1. CASE k = WarehouseKey
  <2>1. k[5] = 0 /\ k[1] = "warehouse"
    BY <1>1, KeyColumns
  <2>2. QED
    BY <1>1, <2>1
<1>2. CASE \E d \in Districts : k = DistrictKey(d)
  <2>1. k[5] = 0 /\ k[1] = "district"
    BY <1>2, KeyColumns
  <2>2. QED
    BY <1>2, <2>1
<1>3. CASE \E d \in Districts, c \in Customers : k = CustomerKey(d, c)
  <2>1. k[5] = 0 /\ k[1] = "customer"
    BY <1>3, KeyColumns
  <2>2. QED
    BY <1>3, <2>1
<1>4. CASE \E i \in Items : k = StockKey(i)
  <2>1. k[5] = 0 /\ k[1] = "stock"
    BY <1>4, KeyColumns
  <2>2. QED
    BY <1>4, <2>1
<1>5. CASE \E d \in Districts, o \in 1..Len(Loaded) : k = OrderKey(d, o, 0)
  <2>1. k[5] = 0 /\ k[1] = "orders"
    BY <1>5, KeyColumns
  <2>2. QED
    BY <1>5, <2>1
<1>6. CASE \E d \in Districts : \E o \in Oldest(d)..Len(Loaded) : k = NewOrderKey(d, o, 0)
  <2>1. k[5] = 0 /\ k[1] = "new_orders"
    BY <1>6, KeyColumns
  <2>2. QED
    BY <1>6, <2>1
<1>7. CASE \E d \in Districts, o \in 1..Len(Loaded) : \E n \in DOMAIN Loaded[o].lines :
              k = LineKey(d, o, n, 0)
  <2>1. k[5] = 0 /\ k[1] = "order_line"
    BY <1>7, KeyColumns
  <2>2. QED
    BY <1>7, <2>1
<1>8. QED
  BY <1>1, <1>2, <1>3, <1>4, <1>5, <1>6, <1>7, InitKey

LEMMA OrderInit == Init => OrderIInv
<1> SUFFICES ASSUME Init
             PROVE  OrderIInv
  OBVIOUS
<1>1. db = InitRows /\ attempts = 0 /\ \A w \in Workers : ~open[w] /\ at[w] = "idle"
  BY DEF Init
<1>2. DOMAIN InitRows = InitKeys /\ \A k \in InitKeys : InitRows[k] = InitRow(k)
  BY DEF InitRows
<1>3. \A k \in InitKeys : k[5] = 0
  BY InitColumns
<1>4. IdsShape
  BY <1>1, <1>2, <1>3 DEF IdsShape, Works
<1>5. ASSUME NEW k \in InitKeys
      PROVE  /\ k[1] = "orders" => \E d \in Districts, o \in 1..Len(Loaded) :
                                     k = OrderKey(d, o, 0)
             /\ k[1] = "new_orders" => \E d \in Districts : \E o \in Oldest(d)..Len(Loaded) :
                                         k = NewOrderKey(d, o, 0)
             /\ k[1] = "order_line" => \E d \in Districts, o \in 1..Len(Loaded) :
                                         \E n \in DOMAIN Loaded[o].lines : k = LineKey(d, o, n, 0)
  BY InitColumns
<1>6. ASSUME NEW d \in Districts, NEW o \in 1..Len(Loaded)
      PROVE  /\ OrderKey(d, o, 0) \in InitKeys
             /\ InitRow(OrderKey(d, o, 0)).cnt = Len(Loaded[o].lines)
             /\ \A n \in 1..Len(Loaded[o].lines) : LineKey(d, o, n, 0) \in InitKeys
  <2>1. OrderKey(d, o, 0)[1] = "orders" /\ OrderKey(d, o, 0)[3] = o
    BY KeyShape
  <2>2. InitRow(OrderKey(d, o, 0)) =
          Order(Loaded[o].c, Len(Loaded[o].lines),
                IF o < Oldest(OrderKey(d, o, 0)[2]) THEN 1 ELSE 0)
    BY <2>1 DEF InitRow
  <2>3. DOMAIN Loaded[o].lines = 1..Len(Loaded[o].lines)
    BY LoadedShape
  <2>4. QED
    BY <2>2, <2>3 DEF InitKeys, Order
<1>7. ASSUME NEW l \in InitKeys, l[1] \in {"order_line", "new_orders"}
      PROVE  \E d \in Districts, o \in 1..Len(Loaded) : l[2] = d /\ l[3] = o
  <2>1. CASE l[1] = "order_line"
    BY <1>5, <2>1, KeyColumns
  <2>2. CASE l[1] = "new_orders"
    <3>1. PICK d \in Districts : \E o \in Oldest(d)..Len(Loaded) : l = NewOrderKey(d, o, 0)
      BY <1>5, <2>2
    <3>2. PICK o \in Oldest(d)..Len(Loaded) : l = NewOrderKey(d, o, 0)
      BY <3>1
    <3>3. o \in 1..Len(Loaded)
      BY LoadedShape
    <3>4. QED
      BY <3>2, <3>3, KeyColumns
  <2>3. QED
    BY <1>7, <2>1, <2>2
<1>8. ASSUME NEW l \in InitKeys, l[1] = "order_line"
      PROVE  /\ l[3] \in 1..Len(Loaded) /\ l[4] \in 1..Len(Loaded[l[3]].lines)
             /\ l = LineKey(l[2], l[3], l[4], 0)
  <2>1. PICK d \in Districts, o \in 1..Len(Loaded) :
               \E n \in DOMAIN Loaded[o].lines : l = LineKey(d, o, n, 0)
    BY <1>5, <1>8
  <2>2. PICK n \in DOMAIN Loaded[o].lines : l = LineKey(d, o, n, 0)
    BY <2>1
  <2>3. l[2] = d /\ l[3] = o /\ l[4] = n
    BY <2>2, KeyColumns
  <2>4. n \in 1..Len(Loaded[o].lines)
    BY LoadedShape
  <2>5. QED
    BY <2>2, <2>3, <2>4
<1>9. Whole(InitRows)
  <2>1. ASSUME NEW k \in InitKeys, k[1] = "orders"
        PROVE  \E d \in Districts, o \in 1..Len(Loaded) :
                 /\ k = OrderKey(d, o, 0) /\ k[2] = d /\ k[3] = o
                 /\ InitRows[k].cnt = Len(Loaded[o].lines)
    BY <1>2, <1>5, <1>6, <2>1, KeyShape
  <2>2. ASSUME NEW k \in InitKeys, k[1] = "orders", NEW n \in 1..InitRows[k].cnt
        PROVE  \E l \in InitKeys : l[1] = "order_line" /\ l[2] = k[2] /\ l[3] = k[3] /\ l[4] = n
    BY <1>6, <2>1, <2>2, KeyColumns
  <2>3. ASSUME NEW l \in InitKeys, NEW k \in InitKeys,
               k[1] = "orders", l[1] = "order_line", l[2] = k[2], l[3] = k[3]
        PROVE  l[4] \in 1..InitRows[k].cnt
    BY <1>8, <2>1, <2>3
  <2>4. ASSUME NEW l \in InitKeys, l[1] \in {"order_line", "new_orders"}
        PROVE  \E k \in InitKeys : k[1] = "orders" /\ k[2] = l[2] /\ k[3] = l[3]
    BY <1>6, <1>7, <2>4, KeyShape
  <2>5. ASSUME NEW l \in InitKeys, NEW m \in InitKeys,
               l[1] = "order_line", m[1] = "order_line",
               l[2] = m[2], l[3] = m[3], l[4] = m[4]
        PROVE  l = m
    BY <1>8, <2>5
  <2>6. QED
    BY <1>2, <2>2, <2>3, <2>4, <2>5 DEF Whole
<1>10. QED
  BY <1>1, <1>4, <1>9 DEF OrderIInv

LEMMA WholeMeans == BookIInv /\ OrderIInv => OrdersAreWhole
<1> SUFFICES ASSUME BookIInv, OrderIInv, NEW d \in Districts
             PROVE  /\ \A k \in OfDistrict(db, "orders", d) :
                         {l[4] : l \in OfOrder(db, "order_line", d, k[3])} = 1..db[k].cnt
                    /\ Ids("order_line", d) \cup Ids("new_orders", d) \subseteq Ids("orders", d)
                    /\ \A k, l \in OfDistrict(db, "order_line", d) :
                         k[3] = l[3] /\ k[4] = l[4] => k = l
  BY DEF OrdersAreWhole
<1>1. Whole(db)
  BY DEF OrderIInv
<1>2. ASSUME NEW k \in OfDistrict(db, "orders", d)
      PROVE  {l[4] : l \in OfOrder(db, "order_line", d, k[3])} = 1..db[k].cnt
  <2>1. k \in DOMAIN db /\ k[1] = "orders" /\ k[2] = d
    BY DEF OfDistrict
  <2>2. \A l \in OfOrder(db, "order_line", d, k[3]) : l[4] \in 1..db[k].cnt
    BY <1>1, <2>1 DEF Whole, OfOrder
  <2>3. \A n \in 1..db[k].cnt : \E l \in OfOrder(db, "order_line", d, k[3]) : l[4] = n
    BY <1>1, <2>1 DEF Whole, OfOrder
  <2>4. QED
    BY <2>2, <2>3
<1>3. Ids("order_line", d) \cup Ids("new_orders", d) \subseteq Ids("orders", d)
  BY <1>1 DEF Ids, OfDistrict, Whole
<1>4. \A k, l \in OfDistrict(db, "order_line", d) : k[3] = l[3] /\ k[4] = l[4] => k = l
  BY <1>1 DEF OfDistrict, Whole
<1>5. QED
  BY <1>2, <1>3, <1>4

LEMMA OrderInvariant == Spec => [](BookIInv /\ RowIInv /\ OrderIInv)
<1>1. Init => BookIInv /\ RowIInv /\ OrderIInv
  BY BookInit, RowInit, OrderInit
<1>2. BookIInv /\ RowIInv /\ OrderIInv /\ [Next]_vars => (BookIInv /\ RowIInv /\ OrderIInv)'
  BY BookStep, RowStep, OrderStep
<1>3. QED
  BY <1>1, <1>2, PTL DEF Spec

\* However NewOrders interleave, fail and are repeated, an order is committed
\* with all of its lines and no others.
THEOREM OrdersStayWhole == Spec => []OrdersAreWhole
BY OrderInvariant, WholeMeans, PTL

=============================================================================
