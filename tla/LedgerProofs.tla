---------------------------- MODULE LedgerProofs ----------------------------
(***************************************************************************)
(* For any number of workers, districts, customers, items and attempts: the *)
(* sums of stock, income and payments are those of the rows they are the    *)
(* sums of, Deliveries take the oldest orders and credit them once, and the *)
(* tables implement OrderBook.                                              *)
(***************************************************************************)
EXTENDS TablesProofs

---------------------------------------------------------------------------
(* Sums.  An account is a sum that is kept in one row, its holder, and that *)
(* other rows, its entries, add up to: what was taken of an item and how    *)
(* often, what the warehouse and a district took in, what a customer paid   *)
(* and how often.                                                           *)

Accounts ==
  {<<kind, i, 0>> : kind \in {"taken", "ordered"}, i \in Items}
  \cup {<<"warehouse", 0, 0>>} \cup {<<"district", d, 0>> : d \in Districts}
  \cup {<<kind, d, c>> : kind \in {"paid", "payments"}, d \in Districts, c \in Customers}

Holder(a) ==
  IF a[1] \in {"taken", "ordered"} THEN StockKey(a[2])
  ELSE IF a[1] = "warehouse" THEN WarehouseKey
  ELSE IF a[1] = "district" THEN DistrictKey(a[2])
  ELSE CustomerKey(a[2], a[3])

Total(a, row) ==
  IF a[1] = "ordered" THEN row.orders ELSE IF a[1] = "payments" THEN row.payments ELSE row.ytd

Entry(a, k, row) ==
  IF a[1] \in {"taken", "ordered"}
  THEN k[1] = "order_line" /\ k[5] # 0 /\ row.item = a[2]
  ELSE /\ k[1] = "history"
       /\ a[1] = "district" => row.d = a[2]
       /\ a[1] \in {"paid", "payments"} => k[2] = a[2] /\ k[3] = a[3]

Counted(a, row) == IF a[1] \in {"ordered", "payments"} THEN 1 ELSE row.amount

\* What a row under the key k adds to the difference of the total and its entries.
Value(a, k, row) ==
  IF k = Holder(a) THEN Total(a, row)
  ELSE IF Entry(a, k, row) THEN -Counted(a, row)
  ELSE 0

Worth(a, k, rows) == IF k \in DOMAIN rows THEN Value(a, k, rows[k]) ELSE 0

Balance(a, rows) == SumOver([k \in DOMAIN rows |-> Worth(a, k, rows)], DOMAIN rows)

\* How far the rows of K are ahead of the old ones.
Ahead(a, K, new, old) ==
  SumOver([k \in K |-> Worth(a, k, new) - Worth(a, k, old)], K)

\* What an attempt that knows m has added to the total of an account but not to
\* its entries when it is at `place`.
Offset(a, m, place) ==
  IF a[1] \in {"taken", "ordered"}
  THEN IF place = "insert_line" /\ m.lines[m.n][1] = a[2]
       THEN IF a[1] = "taken" THEN m.lines[m.n][2] ELSE 1
       ELSE 0
  ELSE IF a[1] = "warehouse"
  THEN IF place \in PaymentPlaces \ {"update_warehouse"} THEN m.amount ELSE 0
  ELSE IF a[1] = "district"
  THEN IF place \in PaymentPlaces \ {"update_warehouse", "update_district"} /\ m.d = a[2]
       THEN m.amount ELSE 0
  ELSE IF place = "insert_history" /\ m.cd = a[2] /\ m.c = a[3]
       THEN IF a[1] = "paid" THEN m.amount ELSE 1
       ELSE 0

LedgerIInv ==
  \A a \in Accounts :
    /\ Balance(a, db) = 0
    /\ \A w \in Workers : open[w] /\ Works(w) =>
         Ahead(a, wrote[w], view[w], db) = Offset(a, my[w], at[w])

LEMMA AccountShape ==
  ASSUME NEW a \in Accounts
  PROVE  /\ \/ a[1] \in {"taken", "ordered"} /\ a[2] \in Items
            \/ a[1] = "warehouse"
            \/ a[1] = "district" /\ a[2] \in Districts
            \/ a[1] \in {"paid", "payments"} /\ a[2] \in Districts /\ a[3] \in Customers
         /\ a[1] \in {"taken", "ordered"} => Holder(a) = StockKey(a[2])
         /\ a[1] = "warehouse" => Holder(a) = WarehouseKey
         /\ a[1] = "district" => Holder(a) = DistrictKey(a[2])
         /\ a[1] \in {"paid", "payments"} => Holder(a) = CustomerKey(a[2], a[3])
         /\ Holder(a) \in Fixed
<1>1. \/ a[1] \in {"taken", "ordered"} /\ a[2] \in Items
      \/ a[1] = "warehouse"
      \/ a[1] = "district" /\ a[2] \in Districts
      \/ a[1] \in {"paid", "payments"} /\ a[2] \in Districts /\ a[3] \in Customers
  BY DEF Accounts
<1>2. /\ a[1] \in {"taken", "ordered"} => Holder(a) = StockKey(a[2])
      /\ a[1] = "warehouse" => Holder(a) = WarehouseKey
      /\ a[1] = "district" => Holder(a) = DistrictKey(a[2])
      /\ a[1] \in {"paid", "payments"} => Holder(a) = CustomerKey(a[2], a[3])
  BY DEF Holder
<1>3. QED
  BY <1>1, <1>2, FixedKeys

LEMMA WorthType ==
  ASSUME NEW a \in Accounts, NEW rows, Good(rows), NEW k
  PROVE  Worth(a, k, rows) \in Int
<1>1. CASE k \notin DOMAIN rows
  BY <1>1 DEF Worth
<1>2. CASE k \in DOMAIN rows
  <2> DEFINE row == rows[k]
  <2>1. Typed(k, row)
    BY <1>2 DEF Good
  <2>2. Worth(a, k, rows) = Value(a, k, row)
    BY <1>2 DEF Worth
  <2> HIDE DEF row
  <2>3. k = Holder(a) => Total(a, row) \in Int
    <3>1. CASE a[1] \in {"taken", "ordered"}
      BY <2>1, <3>1, AccountShape, KeyColumns DEF Typed, Total
    <3>2. CASE a[1] = "warehouse"
      BY <2>1, <3>2, AccountShape, KeyColumns DEF Typed, Total
    <3>3. CASE a[1] = "district"
      BY <2>1, <3>3, AccountShape, KeyColumns DEF Typed, Total
    <3>4. CASE a[1] \in {"paid", "payments"}
      BY <2>1, <3>4, AccountShape, KeyColumns DEF Typed, Total
    <3>5. QED
      BY <3>1, <3>2, <3>3, <3>4, AccountShape
  <2>4. Entry(a, k, row) => Counted(a, row) \in Nat
    BY <2>1 DEF Typed, Entry, Counted
  <2>5. QED
    BY <2>2, <2>3, <2>4 DEF Value
<1>3. QED
  BY <1>1, <1>2

LEMMA OffsetType ==
  ASSUME NEW a \in Accounts, NEW m, NEW place,
         place = "insert_line" => m.lines[m.n][2] \in Int,
         place \in PaymentPlaces => m.amount \in Int
  PROVE  Offset(a, m, place) \in Int
BY DEF Offset, PaymentPlaces

\* The table of an account's holder, and where it has entries.
LEMMA AccountRows ==
  ASSUME NEW a \in Accounts, NEW k, NEW row
  PROVE  /\ k = Holder(a) => k[1] \in {"stock", "warehouse", "district", "customer"}
         /\ k = Holder(a) => (k[1] = "customer" <=> a[1] \in {"paid", "payments"})
         /\ k = Holder(a) => (k[1] = "district" <=> a[1] = "district")
         /\ k = Holder(a) => (k[1] = "warehouse" <=> a[1] = "warehouse")
         /\ k = Holder(a) => (k[1] = "stock" <=> a[1] \in {"taken", "ordered"})
         /\ Entry(a, k, row) => k[1] \in {"order_line", "history"}
         /\ k[1] \in {"orders", "new_orders"} => Value(a, k, row) = 0
<1>1. /\ k = Holder(a) => k[1] \in {"stock", "warehouse", "district", "customer"}
      /\ k = Holder(a) => (k[1] = "customer" <=> a[1] \in {"paid", "payments"})
      /\ k = Holder(a) => (k[1] = "district" <=> a[1] = "district")
      /\ k = Holder(a) => (k[1] = "warehouse" <=> a[1] = "warehouse")
      /\ k = Holder(a) => (k[1] = "stock" <=> a[1] \in {"taken", "ordered"})
  <2>1. CASE a[1] \in {"taken", "ordered"}
    BY <2>1, AccountShape, KeyColumns
  <2>2. CASE a[1] = "warehouse"
    BY <2>2, AccountShape, KeyColumns
  <2>3. CASE a[1] = "district"
    BY <2>3, AccountShape, KeyColumns
  <2>4. CASE a[1] \in {"paid", "payments"}
    BY <2>4, AccountShape, KeyColumns
  <2>5. QED
    BY <2>1, <2>2, <2>3, <2>4, AccountShape
<1>2. Entry(a, k, row) => k[1] \in {"order_line", "history"}
  BY DEF Entry
<1>3. QED
  BY <1>1, <1>2 DEF Value

\* What Delivery does to rows does not count.
LEMMA SameValue ==
  ASSUME NEW a \in Accounts, NEW k, NEW old, NEW new, SameOf(k, old, new)
  PROVE  Value(a, k, new) = Value(a, k, old)
<1>1. CASE k[1] \in {"orders", "new_orders"}
  BY <1>1, AccountRows
<1>2. CASE k[1] = "order_line"
  <2>1. new.item = old.item /\ new.amount = old.amount
    BY <1>2 DEF SameOf, SameOrder
  <2>2. k # Holder(a)
    BY <1>2, AccountRows
  <2>3. QED
    BY <1>2, <2>1, <2>2 DEF Value, Entry, Counted
<1>3. CASE k[1] = "customer"
  <2>1. new.ytd = old.ytd /\ new.payments = old.payments
    BY <1>3 DEF SameOf
  <2>2. k = Holder(a) => Total(a, new) = Total(a, old)
    BY <1>3, <2>1, AccountRows DEF Total
  <2>3. ~Entry(a, k, new) /\ ~Entry(a, k, old)
    BY <1>3, AccountRows
  <2>4. QED
    BY <2>2, <2>3 DEF Value
<1>4. QED
  BY <1>1, <1>2, <1>3 DEF SameOf

LEMMA MildWorth ==
  ASSUME NEW a \in Accounts, NEW K, NEW old, NEW new, Mild(K, old, new), NEW k
  PROVE  Worth(a, k, new) = Worth(a, k, old)
<1>1. CASE k \notin K
  BY <1>1 DEF Mild, Same, Worth
<1>2. CASE k \in K /\ k \notin DOMAIN new
  BY <1>2, AccountRows DEF Mild, Worth
<1>3. CASE k \in K /\ k \in DOMAIN new
  <2>1. k \in DOMAIN old /\ SameOf(k, old[k], new[k])
    BY <1>3 DEF Mild
  <2>2. QED
    BY <1>3, <2>1, SameValue DEF Worth
<1>4. QED
  BY <1>1, <1>2, <1>3

LEMMA AheadType ==
  ASSUME NEW a \in Accounts, NEW K, IsFiniteSet(K), NEW new, Good(new), NEW old, Good(old)
  PROVE  Ahead(a, K, new, old) \in Int
<1> DEFINE f == [k \in K |-> Worth(a, k, new) - Worth(a, k, old)]
<1>1. \A k \in K : f[k] \in Int
  <2>1. \A k \in K : Worth(a, k, new) \in Int /\ Worth(a, k, old) \in Int
    BY WorthType
  <2>2. QED
    BY <2>1
<1>2. Ahead(a, K, new, old) = SumOver(f, K)
  BY DEF Ahead
<1> HIDE DEF f
<1>3. QED
  BY <1>1, <1>2, SumType

\* A statement inside a transaction adds to what the transaction is ahead.
LEMMA LedgerWrite ==
  ASSUME BookIInv, RowIInv, LedgerIInv, RowIInv', NEW w \in Workers, open[w], Works(w),
         NEW K, NEW rows, NEW place, Does(w, K, rows, place), Same(K, view[w], rows),
         \A a \in Accounts :
           Ahead(a, K, rows, view[w]) = Offset(a, my'[w], at'[w]) - Offset(a, my[w], at[w])
  PROVE  LedgerIInv'
<1>1. Writes(w, K, rows) /\ Steps(w) /\ BookShape(w) /\ Good(db) /\ RowShape(w)
  BY DEF Does, BookIInv, RowIInv
<1>2. /\ open' = open /\ db' = db /\ view'[w] = rows /\ wrote'[w] = wrote[w] \cup K
      /\ \A v \in Workers \ {w} : view'[v] = view[v] /\ wrote'[v] = wrote[v]
      /\ K \cap stale[w] = {}
  BY <1>1, WriteSplits
<1>3. \A v \in Workers \ {w} : at'[v] = at[v] /\ my'[v] = my[v]
  BY <1>1 DEF Steps
<1>4. Good(view[w]) /\ Good(rows) /\ IsFiniteSet(wrote[w]) /\ IsFiniteSet(K)
  <2>1. RowShape(w)'
    BY DEF RowIInv
  <2>2. Good(view[w])' /\ IsFiniteSet(wrote'[w])
    BY <1>2, <2>1 DEF RowShape
  <2>3. Good(rows)
    BY <1>2, <2>2 DEF Good, Typed
  <2>4. K \in SUBSET wrote'[w]
    BY <1>2
  <2>5. QED
    BY <1>1, <2>2, <2>3, <2>4, FS_Subset DEF RowShape
<1>5. /\ at'[w] = "insert_line" => my'[w].lines[my'[w].n][2] \in Int
      /\ at'[w] \in PaymentPlaces => my'[w].amount \in Int
  <2>1. RowShape(w)'
    BY DEF RowIInv
  <2>2. at'[w] = "insert_line" =>
          my'[w].lines \in Lines /\ my'[w].n \in 1..Len(my'[w].lines)
    BY <2>1, BasketsAssumption DEF RowShape, DrawTyped, NewOrderPlaces, IsNewOrder
  <2>3. ASSUME at'[w] \in PaymentPlaces
        PROVE  my'[w].amount \in Int
    <3>1. at'[w] # "idle"
      BY <2>3 DEF PaymentPlaces
    <3>2. DrawTyped(w)'
      BY <2>1, <3>1 DEF RowShape
    <3>3. my'[w].amount \in Amounts
      BY <2>3, <3>2 DEF DrawTyped
    <3>4. \A x \in Amounts : x \in Int
      BY AmountsAreNumbers
    <3>5. QED
      BY <3>3, <3>4
  <2>4. ASSUME at'[w] = "insert_line"
        PROVE  my'[w].lines[my'[w].n][2] \in Int
    <3> DEFINE lines == my'[w].lines
               n == my'[w].n
    <3>1. lines \in Lines /\ n \in 1..Len(lines)
      BY <2>2, <2>4
    <3> HIDE DEF lines, n
    <3>2. lines[n][2] \in 1..10
      BY <3>1, BasketShape
    <3>3. QED
      BY <3>2 DEF lines, n
  <2>5. QED
    BY <2>3, <2>4
<1>6. ASSUME NEW a \in Accounts
      PROVE  Ahead(a, wrote'[w], view'[w], db') = Offset(a, my'[w], at'[w])
  <2> DEFINE S == wrote[w]
             f == [k \in S \cup K |-> Worth(a, k, view[w]) - Worth(a, k, db)]
             e == [k \in S \cup K |-> Worth(a, k, rows) - Worth(a, k, db)]
             g == [k \in S |-> Worth(a, k, view[w]) - Worth(a, k, db)]
             h == [k \in K |-> Worth(a, k, rows) - Worth(a, k, view[w])]
  <2>1. \A k : /\ Worth(a, k, view[w]) \in Int /\ Worth(a, k, db) \in Int
               /\ Worth(a, k, rows) \in Int
    BY <1>1, <1>4, WorthType
  <2>2. \A k \in K \ S : Worth(a, k, view[w]) = Worth(a, k, db)
    <3>1. SUFFICES ASSUME NEW k \in K \ S
                   PROVE  Worth(a, k, view[w]) = Worth(a, k, db)
      OBVIOUS
    <3>2. k \notin wrote[w] /\ k \notin stale[w]
      BY <1>2
    <3>3. /\ k \in DOMAIN view[w] <=> k \in DOMAIN db
          /\ k \in DOMAIN db => view[w][k] = db[k]
      BY <1>1, <3>2 DEF BookShape, IsSnapshot
    <3>4. QED
      BY <3>3 DEF Worth
  <2>3. \A k \in S \ K : Worth(a, k, rows) = Worth(a, k, view[w])
    BY DEF Same, Worth
  <2>4. \A k \in S \cup K : /\ f[k] = Worth(a, k, view[w]) - Worth(a, k, db)
                            /\ e[k] = Worth(a, k, rows) - Worth(a, k, db)
    OBVIOUS
  <2>5. \A k \in S : g[k] = Worth(a, k, view[w]) - Worth(a, k, db)
    OBVIOUS
  <2>6. \A k \in K : h[k] = Worth(a, k, rows) - Worth(a, k, view[w])
    OBVIOUS
  <2>7. Ahead(a, S \cup K, rows, db) = SumOver(e, S \cup K)
    BY DEF Ahead
  <2>8. Ahead(a, S, view[w], db) = SumOver(g, S)
    BY DEF Ahead
  <2>9. Ahead(a, K, rows, view[w]) = SumOver(h, K)
    BY DEF Ahead
  <2>10. IsFiniteSet(S) /\ Ahead(a, S, view[w], db) = Offset(a, my[w], at[w])
    BY <1>4 DEF LedgerIInv
  <2> HIDE DEF f, e, g, h, S
  <2>11. SumOver(g, S) = SumOver(f, S)
    <3>1. \A k \in S : g[k] = f[k]
      BY <2>4, <2>5
    <3>2. QED
      BY <2>10, <3>1, SumSame
  <2>12. SumOver(e, S \cup K) = SumOver(f, S) + SumOver(h, K)
    <3>1. \A k \in S \cup K : f[k] \in Int /\ e[k] \in Int
      BY <2>1, <2>4
    <3>2. \A k \in K \ S : f[k] = 0
      BY <2>1, <2>2, <2>4
    <3>3. \A k \in S \ K : e[k] = f[k]
      BY <2>3, <2>4
    <3>4. \A k \in K : h[k] = e[k] - f[k]
      BY <2>1, <2>4, <2>6
    <3>5. QED
      BY <1>4, <2>10, <3>1, <3>2, <3>3, <3>4, SumMoves
  <2>13. SumOver(f, S) \in Int
    <3>1. \A k \in S : f[k] \in Int
      BY <2>1, <2>4
    <3>2. QED
      BY <2>10, <3>1, SumType
  <2>14. SumOver(h, K) \in Int
    <3>1. \A k \in K : h[k] \in Int
      BY <2>1, <2>6
    <3>2. QED
      BY <1>4, <3>1, SumType
  <2>15. Ahead(a, S \cup K, rows, db) = Offset(a, my[w], at[w])
           + (Offset(a, my'[w], at'[w]) - Offset(a, my[w], at[w]))
    BY <2>7, <2>8, <2>9, <2>10, <2>11, <2>12
  <2>16. Offset(a, my[w], at[w]) \in Int
    BY <2>8, <2>10, <2>11, <2>13
  <2>17. Offset(a, my'[w], at'[w]) \in Int
    BY <1>5, OffsetType
  <2>18. QED
    <3> DEFINE x == Offset(a, my'[w], at'[w])
               y == Offset(a, my[w], at[w])
    <3>1. y + (x - y) = x
      <4> HIDE DEF x, y
      <4>1. x \in Int /\ y \in Int => y + (x - y) = x
        OBVIOUS
      <4>2. QED
        BY <2>16, <2>17, <4>1 DEF x, y
    <3>2. QED
      BY <1>2, <2>15, <3>1 DEF S
<1>7. QED
  <2>1. ASSUME NEW a \in Accounts, NEW v \in Workers, open'[v], Works(v)'
        PROVE  Ahead(a, wrote'[v], view'[v], db') = Offset(a, my'[v], at'[v])
    <3>1. CASE v = w
      BY <1>6, <2>1, <3>1
    <3>2. CASE v # w
      BY <1>2, <1>3, <2>1, <3>2 DEF LedgerIInv, Works
    <3>3. QED
      BY <3>1, <3>2
  <2>2. \A a \in Accounts : Balance(a, db') = 0
    BY <1>2 DEF LedgerIInv
  <2>3. QED
    BY <2>1, <2>2 DEF LedgerIInv

\* One row is inserted or updated.
LEMMA LedgerPut ==
  ASSUME BookIInv, RowIInv, LedgerIInv, RowIInv', NEW w \in Workers, open[w], Works(w),
         NEW k, NEW row, NEW place,
         Does(w, {k}, With(view[w], [x \in {k} |-> row]), place),
         \A a \in Accounts : Value(a, k, row) - Worth(a, k, view[w])
                               = Offset(a, my'[w], at'[w]) - Offset(a, my[w], at[w])
  PROVE  LedgerIInv'
<1> DEFINE rows == With(view[w], [x \in {k} |-> row])
<1>1. Same({k}, view[w], rows) /\ k \in DOMAIN rows /\ rows[k] = row
  BY DEF With, Same
<1>2. Good(view[w])
  BY DEF RowIInv, RowShape
<1>3. Good(rows)
  <2>1. Writes(w, {k}, rows)
    BY DEF Does
  <2> HIDE DEF rows
  <2>2. view'[w] = rows /\ open'[w]
    BY <2>1, WriteSplits
  <2>3. Good(view[w])'
    BY <2>2 DEF RowIInv, RowShape
  <2>4. QED
    BY <2>2, <2>3 DEF Good, Typed
<1>4. Does(w, {k}, rows, place)
  OBVIOUS
<1> HIDE DEF rows
<1>5. ASSUME NEW a \in Accounts
      PROVE  Ahead(a, {k}, rows, view[w])
               = Offset(a, my'[w], at'[w]) - Offset(a, my[w], at[w])
  <2> DEFINE f == [x \in {k} |-> Worth(a, x, rows) - Worth(a, x, view[w])]
  <2>1. f[k] = Worth(a, k, rows) - Worth(a, k, view[w])
    OBVIOUS
  <2>2. Worth(a, k, rows) \in Int /\ Worth(a, k, view[w]) \in Int
    BY <1>2, <1>3, WorthType
  <2>3. Ahead(a, {k}, rows, view[w]) = SumOver(f, {k})
    BY DEF Ahead
  <2> HIDE DEF f
  <2>4. Ahead(a, {k}, rows, view[w]) = Worth(a, k, rows) - Worth(a, k, view[w])
    <3>1. f[k] \in Int
      BY <2>1, <2>2
    <3>2. SumOver(f, {k}) = f[k]
      BY <3>1, SumOfOne
    <3>3. QED
      BY <2>1, <2>3, <3>2
  <2>5. Worth(a, k, rows) = Value(a, k, row)
    BY <1>1 DEF Worth
  <2>6. QED
    BY <2>4, <2>5
<1>6. QED
  BY <1>1, <1>4, <1>5, LedgerWrite

LEMMA MildAhead ==
  ASSUME NEW a \in Accounts, NEW K, NEW old, Good(old), NEW new, Mild(K, old, new)
  PROVE  Ahead(a, K, new, old) = 0
<1> DEFINE f == [x \in K |-> Worth(a, x, new) - Worth(a, x, old)]
<1>1. IsFiniteSet(K)
  <2>1. K \subseteq DOMAIN old
    BY DEF Mild
  <2>2. QED
    BY <2>1, FS_Subset DEF Good
<1>2. \A k \in K : f[k] = 0
  <2>1. ASSUME NEW k \in K
        PROVE  Worth(a, k, new) - Worth(a, k, old) = 0
    BY WorthType, MildWorth
  <2>2. QED
    BY <2>1
<1>3. Ahead(a, K, new, old) = SumOver(f, K)
  BY DEF Ahead
<1> HIDE DEF f
<1>4. QED
  BY <1>1, <1>2, <1>3, SumOfZeros

\* A query, or a statement that does not count.
LEMMA LedgerMild ==
  ASSUME BookIInv, RowIInv, LedgerIInv, RowIInv', NEW w \in Workers, open[w], Works(w),
         NEW K, NEW rows, NEW place, Does(w, K, rows, place), Mild(K, view[w], rows),
         \A a \in Accounts : Offset(a, my'[w], at'[w]) = Offset(a, my[w], at[w])
  PROVE  LedgerIInv'
<1>1. Same(K, view[w], rows) /\ Good(view[w])
  BY DEF Mild, RowIInv, RowShape
<1>2. \A a \in Accounts : Ahead(a, K, rows, view[w]) = 0
  BY <1>1, MildAhead
<1>3. ASSUME NEW a \in Accounts
      PROVE  0 = Offset(a, my'[w], at'[w]) - Offset(a, my[w], at[w])
  <2>1. Offset(a, my[w], at[w]) \in Int
    <3>1. Ahead(a, wrote[w], view[w], db) = Offset(a, my[w], at[w])
      BY DEF LedgerIInv
    <3>2. Ahead(a, wrote[w], view[w], db) \in Int
      BY <1>1, AheadType DEF RowIInv, RowShape
    <3>3. QED
      BY <3>1, <3>2
  <2>2. QED
    BY <2>1
<1>4. \A a \in Accounts :
        Ahead(a, K, rows, view[w]) = Offset(a, my'[w], at'[w]) - Offset(a, my[w], at[w])
  BY <1>2, <1>3
<1>5. QED
  BY <1>1, <1>4, LedgerWrite

\* Values of the rows a NewOrder or a Payment writes.
LEMMA StockValue ==
  ASSUME NEW a \in Accounts, NEW i, NEW row
  PROVE  Value(a, StockKey(i), row) =
           IF a[1] \in {"taken", "ordered"} /\ a[2] = i THEN Total(a, row) ELSE 0
<1> DEFINE k == StockKey(i)
<1>1. k = <<"stock", 0, i, 0, 0>> /\ StockKey(a[2]) = <<"stock", 0, a[2], 0, 0>>
  BY KeyColumns
<1>2. k[1] = "stock"
  BY <1>1
<1>3. ~Entry(a, k, row)
  BY <1>2, AccountRows
<1>4. k = Holder(a) <=> a[1] \in {"taken", "ordered"} /\ a[2] = i
  BY <1>1, <1>2, AccountRows, AccountShape
<1>5. QED
  BY <1>3, <1>4 DEF Value

LEMMA DistrictValue ==
  ASSUME NEW a \in Accounts, NEW d, NEW row
  PROVE  Value(a, DistrictKey(d), row) =
           IF a[1] = "district" /\ a[2] = d THEN row.ytd ELSE 0
<1> DEFINE k == DistrictKey(d)
<1>1. k = <<"district", d, 0, 0, 0>> /\ DistrictKey(a[2]) = <<"district", a[2], 0, 0, 0>>
  BY KeyColumns
<1>2. k[1] = "district"
  BY <1>1
<1>3. ~Entry(a, k, row)
  BY <1>2, AccountRows
<1>4. k = Holder(a) <=> a[1] = "district" /\ a[2] = d
  BY <1>1, <1>2, AccountRows, AccountShape
<1>5. a[1] = "district" => Total(a, row) = row.ytd
  BY DEF Total
<1>6. QED
  BY <1>3, <1>4, <1>5 DEF Value

LEMMA WarehouseValue ==
  ASSUME NEW a \in Accounts, NEW row
  PROVE  Value(a, WarehouseKey, row) = IF a[1] = "warehouse" THEN row.ytd ELSE 0
<1> DEFINE k == WarehouseKey
<1>1. k[1] = "warehouse"
  BY KeyColumns
<1>2. ~Entry(a, k, row)
  BY <1>1, AccountRows
<1>3. k = Holder(a) <=> a[1] = "warehouse"
  BY <1>1, AccountRows, AccountShape
<1>4. a[1] = "warehouse" => Total(a, row) = row.ytd
  BY DEF Total
<1>5. QED
  BY <1>2, <1>3, <1>4 DEF Value

LEMMA CustomerValue ==
  ASSUME NEW a \in Accounts, NEW d, NEW c, NEW row
  PROVE  Value(a, CustomerKey(d, c), row) =
           IF a[1] \in {"paid", "payments"} /\ a[2] = d /\ a[3] = c THEN Total(a, row) ELSE 0
<1> DEFINE k == CustomerKey(d, c)
<1>1. /\ k = <<"customer", d, c, 0, 0>>
      /\ CustomerKey(a[2], a[3]) = <<"customer", a[2], a[3], 0, 0>>
  BY KeyColumns
<1>2. k[1] = "customer"
  BY <1>1
<1>3. ~Entry(a, k, row)
  BY <1>2, AccountRows
<1>4. k = Holder(a) <=> a[1] \in {"paid", "payments"} /\ a[2] = d /\ a[3] = c
  BY <1>1, <1>2, AccountRows, AccountShape
<1>5. QED
  BY <1>3, <1>4 DEF Value

LEMMA LineValue ==
  ASSUME NEW a \in Accounts, NEW d, NEW o, NEW n, NEW by, by # 0, NEW row
  PROVE  Value(a, LineKey(d, o, n, by), row) =
           IF a[1] \in {"taken", "ordered"} /\ row.item = a[2]
           THEN IF a[1] = "ordered" THEN -1 ELSE -row.amount
           ELSE 0
<1> DEFINE k == LineKey(d, o, n, by)
<1>1. k[1] = "order_line" /\ k[5] = by
  BY KeyColumns
<1>2. k # Holder(a)
  BY <1>1, AccountRows
<1> HIDE DEF k
<1>3. Entry(a, k, row) <=> a[1] \in {"taken", "ordered"} /\ row.item = a[2]
  BY <1>1 DEF Entry
<1>4. a[1] \in {"taken", "ordered"} => Counted(a, row) = IF a[1] = "ordered" THEN 1 ELSE row.amount
  BY DEF Counted
<1>5. QED
  BY <1>2, <1>3, <1>4 DEF Value, k

LEMMA HistoryValue ==
  ASSUME NEW a \in Accounts, NEW d, NEW c, NEW by, NEW row
  PROVE  Value(a, HistoryKey(d, c, by), row) =
           IF \/ a[1] = "warehouse"
              \/ a[1] = "district" /\ row.d = a[2]
              \/ a[1] \in {"paid", "payments"} /\ d = a[2] /\ c = a[3]
           THEN IF a[1] = "payments" THEN -1 ELSE -row.amount
           ELSE 0
<1> DEFINE k == HistoryKey(d, c, by)
<1>1. k[1] = "history" /\ k[2] = d /\ k[3] = c
  BY KeyColumns
<1>2. k # Holder(a)
  BY <1>1, AccountRows
<1> HIDE DEF k
<1>3. Entry(a, k, row) <=>
        \/ a[1] = "warehouse"
        \/ a[1] = "district" /\ row.d = a[2]
        \/ a[1] \in {"paid", "payments"} /\ d = a[2] /\ c = a[3]
  BY <1>1, AccountShape DEF Entry
<1>4. a[1] \notin {"taken", "ordered"} =>
        Counted(a, row) = IF a[1] = "payments" THEN 1 ELSE row.amount
  BY DEF Counted
<1>5. QED
  BY <1>2, <1>3, <1>4, AccountShape DEF Value, k

LEMMA NewOrderLedger ==
  ASSUME BookIInv, RowIInv, OrderIInv, LedgerIInv, RowIInv', NEW w \in Workers,
         \/ ReadsDistrict(w) \/ TakesId(w) \/ InsertsOrder(w) \/ InsertsNewOrder(w)
         \/ ReadsStock(w) \/ UpdatesStock(w) \/ InsertsLine(w)
  PROVE  LedgerIInv'
<1> USE DEF NewOrderPlaces
<1>1. ASSUME at[w] \in NewOrderPlaces
      PROVE  /\ open[w] /\ Works(w) /\ Good(view[w]) /\ Sees(w) = view[w]
             /\ my[w].d \in Districts /\ Item(w) \in Items /\ Quantity(w) \in 1..10
             /\ my[w].lines # <<>> /\ my[w].id \in Nat \ {0} /\ SeenFits(w)
             /\ my[w].n \in Nat
  <2>1. /\ open[w] /\ Good(view[w]) /\ Sees(w) = view[w] /\ my[w].d \in Districts
        /\ Item(w) \in Items /\ Quantity(w) \in 1..10 /\ my[w].lines # <<>> /\ SeenFits(w)
        /\ my[w].id \in 1..attempts /\ my[w].n \in 1..Len(my[w].lines)
    BY <1>1, NewOrderKnows DEF IsNewOrder, DrawTyped
  <2>2. QED
    BY <1>1, <2>1, MaxAttemptsAssumption DEF Works, RowIInv
<1>2. ASSUME at[w] # "insert_line", at'[w] # "insert_line", at[w] \notin PaymentPlaces,
             at'[w] \notin PaymentPlaces
      PROVE  \A a \in Accounts : Offset(a, my'[w], at'[w]) = 0 /\ Offset(a, my[w], at[w]) = 0
  BY <1>2 DEF Offset, PaymentPlaces
<1>3. ASSUME NEW K, NEW rows, NEW place, Does(w, K, rows, place), Mild(K, Sees(w), rows),
             at[w] \in NewOrderPlaces \ {"insert_line"},
             place \in NewOrderPlaces \ {"insert_line"}
      PROVE  LedgerIInv'
  <2>1. at'[w] = place
    BY <1>3 DEF Does
  <2>2. \A a \in Accounts : Offset(a, my'[w], at'[w]) = Offset(a, my[w], at[w])
    BY <1>2, <1>3, <2>1 DEF PaymentPlaces
  <2>3. QED
    BY <1>1, <1>3, <2>2, LedgerMild
<1>4. CASE ReadsDistrict(w)
  BY <1>3, <1>4, ReadsDistrictDoes, MildRead
<1>5. CASE ReadsStock(w)
  BY <1>3, <1>5, ReadsStockDoes, MildRead
<1>6. ASSUME NEW k, NEW row, NEW place,
             Does(w, {k}, With(Sees(w), [x \in {k} |-> row]), place),
             at[w] \in NewOrderPlaces \ {"insert_line"},
             place \in NewOrderPlaces \ {"insert_line"},
             \A a \in Accounts : Value(a, k, row) = Worth(a, k, view[w])
      PROVE  LedgerIInv'
  <2>1. at'[w] = place
    BY <1>6 DEF Does
  <2>2. ASSUME NEW a \in Accounts
        PROVE  Value(a, k, row) - Worth(a, k, view[w])
                 = Offset(a, my'[w], at'[w]) - Offset(a, my[w], at[w])
    <3>1. Offset(a, my'[w], at'[w]) = 0 /\ Offset(a, my[w], at[w]) = 0
      BY <1>2, <1>6, <2>1 DEF PaymentPlaces
    <3>2. Worth(a, k, view[w]) \in Int /\ Value(a, k, row) = Worth(a, k, view[w])
      BY <1>1, <1>6, WorthType
    <3>3. QED
      BY <3>1, <3>2
  <2>3. QED
    BY <1>1, <1>6, <2>2, LedgerPut
<1>7. CASE TakesId(w)
  <2> DEFINE k == DistrictKey(my[w].d)
             row == [Sees(w)[k] EXCEPT !.next = @ + 1]
  <2>1. at[w] = "take_id" /\ Does(w, {k}, With(Sees(w), [x \in {k} |-> row]), "insert_order")
    BY <1>7, TakesIdDoes
  <2>2. k \in DOMAIN view[w] /\ k[1] = "district" /\ Sees(w) = view[w] /\ Good(view[w])
    BY <1>1, <2>1, FixedKeys, KeyShape DEF Good
  <2>3. row.ytd = view[w][k].ytd
    <3>1. view[w][k] \in [next : Nat, ytd : Nat]
      BY <2>2 DEF Good, Typed
    <3>2. QED
      BY <2>2, <3>1
  <2> HIDE DEF row
  <2>4. ASSUME NEW a \in Accounts
        PROVE  Value(a, k, row) = Worth(a, k, view[w])
    <3>1. /\ Value(a, k, row) = IF a[1] = "district" /\ a[2] = my[w].d THEN row.ytd ELSE 0
          /\ Value(a, k, view[w][k]) =
               IF a[1] = "district" /\ a[2] = my[w].d THEN view[w][k].ytd ELSE 0
      BY DistrictValue
    <3>2. QED
      BY <2>2, <2>3, <3>1 DEF Worth
  <2> HIDE DEF k
  <2>5. QED
    BY <1>6, <2>1, <2>4
<1>8. CASE InsertsOrder(w)
  <2> DEFINE k == OrderKey(my[w].d, my[w].o, my[w].id)
             row == Order(my[w].c, Len(my[w].lines), -1)
  <2>1. /\ at[w] = "insert_order"
        /\ Does(w, {k}, With(Sees(w), [x \in {k} |-> row]), "insert_new_order")
    BY <1>8, InsertsOrderDoes
  <2>2. k[1] = "orders"
    BY KeyColumns
  <2> HIDE DEF k, row
  <2>3. \A a \in Accounts : Value(a, k, row) = Worth(a, k, view[w])
    BY <2>2, AccountRows DEF Worth
  <2>4. QED
    BY <1>6, <2>1, <2>3
<1>9. CASE InsertsNewOrder(w)
  <2> DEFINE k == NewOrderKey(my[w].d, my[w].o, my[w].id)
             row == [o_id |-> my[w].o]
  <2>1. /\ at[w] = "insert_new_order"
        /\ Does(w, {k}, With(Sees(w), [x \in {k} |-> row]), "read_stock")
    BY <1>9, InsertsNewOrderDoes
  <2>2. k[1] = "new_orders"
    BY KeyColumns
  <2> HIDE DEF k, row
  <2>3. \A a \in Accounts : Value(a, k, row) = Worth(a, k, view[w])
    BY <2>2, AccountRows DEF Worth
  <2>4. QED
    BY <1>6, <2>1, <2>3
<1>10. CASE UpdatesStock(w)
  <2> DEFINE k == StockKey(Item(w))
             row == Restocked(my[w].seen, Quantity(w))
  <2>1. /\ at[w] = "update_stock" /\ Others(w, {})
        /\ Does(w, {k}, With(Sees(w), [x \in {k} |-> row]), "insert_line")
    BY <1>10, UpdatesStockDoes
  <2>2. /\ at'[w] = "insert_line" /\ my'[w].lines = my[w].lines /\ my'[w].n = my[w].n
        /\ open[w] /\ Works(w) /\ Sees(w) = view[w] /\ Good(view[w])
        /\ k \in DOMAIN view[w] /\ k[1] = "stock" /\ my[w].seen = view[w][k]
        /\ Quantity(w) \in 1..10
    <3>1. /\ at'[w] = "insert_line" /\ my'[w].lines = my[w].lines /\ my'[w].n = my[w].n
      BY <2>1 DEF Does, Others
    <3>2. /\ open[w] /\ Works(w) /\ Sees(w) = view[w] /\ Good(view[w]) /\ Item(w) \in Items
          /\ Quantity(w) \in 1..10 /\ my[w].seen = view[w][k]
      BY <1>1, <2>1 DEF SeenFits
    <3>3. k \in Fixed
      BY <3>2, FixedKeys
    <3>4. k[1] = "stock"
      BY KeyColumns
    <3>5. QED
      BY <3>1, <3>2, <3>3, <3>4 DEF Good
  <2>3. /\ row.ytd = view[w][k].ytd + Quantity(w) /\ row.orders = view[w][k].orders + 1
        /\ view[w][k].ytd \in Nat /\ view[w][k].orders \in Nat
    <3>1. view[w][k] \in [quantity : 10..100, ytd : Nat, orders : Nat]
      BY <2>2 DEF Good, Typed
    <3>2. my[w].seen \in [quantity : 10..100, ytd : Nat, orders : Nat]
      BY <2>2, <3>1
    <3>3. row.ytd = my[w].seen.ytd + Quantity(w) /\ row.orders = my[w].seen.orders + 1
      BY <3>2 DEF Restocked
    <3>4. QED
      BY <2>2, <3>1, <3>3
  <2> HIDE DEF row
  <2>4. ASSUME NEW a \in Accounts
        PROVE  Value(a, k, row) - Worth(a, k, view[w])
                 = Offset(a, my'[w], at'[w]) - Offset(a, my[w], at[w])
    <3> DEFINE Hit == a[1] \in {"taken", "ordered"} /\ a[2] = Item(w)
    <3>1. /\ Value(a, k, row) = IF Hit THEN Total(a, row) ELSE 0
          /\ Value(a, k, view[w][k]) = IF Hit THEN Total(a, view[w][k]) ELSE 0
      BY StockValue
    <3>2. Worth(a, k, view[w]) = Value(a, k, view[w][k])
      BY <2>2 DEF Worth
    <3>3. Offset(a, my[w], at[w]) = 0
      BY <2>1 DEF Offset, PaymentPlaces
    <3>4. Offset(a, my'[w], at'[w]) = IF Hit THEN IF a[1] = "taken" THEN Quantity(w) ELSE 1 ELSE 0
      BY <2>2 DEF Offset, PaymentPlaces, Item, Quantity
    <3>5. Hit => Total(a, row) - Total(a, view[w][k]) = IF a[1] = "taken" THEN Quantity(w) ELSE 1
      BY <2>2, <2>3 DEF Total
    <3> HIDE DEF Hit
    <3>6. QED
      BY <2>2, <3>1, <3>2, <3>3, <3>4, <3>5
  <2> HIDE DEF k
  <2>5. QED
    BY <2>1, <2>2, <2>4, LedgerPut
<1>11. CASE InsertsLine(w)
  <2> DEFINE k == LineKey(my[w].d, my[w].o, my[w].n, my[w].id)
             row == Line(Item(w), Quantity(w), FALSE)
             place == IF my[w].n < Len(my[w].lines) THEN "read_stock" ELSE "commit"
  <2>1. at[w] = "insert_line" /\ Does(w, {k}, With(Sees(w), [x \in {k} |-> row]), place)
    BY <1>11, InsertsLineDoes
  <2>2. /\ at'[w] \in {"read_stock", "commit"} /\ open[w] /\ Works(w) /\ Sees(w) = view[w]
        /\ Quantity(w) \in 1..10 /\ my[w].id # 0
        /\ row.item = Item(w) /\ row.amount = Quantity(w)
        /\ k[1] = "order_line" /\ k[5] = my[w].id /\ k[4] = my[w].n /\ my[w].n \in Nat
    BY <1>1, <2>1, KeyColumns DEF Does, Line
  <2>3. k \notin DOMAIN view[w]
    <3>1. k \notin InsertedBy(w)
      <4> HIDE DEF k
      <4>1. QED
        BY <2>2, InsertedKeys DEF InsertedBy
    <3>2. QED
      BY <2>2, <3>1 DEF OrderIInv, WorkShape
  <2> HIDE DEF row
  <2>4. ASSUME NEW a \in Accounts
        PROVE  Value(a, k, row) - Worth(a, k, view[w])
                 = Offset(a, my'[w], at'[w]) - Offset(a, my[w], at[w])
    <3> DEFINE Hit == a[1] \in {"taken", "ordered"} /\ Item(w) = a[2]
    <3>1. Value(a, k, row) =
            IF a[1] \in {"taken", "ordered"} /\ row.item = a[2]
            THEN IF a[1] = "ordered" THEN -1 ELSE -row.amount
            ELSE 0
      BY <2>2, LineValue
    <3>2. Worth(a, k, view[w]) = 0
      BY <2>3 DEF Worth
    <3>3. Offset(a, my[w], at[w]) = IF Hit THEN IF a[1] = "taken" THEN Quantity(w) ELSE 1 ELSE 0
      BY <2>1 DEF Offset, PaymentPlaces, Item, Quantity
    <3>4. Offset(a, my'[w], at'[w]) = 0
      BY <2>2 DEF Offset, PaymentPlaces
    <3>5. Value(a, k, row) = IF Hit THEN IF a[1] = "taken" THEN -Quantity(w) ELSE -1 ELSE 0
      BY <2>2, <3>1
    <3> HIDE DEF Hit
    <3>6. QED
      BY <2>2, <3>2, <3>3, <3>4, <3>5
  <2> HIDE DEF k, place
  <2>5. QED
    BY <2>1, <2>2, <2>4, LedgerPut
<1>12. QED
  BY <1>4, <1>5, <1>7, <1>8, <1>9, <1>10, <1>11

LEMMA PaymentLedger ==
  ASSUME BookIInv, RowIInv, OrderIInv, LedgerIInv, RowIInv', NEW w \in Workers,
         \/ UpdatesWarehouse(w) \/ UpdatesDistrict(w) \/ ReadsCustomer(w)
         \/ UpdatesCustomer(w) \/ InsertsHistory(w)
  PROVE  LedgerIInv'
<1>1. ASSUME at[w] \in PaymentPlaces
      PROVE  /\ open[w] /\ Works(w) /\ Good(view[w]) /\ Sees(w) = view[w]
             /\ my[w].d \in Districts /\ my[w].cd \in Districts /\ my[w].c \in Customers
             /\ my[w].amount \in Nat /\ SeenFits(w)
  BY <1>1, PaymentKnows DEF Works, PaymentPlaces
<1>2. ASSUME NEW place, NEW F, Others(w, F), F \subseteq {"seen"}, at'[w] = place
      PROVE  /\ my'[w].d = my[w].d /\ my'[w].cd = my[w].cd /\ my'[w].c = my[w].c
             /\ my'[w].amount = my[w].amount
  BY <1>2 DEF Others
<1>3. CASE UpdatesWarehouse(w)
  <2> DEFINE k == WarehouseKey
             row == [Sees(w)[k] EXCEPT !.ytd = @ + my[w].amount]
  <2>1. /\ at[w] = "update_warehouse" /\ Others(w, {})
        /\ Does(w, {k}, With(Sees(w), [x \in {k} |-> row]), "update_district")
    BY <1>3, UpdatesWarehouseDoes
  <2>2. /\ at'[w] = "update_district" /\ my'[w].amount = my[w].amount
        /\ open[w] /\ Works(w) /\ Sees(w) = view[w] /\ Good(view[w]) /\ my[w].amount \in Nat
    BY <1>1, <1>2, <2>1 DEF Does, PaymentPlaces
  <2>3. k \in DOMAIN view[w] /\ row.ytd = view[w][k].ytd + my[w].amount /\ view[w][k].ytd \in Nat
    <3>1. k \in DOMAIN view[w] /\ k[1] = "warehouse"
      BY <2>2, FixedKeys, KeyColumns DEF Good
    <3>2. view[w][k] \in [ytd : Nat]
      BY <2>2, <3>1 DEF Good, Typed
    <3>3. QED
      BY <2>2, <3>1, <3>2
  <2> HIDE DEF row
  <2>4. ASSUME NEW a \in Accounts
        PROVE  Value(a, k, row) - Worth(a, k, view[w])
                 = Offset(a, my'[w], at'[w]) - Offset(a, my[w], at[w])
    <3>1. /\ Value(a, k, row) = IF a[1] = "warehouse" THEN row.ytd ELSE 0
          /\ Value(a, k, view[w][k]) = IF a[1] = "warehouse" THEN view[w][k].ytd ELSE 0
      BY WarehouseValue
    <3>2. Worth(a, k, view[w]) = Value(a, k, view[w][k])
      BY <2>3 DEF Worth
    <3>3. Offset(a, my[w], at[w]) = 0
      BY <2>1 DEF Offset, PaymentPlaces
    <3>4. Offset(a, my'[w], at'[w]) = IF a[1] = "warehouse" THEN my[w].amount ELSE 0
      BY <2>2 DEF Offset, PaymentPlaces
    <3>5. QED
      BY <2>2, <2>3, <3>1, <3>2, <3>3, <3>4
  <2> HIDE DEF k
  <2>5. QED
    BY <2>1, <2>2, <2>4, LedgerPut
<1>4. CASE UpdatesDistrict(w)
  <2> DEFINE k == DistrictKey(my[w].d)
             row == [Sees(w)[k] EXCEPT !.ytd = @ + my[w].amount]
  <2>1. /\ at[w] = "update_district" /\ Others(w, {})
        /\ Does(w, {k}, With(Sees(w), [x \in {k} |-> row]), "read_customer")
    BY <1>4, UpdatesDistrictDoes
  <2>2. /\ at'[w] = "read_customer" /\ my'[w].amount = my[w].amount /\ my'[w].d = my[w].d
        /\ open[w] /\ Works(w) /\ Sees(w) = view[w] /\ Good(view[w]) /\ my[w].amount \in Nat
        /\ my[w].d \in Districts
    BY <1>1, <1>2, <2>1 DEF Does, PaymentPlaces
  <2>3. k \in DOMAIN view[w] /\ row.ytd = view[w][k].ytd + my[w].amount /\ view[w][k].ytd \in Nat
    <3>1. k \in DOMAIN view[w] /\ k[1] = "district"
      <4>1. k \in Fixed
        BY <2>2, FixedKeys
      <4>2. k[1] = "district"
        BY KeyColumns
      <4>3. QED
        BY <2>2, <4>1, <4>2 DEF Good
    <3>2. view[w][k] \in [next : Nat, ytd : Nat]
      BY <2>2, <3>1 DEF Good, Typed
    <3>3. QED
      BY <2>2, <3>1, <3>2
  <2> HIDE DEF row
  <2>4. ASSUME NEW a \in Accounts
        PROVE  Value(a, k, row) - Worth(a, k, view[w])
                 = Offset(a, my'[w], at'[w]) - Offset(a, my[w], at[w])
    <3> DEFINE Hit == a[1] = "district" /\ a[2] = my[w].d
    <3>1. /\ Value(a, k, row) = IF Hit THEN row.ytd ELSE 0
          /\ Value(a, k, view[w][k]) = IF Hit THEN view[w][k].ytd ELSE 0
      BY DistrictValue
    <3>2. Worth(a, k, view[w]) = Value(a, k, view[w][k])
      BY <2>3 DEF Worth
    <3>3. Offset(a, my[w], at[w]) = IF a[1] = "warehouse" THEN my[w].amount ELSE 0
      BY <2>1 DEF Offset, PaymentPlaces
    <3>4. Offset(a, my'[w], at'[w]) =
            IF a[1] = "warehouse" THEN my[w].amount ELSE IF Hit THEN my[w].amount ELSE 0
      BY <2>2 DEF Offset, PaymentPlaces
    <3>5. Hit => a[1] # "warehouse"
      OBVIOUS
    <3> HIDE DEF Hit
    <3>6. QED
      BY <2>2, <2>3, <3>1, <3>2, <3>3, <3>4, <3>5
  <2> HIDE DEF k
  <2>5. QED
    BY <2>1, <2>2, <2>4, LedgerPut
<1>5. CASE ReadsCustomer(w)
  <2>1. /\ at[w] = "read_customer" /\ Does(w, {}, Sees(w), "update_customer")
        /\ Others(w, {"seen"})
    BY <1>5, ReadsCustomerDoes
  <2>2. /\ at'[w] = "update_customer" /\ my'[w].amount = my[w].amount /\ my'[w].d = my[w].d
        /\ open[w] /\ Works(w) /\ Sees(w) = view[w]
    BY <1>1, <1>2, <2>1 DEF Does, PaymentPlaces
  <2>3. \A a \in Accounts : Offset(a, my'[w], at'[w]) = Offset(a, my[w], at[w])
    BY <2>1, <2>2 DEF Offset, PaymentPlaces
  <2>4. QED
    BY <2>1, <2>2, <2>3, MildRead, LedgerMild
<1>6. CASE UpdatesCustomer(w)
  <2> DEFINE k == CustomerKey(my[w].cd, my[w].c)
             row == [Sees(w)[k] EXCEPT !.balance = my[w].seen.balance - my[w].amount,
                                       !.ytd = my[w].seen.ytd + my[w].amount,
                                       !.payments = my[w].seen.payments + 1]
  <2>1. /\ at[w] = "update_customer" /\ Others(w, {})
        /\ Does(w, {k}, With(Sees(w), [x \in {k} |-> row]), "insert_history")
    BY <1>6, UpdatesCustomerDoes
  <2>2. /\ at'[w] = "insert_history" /\ my'[w].amount = my[w].amount /\ my'[w].d = my[w].d
        /\ my'[w].cd = my[w].cd /\ my'[w].c = my[w].c
        /\ open[w] /\ Works(w) /\ Sees(w) = view[w] /\ Good(view[w]) /\ my[w].amount \in Nat
        /\ my[w].cd \in Districts /\ my[w].c \in Customers /\ my[w].seen = view[w][k]
    BY <1>1, <1>2, <2>1 DEF Does, PaymentPlaces, SeenFits
  <2>3. /\ k \in DOMAIN view[w]
        /\ row.ytd = view[w][k].ytd + my[w].amount /\ row.payments = view[w][k].payments + 1
        /\ view[w][k].ytd \in Nat /\ view[w][k].payments \in Nat
    <3>1. k \in DOMAIN view[w] /\ k[1] = "customer"
      <4>1. k \in Fixed
        BY <2>2, FixedKeys
      <4>2. k[1] = "customer"
        BY KeyColumns
      <4>3. QED
        BY <2>2, <4>1, <4>2 DEF Good
    <3>2. view[w][k] \in [balance : Int, ytd : Nat, payments : Nat, deliveries : Nat]
      BY <2>2, <3>1 DEF Good, Typed
    <3>3. QED
      BY <2>2, <3>1, <3>2
  <2> HIDE DEF row
  <2>4. ASSUME NEW a \in Accounts
        PROVE  Value(a, k, row) - Worth(a, k, view[w])
                 = Offset(a, my'[w], at'[w]) - Offset(a, my[w], at[w])
    <3> DEFINE Hit == a[1] \in {"paid", "payments"} /\ a[2] = my[w].cd /\ a[3] = my[w].c
               Income == a[1] = "warehouse" \/ (a[1] = "district" /\ my[w].d = a[2])
    <3>1. /\ Value(a, k, row) = IF Hit THEN Total(a, row) ELSE 0
          /\ Value(a, k, view[w][k]) = IF Hit THEN Total(a, view[w][k]) ELSE 0
      BY CustomerValue
    <3>2. Worth(a, k, view[w]) = Value(a, k, view[w][k])
      BY <2>3 DEF Worth
    <3>3. Offset(a, my[w], at[w]) = IF Income THEN my[w].amount ELSE 0
      BY <2>1 DEF Offset, PaymentPlaces
    <3>4. Offset(a, my'[w], at'[w]) =
            IF Income THEN my[w].amount
            ELSE IF Hit THEN IF a[1] = "paid" THEN my[w].amount ELSE 1 ELSE 0
      BY <2>2, AccountShape DEF Offset, PaymentPlaces
    <3>5. /\ Hit => ~Income
          /\ Hit => Total(a, row) = IF a[1] = "paid" THEN row.ytd ELSE row.payments
          /\ Hit => Total(a, view[w][k]) =
                      IF a[1] = "paid" THEN view[w][k].ytd ELSE view[w][k].payments
      BY DEF Total
    <3> HIDE DEF Hit, Income
    <3>6. QED
      BY <2>2, <2>3, <3>1, <3>2, <3>3, <3>4, <3>5
  <2> HIDE DEF k
  <2>5. QED
    BY <2>1, <2>2, <2>4, LedgerPut
<1>7. CASE InsertsHistory(w)
  <2> DEFINE k == HistoryKey(my[w].cd, my[w].c, my[w].id)
             row == [d |-> my[w].d, amount |-> my[w].amount]
  <2>1. /\ at[w] = "insert_history"
        /\ Does(w, {k}, With(Sees(w), [x \in {k} |-> row]), "commit")
    BY <1>7, InsertsHistoryDoes
  <2>2. /\ at'[w] = "commit" /\ open[w] /\ Works(w) /\ Sees(w) = view[w]
        /\ my[w].amount \in Nat /\ k[1] = "history" /\ k[5] = my[w].id
    BY <1>1, <2>1, KeyColumns DEF Does, PaymentPlaces
  <2>3. k \notin DOMAIN view[w]
    <3>1. k \notin InsertedBy(w)
      <4>1. IsPayment(w)
        BY <2>1, PaymentKnows DEF PaymentPlaces
      <4> HIDE DEF k
      <4>2. QED
        BY <2>1, <4>1, InsertsMember DEF InsertedBy, IsPayment
    <3>2. QED
      BY <2>2, <3>1 DEF OrderIInv, WorkShape
  <2>4. ASSUME NEW a \in Accounts
        PROVE  Value(a, k, row) - Worth(a, k, view[w])
                 = Offset(a, my'[w], at'[w]) - Offset(a, my[w], at[w])
    <3> DEFINE Hit == \/ a[1] = "warehouse"
                      \/ a[1] = "district" /\ my[w].d = a[2]
                      \/ a[1] \in {"paid", "payments"} /\ my[w].cd = a[2] /\ my[w].c = a[3]
    <3>1. row.d = my[w].d /\ row.amount = my[w].amount
      OBVIOUS
    <3> HIDE DEF row
    <3>2. Value(a, k, row) = IF Hit THEN IF a[1] = "payments" THEN -1 ELSE -my[w].amount ELSE 0
      BY <3>1, HistoryValue
    <3>3. Worth(a, k, view[w]) = 0
      BY <2>3 DEF Worth
    <3>4. Offset(a, my[w], at[w]) =
            IF Hit THEN IF a[1] = "payments" THEN 1 ELSE my[w].amount ELSE 0
      BY <2>1, AccountShape DEF Offset, PaymentPlaces
    <3>5. Offset(a, my'[w], at'[w]) = 0
      BY <2>2 DEF Offset, PaymentPlaces
    <3> HIDE DEF Hit, k
    <3>6. QED
      BY <2>2, <3>2, <3>3, <3>4, <3>5
  <2> HIDE DEF k, row
  <2>5. QED
    BY <2>1, <2>2, <2>4, LedgerPut
<1>8. QED
  BY <1>3, <1>4, <1>5, <1>6, <1>7

---------------------------------------------------------------------------
(* Steps that change the committed rows, or end a transaction. *)

\* Rows change the balance by what they are ahead of the old ones.
LEMMA BalanceMoves ==
  ASSUME NEW a \in Accounts, NEW old, Good(old), NEW new, Good(new),
         NEW K, IsFiniteSet(K), Same(K, old, new)
  PROVE  Balance(a, new) = Balance(a, old) + Ahead(a, K, new, old)
<1> DEFINE S == DOMAIN old
           f == [k \in S |-> Worth(a, k, old)]
           g == [k \in S \cup K |-> Worth(a, k, old)]
           e == [k \in S \cup K |-> Worth(a, k, new)]
           n == [k \in DOMAIN new |-> Worth(a, k, new)]
           h == [k \in K |-> Worth(a, k, new) - Worth(a, k, old)]
<1>1. \A k : Worth(a, k, old) \in Int /\ Worth(a, k, new) \in Int
  BY WorthType
<1>2. IsFiniteSet(S) /\ IsFiniteSet(S \cup K) /\ DOMAIN new \in SUBSET (S \cup K)
  <2>1. IsFiniteSet(S)
    BY DEF Good
  <2>2. DOMAIN new \in SUBSET (S \cup K)
    BY DEF Same
  <2>3. QED
    BY <2>1, <2>2, FS_Union
<1>3. /\ \A k \in S : f[k] = Worth(a, k, old)
      /\ \A k \in S \cup K : g[k] = Worth(a, k, old) /\ e[k] = Worth(a, k, new)
      /\ \A k \in DOMAIN new : n[k] = Worth(a, k, new)
      /\ \A k \in K : h[k] = Worth(a, k, new) - Worth(a, k, old)
  OBVIOUS
<1>4. /\ Balance(a, old) = SumOver(f, S) /\ Balance(a, new) = SumOver(n, DOMAIN new)
      /\ Ahead(a, K, new, old) = SumOver(h, K)
  BY DEF Balance, Ahead
<1>5. /\ \A k \in K \ S : Worth(a, k, old) = 0
      /\ \A k \in S \ K : Worth(a, k, new) = Worth(a, k, old)
      /\ \A k : k \notin DOMAIN new => Worth(a, k, new) = 0
  BY DEF Same, Worth
<1> HIDE DEF f, g, e, n, h, S
<1>6. SumOver(f, S) = SumOver(g, S)
  <2>1. \A k \in S : f[k] = g[k]
    BY <1>3
  <2>2. QED
    BY <1>2, <2>1, SumSame
<1>7. SumOver(e, S \cup K) = SumOver(g, S) + SumOver(h, K)
  <2>1. \A k \in S \cup K : g[k] \in Int /\ e[k] \in Int
    BY <1>1, <1>3
  <2>2. \A k \in K \ S : g[k] = 0
    BY <1>3, <1>5
  <2>3. \A k \in S \ K : e[k] = g[k]
    BY <1>3, <1>5
  <2>4. \A k \in K : h[k] = e[k] - g[k]
    BY <1>3
  <2>5. QED
    BY <1>2, <2>1, <2>2, <2>3, <2>4, SumMoves
<1>8. SumOver(e, S \cup K) = SumOver(e, DOMAIN new)
  <2>1. \A k \in S \cup K : e[k] \in Int
    BY <1>1, <1>3
  <2>2. \A k \in (S \cup K) \ DOMAIN new : e[k] = 0
    BY <1>3, <1>5
  <2>3. QED
    BY <1>2, <2>1, <2>2, SumWithin
<1>9. SumOver(e, DOMAIN new) = SumOver(n, DOMAIN new)
  <2>1. \A k \in DOMAIN new : e[k] = n[k]
    BY <1>2, <1>3
  <2>2. IsFiniteSet(DOMAIN new)
    BY DEF Good
  <2>3. QED
    BY <2>1, <2>2, SumSame
<1>10. QED
  BY <1>4, <1>6, <1>7, <1>8, <1>9

\* Others may commit what a transaction has not written.
LEMMA AheadSame ==
  ASSUME NEW a \in Accounts, NEW S, IsFiniteSet(S), NEW K, K \cap S = {},
         NEW old, NEW db2, Same(K, old, db2), NEW new
  PROVE  Ahead(a, S, new, db2) = Ahead(a, S, new, old)
<1> DEFINE f == [k \in S |-> Worth(a, k, new) - Worth(a, k, db2)]
           e == [k \in S |-> Worth(a, k, new) - Worth(a, k, old)]
<1>1. \A k \in S : f[k] = e[k]
  <2>1. \A k \in S : Worth(a, k, db2) = Worth(a, k, old)
    BY DEF Same, Worth
  <2>2. QED
    BY <2>1
<1>2. Ahead(a, S, new, db2) = SumOver(f, S) /\ Ahead(a, S, new, old) = SumOver(e, S)
  BY DEF Ahead
<1> HIDE DEF f, e
<1>3. QED
  BY <1>1, <1>2, SumSame

LEMMA LedgerElse ==
  ASSUME RowIInv, LedgerIInv, NEW w \in Workers, Steps(w),
         NEW K, Same(K, db, db'),
         \A v \in Workers \ {w} :
           /\ open'[v] = open[v] /\ view'[v] = view[v] /\ wrote'[v] = wrote[v]
           /\ open[v] => K \cap wrote[v] = {},
         open'[w] /\ Works(w)' =>
           \A a \in Accounts : Ahead(a, wrote'[w], view'[w], db') = Offset(a, my'[w], at'[w]),
         \A a \in Accounts : Balance(a, db') = 0
  PROVE  LedgerIInv'
<1>1. \A v \in Workers \ {w} : at'[v] = at[v] /\ my'[v] = my[v]
  BY DEF Steps
<1>2. ASSUME NEW a \in Accounts, NEW v \in Workers, open'[v], Works(v)'
      PROVE  Ahead(a, wrote'[v], view'[v], db') = Offset(a, my'[v], at'[v])
  <2>1. CASE v = w
    BY <1>2, <2>1
  <2>2. CASE v # w
    <3>1. open[v] /\ Works(v) /\ K \cap wrote[v] = {} /\ IsFiniteSet(wrote[v])
      BY <1>1, <1>2, <2>2 DEF Works, RowIInv, RowShape
    <3>2. Ahead(a, wrote[v], view[v], db) = Offset(a, my[v], at[v])
      BY <3>1 DEF LedgerIInv
    <3>3. Ahead(a, wrote[v], view[v], db') = Ahead(a, wrote[v], view[v], db)
      BY <3>1, AheadSame
    <3>4. QED
      BY <1>1, <2>2, <3>2, <3>3
  <2>3. QED
    BY <2>1, <2>2
<1>3. QED
  BY <1>2 DEF LedgerIInv

\* The committed rows stay as they are.
LEMMA LedgerStays ==
  ASSUME RowIInv, LedgerIInv, NEW w \in Workers, Steps(w), db' = db,
         \A v \in Workers \ {w} :
           open'[v] = open[v] /\ view'[v] = view[v] /\ wrote'[v] = wrote[v],
         ~open'[w] \/ ~Works(w)'
  PROVE  LedgerIInv'
<1>1. Same({}, db, db')
  BY DEF Same
<1>2. \A a \in Accounts : Balance(a, db') = 0
  BY DEF LedgerIInv
<1>3. QED
  BY <1>1, <1>2, LedgerElse

LEMMA DeliveryStays ==
  ASSUME BookIInv, RowIInv, LedgerIInv, RowIInv', NEW w \in Workers, at[w] \in DeliveryPlaces,
         NEW K, NEW rows, NEW place, Does(w, K, rows, place), Mild(K, Sees(w), rows),
         place \in DeliveryPlaces \cup {"commit"}
  PROVE  LedgerIInv'
<1>1. Writes(w, K, rows) /\ Steps(w) /\ at'[w] = place /\ Works(w)
  BY DEF Does, Works, DeliveryPlaces
<1>2. CASE open[w]
  <2>1. \A a \in Accounts : Offset(a, my'[w], at'[w]) = Offset(a, my[w], at[w])
    BY <1>1 DEF Offset, PaymentPlaces, DeliveryPlaces
  <2>2. Mild(K, view[w], rows)
    BY <1>2 DEF Sees
  <2>3. QED
    BY <1>1, <1>2, <2>1, <2>2, LedgerMild
<1>3. CASE ~open[w]
  <2>1. /\ open' = open /\ db' = rows
        /\ \A v \in Workers \ {w} : view'[v] = view[v] /\ wrote'[v] = wrote[v]
        /\ \A v \in Workers \ {w} : open[v] => K \cap wrote[v] = {}
    BY <1>1, <1>3, WriteSplits
  <2>2. Mild(K, db, rows) /\ Good(db)
    BY <1>3 DEF Sees, RowIInv
  <2>3. Good(rows)
    BY <2>1 DEF RowIInv, Good, Typed
  <2>4. Same(K, db, rows) /\ IsFiniteSet(K)
    <3>1. K \subseteq DOMAIN db
      BY <2>2 DEF Mild
    <3>2. QED
      BY <2>2, <3>1, FS_Subset DEF Mild, Good
  <2>5. ASSUME NEW a \in Accounts
        PROVE  Balance(a, db') = 0
    <3>1. Balance(a, rows) = Balance(a, db) + Ahead(a, K, rows, db)
      BY <2>2, <2>3, <2>4, BalanceMoves
    <3>2. Ahead(a, K, rows, db) = 0
      BY <2>2, MildAhead
    <3>3. Balance(a, db) = 0
      BY DEF LedgerIInv
    <3>4. QED
      BY <2>1, <3>1, <3>2, <3>3
  <2>6. QED
    BY <1>1, <1>3, <2>1, <2>4, <2>5, LedgerElse
<1>4. QED
  BY <1>2, <1>3

LEMMA DeliveryLedger ==
  ASSUME BookIInv, RowIInv, LedgerIInv, RowIInv', NEW w \in Workers,
         \/ FindsOldest(w) \/ DeletesNewOrder(w) \/ UpdatesOrder(w) \/ UpdatesLines(w)
         \/ ReadsOrder(w) \/ SumsAmounts(w) \/ CreditsCustomer(w)
  PROVE  LedgerIInv'
<1>1. PICK K, rows, place, F : /\ Does(w, K, rows, place) /\ Mild(K, Sees(w), rows)
                               /\ place \in DeliveryPlaces \cup {"commit"}
  BY DeliveryIsMild
<1>2. at[w] \in DeliveryPlaces
  BY DeliveryIsMild
<1>3. QED
  BY <1>1, <1>2, DeliveryStays

LEMMA LedgerCommits ==
  ASSUME BookIInv, RowIInv, LedgerIInv, NEW w \in Workers, CommitsWork(w), at[w] = "commit",
         Steps(w)
  PROVE  LedgerIInv'
<1>1. /\ ~open'[w] /\ open[w] /\ db' = Merged(w) /\ Works(w)
      /\ \A v \in Workers \ {w} :
           open'[v] = open[v] /\ view'[v] = view[v] /\ wrote'[v] = wrote[v]
  BY LeavesDoes DEF Works
<1>2. /\ Good(db) /\ Good(view[w]) /\ IsFiniteSet(wrote[w])
      /\ \A v \in Workers \ {w} : open[v] => wrote[w] \cap wrote[v] = {}
  BY <1>1 DEF RowIInv, RowShape, BookIInv, BookShape, IsSnapshot
<1>3. Good(Merged(w)) /\ Same(wrote[w], db, Merged(w))
  BY <1>2, GoodMerged, MergedRows DEF Same
<1>4. ASSUME NEW a \in Accounts
      PROVE  Balance(a, Merged(w)) = 0
  <2> DEFINE f == [k \in wrote[w] |-> Worth(a, k, Merged(w)) - Worth(a, k, db)]
             e == [k \in wrote[w] |-> Worth(a, k, view[w]) - Worth(a, k, db)]
  <2>1. \A k \in wrote[w] : f[k] = e[k]
    <3>1. \A k \in wrote[w] : Worth(a, k, Merged(w)) = Worth(a, k, view[w])
      BY MergedRows DEF Worth
    <3>2. QED
      BY <3>1
  <2>2. /\ Ahead(a, wrote[w], Merged(w), db) = SumOver(f, wrote[w])
        /\ Ahead(a, wrote[w], view[w], db) = SumOver(e, wrote[w])
    BY DEF Ahead
  <2> HIDE DEF f, e
  <2>3. SumOver(f, wrote[w]) = SumOver(e, wrote[w])
    BY <1>2, <2>1, SumSame
  <2>4. Ahead(a, wrote[w], view[w], db) = 0
    <3>1. Offset(a, my[w], at[w]) = 0
      BY DEF Offset, PaymentPlaces
    <3>2. QED
      BY <1>1, <3>1 DEF LedgerIInv
  <2>5. Balance(a, Merged(w)) = Balance(a, db) + Ahead(a, wrote[w], Merged(w), db)
    BY <1>2, <1>3, BalanceMoves
  <2>6. Balance(a, db) = 0
    BY DEF LedgerIInv
  <2>7. QED
    BY <2>2, <2>3, <2>4, <2>5, <2>6
<1>5. QED
  BY <1>1, <1>2, <1>3, <1>4, LedgerElse

LEMMA EndLedger ==
  ASSUME BookIInv, RowIInv, LedgerIInv, RowIInv', NEW w \in Workers,
         SkipsDistrict(w) \/ Commits(w) \/ Refused(w) \/ RollsBack(w)
  PROVE  LedgerIInv'
<1>1. ASSUME Reads
      PROVE  /\ open' = open /\ view' = view /\ wrote' = wrote /\ db' = db
  BY <1>1 DEF Reads, serverVars
<1>2. CASE SkipsDistrict(w)
  <2>1. at[w] = "find_oldest" /\ NextDistrict(w) /\ attempts' = attempts
    BY <1>2 DEF SkipsDistrict
  <2>2. my[w].d \in Districts
    BY <2>1, DeliveryKnows DEF DeliveryPlaces
  <2>3. /\ Steps(w)
        /\ at'[w] = IF my[w].d < NumDistricts THEN "find_oldest" ELSE "commit"
    BY <2>1, <2>2, MyShape, NextDistrictDoes
  <2>4. CASE Reads /\ torn' = torn
    <3> DEFINE place == IF my[w].d < NumDistricts THEN "find_oldest" ELSE "commit"
    <3>1. Does(w, {}, Sees(w), place)
      BY <2>1, <2>3, <2>4, ReadsAsWrites DEF Does
    <3>2. place \in DeliveryPlaces \cup {"commit"}
      BY DEF DeliveryPlaces
    <3> HIDE DEF place
    <3>3. QED
      BY <2>1, <3>1, <3>2, MildRead, DeliveryStays DEF DeliveryPlaces
  <2>5. CASE Ends(w)
    BY <2>3, <2>5, LeavesDoes, LedgerStays
  <2>6. QED
    BY <1>2, <2>4, <2>5 DEF SkipsDistrict
<1>3. CASE Commits(w)
  <2>1. /\ at[w] = "commit" /\ Idles(w)
        /\ Reads \/ CommitsWork(w)
    BY <1>3 DEF Commits, At
  <2>2. Steps(w) /\ ~Works(w)'
    BY <2>1, MyShape, Idle DEF Works
  <2>3. CASE Reads
    BY <1>1, <2>2, <2>3, LedgerStays
  <2>4. CASE CommitsWork(w)
    BY <2>1, <2>2, <2>4, LedgerCommits
  <2>5. QED
    BY <2>1, <2>3, <2>4
<1>4. CASE Refused(w)
  <2>1. /\ at[w] # "idle" /\ KeepsAll /\ GoesTo(w, "rollback")
        /\ Reads \/ Ends(w) \/ (at[w] = "commit" /\ CommitsWork(w))
    BY <1>4 DEF Refused
  <2>2. Steps(w) /\ ~Works(w)'
    BY <2>1, MyShape, Keeps DEF Works
  <2>3. CASE Reads
    BY <1>1, <2>2, <2>3, LedgerStays
  <2>4. CASE Ends(w)
    BY <2>2, <2>4, LeavesDoes, LedgerStays
  <2>5. CASE at[w] = "commit" /\ CommitsWork(w)
    BY <2>2, <2>5, LedgerCommits
  <2>6. QED
    BY <2>1, <2>3, <2>4, <2>5
<1>5. CASE RollsBack(w)
  <2>1. /\ at[w] = "rollback" /\ Ends(w) /\ Idles(w)
    BY <1>5 DEF RollsBack, At
  <2>2. Steps(w)
    BY <2>1, MyShape, Idle
  <2>3. QED
    BY <2>1, <2>2, LeavesDoes, LedgerStays
<1>6. QED
  BY <1>2, <1>3, <1>4, <1>5

LEMMA BeginsLedger ==
  ASSUME BookIInv, RowIInv, LedgerIInv, NEW w \in Workers,
         BeginsNewOrder(w) \/ BeginsPayment(w) \/ BeginsDelivery(w)
  PROVE  LedgerIInv'
<1>1. ASSUME NEW draw, NEW place, Starts(w, draw, place),
             place \in {"read_district", "update_warehouse", "find_oldest"}
      PROVE  LedgerIInv'
  <2>1. /\ Steps(w) /\ at'[w] = place /\ wrote'[w] = {} /\ db' = db
        /\ \A v \in Workers \ {w} :
             open'[v] = open[v] /\ view'[v] = view[v] /\ wrote'[v] = wrote[v]
    BY <1>1, BeginsDoes
  <2>2. Same({}, db, db') /\ \A a \in Accounts : Balance(a, db') = 0
    BY <2>1 DEF Same, LedgerIInv
  <2>3. ASSUME NEW a \in Accounts
        PROVE  Ahead(a, wrote'[w], view'[w], db') = Offset(a, my'[w], at'[w])
    <3>1. Ahead(a, {}, view'[w], db') = 0
      BY SumOfNone DEF Ahead
    <3>2. Offset(a, my'[w], at'[w]) = 0
      BY <1>1, <2>1 DEF Offset, PaymentPlaces
    <3>3. QED
      BY <2>1, <3>1, <3>2
  <2>4. QED
    BY <2>1, <2>2, <2>3, LedgerElse
<1>2. QED
  BY <1>1 DEF BeginsNewOrder, BeginsPayment, BeginsDelivery

LEMMA LedgerStep ==
  BookIInv /\ RowIInv /\ OrderIInv /\ LedgerIInv /\ [Next]_vars => LedgerIInv'
<1> SUFFICES ASSUME BookIInv, RowIInv, OrderIInv, LedgerIInv, [Next]_vars
             PROVE  LedgerIInv'
  OBVIOUS
<1>1. RowIInv'
  BY RowStep
<1>2. ASSUME NEW w \in Workers, Step(w)
      PROVE  LedgerIInv'
  <2>1. CASE BeginsNewOrder(w) \/ BeginsPayment(w) \/ BeginsDelivery(w)
    BY <2>1, BeginsLedger
  <2>2. CASE \/ ReadsDistrict(w) \/ TakesId(w) \/ InsertsOrder(w) \/ InsertsNewOrder(w)
             \/ ReadsStock(w) \/ UpdatesStock(w) \/ InsertsLine(w)
    BY <1>1, <2>2, NewOrderLedger
  <2>3. CASE \/ UpdatesWarehouse(w) \/ UpdatesDistrict(w) \/ ReadsCustomer(w)
             \/ UpdatesCustomer(w) \/ InsertsHistory(w)
    BY <1>1, <2>3, PaymentLedger
  <2>4. CASE \/ FindsOldest(w) \/ DeletesNewOrder(w) \/ UpdatesOrder(w) \/ UpdatesLines(w)
             \/ ReadsOrder(w) \/ SumsAmounts(w) \/ CreditsCustomer(w)
    BY <1>1, <2>4, DeliveryLedger
  <2>5. CASE SkipsDistrict(w) \/ Commits(w) \/ Refused(w) \/ RollsBack(w)
    BY <1>1, <2>5, EndLedger
  <2>6. QED
    BY <1>2, <2>1, <2>2, <2>3, <2>4, <2>5 DEF Step
<1>3. CASE UNCHANGED vars
  <2>1. /\ db' = db /\ open' = open /\ view' = view /\ wrote' = wrote
        /\ at' = at /\ my' = my
    BY <1>3 DEF vars, serverVars
  <2>2. QED
    BY <2>1 DEF LedgerIInv, Works
<1>4. CASE Stops
  BY <1>3, <1>4 DEF Stops
<1>5. QED
  BY <1>2, <1>3, <1>4 DEF Next

LEMMA LedgerInit == Init => LedgerIInv
<1> SUFFICES ASSUME Init
             PROVE  LedgerIInv
  OBVIOUS
<1>1. db = InitRows /\ \A w \in Workers : ~open[w]
  BY DEF Init
<1>2. DOMAIN InitRows = InitKeys /\ \A k \in InitKeys : InitRows[k] = InitRow(k)
  BY DEF InitRows
<1>3. IsFiniteSet(InitKeys)
  BY <1>1, <1>2, RowInit DEF RowIInv, Good
<1>4. ASSUME NEW a \in Accounts, NEW k \in InitKeys
      PROVE  Value(a, k, InitRow(k)) = 0
  <2>1. k[5] = 0 /\ k[1] # "history"
    BY InitColumns
  <2>2. ~Entry(a, k, InitRow(k))
    BY <2>1 DEF Entry
  <2>3. ASSUME k = Holder(a)
        PROVE  Total(a, InitRow(k)) = 0
    <3>1. CASE k[1] = "stock"
      BY <2>3, <3>1, AccountRows DEF Total, InitRow
    <3>2. CASE k[1] = "warehouse"
      BY <2>3, <3>2, AccountRows DEF Total, InitRow
    <3>3. CASE k[1] = "district"
      BY <2>3, <3>3, AccountRows DEF Total, InitRow
    <3>4. CASE k[1] = "customer"
      BY <2>3, <3>4, AccountRows DEF Total, InitRow, NewCustomer
    <3>5. QED
      BY <2>3, <3>1, <3>2, <3>3, <3>4, AccountRows
  <2>4. QED
    BY <2>2, <2>3 DEF Value
<1>5. ASSUME NEW a \in Accounts
      PROVE  Balance(a, InitRows) = 0
  <2> DEFINE f == [k \in InitKeys |-> Worth(a, k, InitRows)]
  <2>1. \A k \in InitKeys : f[k] = 0
    BY <1>2, <1>4 DEF Worth
  <2>2. Balance(a, InitRows) = SumOver(f, InitKeys)
    BY <1>2 DEF Balance
  <2> HIDE DEF f
  <2>3. QED
    BY <1>3, <2>1, <2>2, SumOfZeros
<1>6. QED
  BY <1>1, <1>5 DEF LedgerIInv

LEMMA LedgerInvariant == Spec => [](BookIInv /\ RowIInv /\ OrderIInv /\ LedgerIInv)
<1>1. Init => BookIInv /\ RowIInv /\ OrderIInv /\ LedgerIInv
  BY BookInit, RowInit, OrderInit, LedgerInit
<1>2. BookIInv /\ RowIInv /\ OrderIInv /\ LedgerIInv /\ [Next]_vars
        => (BookIInv /\ RowIInv /\ OrderIInv /\ LedgerIInv)'
  BY BookStep, RowStep, OrderStep, LedgerStep
<1>3. QED
  BY <1>1, <1>2, PTL DEF Spec

\* An account that is balanced holds the sum, or the number, of its entries.
LEMMA Balanced ==
  ASSUME NEW a \in Accounts, NEW rows, Good(rows), Balance(a, rows) = 0,
         NEW E, E = {k \in DOMAIN rows : Entry(a, k, rows[k])}
  PROVE  /\ a[1] \in {"ordered", "payments"} => Total(a, rows[Holder(a)]) = Cardinality(E)
         /\ a[1] \notin {"ordered", "payments"} =>
              Total(a, rows[Holder(a)]) = SumOfAmounts(rows, E)
<1> DEFINE D == DOMAIN rows
           h == Holder(a)
           f == [k \in D |-> Worth(a, k, rows)]
           g == [k \in E |-> Counted(a, rows[k])]
<1>1. \A k \in D : f[k] \in Int /\ f[k] = Value(a, k, rows[k])
  <2>1. \A k \in D : Worth(a, k, rows) \in Int /\ Worth(a, k, rows) = Value(a, k, rows[k])
    BY WorthType DEF Worth
  <2>2. QED
    BY <2>1
<1>2. Balance(a, rows) = SumOver(f, D)
  BY DEF Balance
<1>3. h \in D /\ h \notin E /\ E \in SUBSET D /\ IsFiniteSet(D)
  <2>1. h \in D /\ IsFiniteSet(D)
    BY AccountShape DEF Good
  <2>2. h \notin E
    BY AccountRows
  <2>3. QED
    BY <2>1, <2>2
<1>4. /\ f[h] = Total(a, rows[h])
      /\ \A k \in E : f[k] = -Counted(a, rows[k]) /\ Counted(a, rows[k]) \in Int
      /\ \A k \in D \ ({h} \cup E) : f[k] = 0
  <2>1. f[h] = Total(a, rows[h])
    BY <1>1, <1>3 DEF Value
  <2>2. ASSUME NEW k \in E
        PROVE  f[k] = -Counted(a, rows[k]) /\ Counted(a, rows[k]) \in Int
    <3>1. k \in D /\ k # h /\ Entry(a, k, rows[k]) /\ Typed(k, rows[k])
      BY <1>3 DEF Good
    <3>2. f[k] = -Counted(a, rows[k])
      BY <1>1, <3>1 DEF Value
    <3>3. Counted(a, rows[k]) \in Int
      BY <3>1 DEF Typed, Entry, Counted
    <3>4. QED
      BY <3>2, <3>3
  <2>3. \A k \in D \ ({h} \cup E) : f[k] = 0
    BY <1>1 DEF Value
  <2>4. QED
    BY <2>1, <2>2, <2>3
<1>5. \A k \in E : g[k] = Counted(a, rows[k])
  OBVIOUS
<1>6. a[1] \in {"ordered", "payments"} => \A k \in E : g[k] = 1
  BY DEF Counted
<1>7. a[1] \notin {"ordered", "payments"} => g = [k \in E |-> rows[k].amount]
  BY DEF Counted
<1>8. IsFiniteSet(E) /\ IsFiniteSet({h})
  BY <1>3, FS_Subset, FS_Singleton
<1> HIDE DEF D, f, g, h
<1>9. SumOver(f, D) = SumOver(f, {h} \cup E)
  <2>1. {h} \cup E \in SUBSET D
    BY <1>3
  <2>2. QED
    BY <1>1, <1>3, <1>4, <2>1, SumWithin
<1>10. SumOver(f, {h} \cup E) = SumOver(f, {h}) + SumOver(f, E)
  <2>1. {h} \cap E = {} /\ \A k \in {h} \cup E : f[k] \in Int
    BY <1>1, <1>3
  <2>2. QED
    BY <1>8, <2>1, SumUnion
<1>11. SumOver(f, {h}) = Total(a, rows[h]) /\ Total(a, rows[h]) \in Int
  BY <1>1, <1>3, <1>4, SumOfOne
<1>12. SumOver(f, E) = -SumOver(g, E) /\ SumOver(g, E) \in Int
  <2>1. \A k \in E : g[k] \in Int /\ f[k] = -g[k]
    BY <1>4, <1>5
  <2>2. QED
    BY <1>8, <2>1, SumCancels, SumType
<1>13. Total(a, rows[h]) = SumOver(g, E)
  <2>1. 0 = Total(a, rows[h]) + (-SumOver(g, E))
    BY <1>2, <1>9, <1>10, <1>11, <1>12
  <2>2. \A t, s \in Int : 0 = t + (-s) => t = s
    OBVIOUS
  <2>3. QED
    BY <1>11, <1>12, <2>1, <2>2
<1>14. a[1] \in {"ordered", "payments"} => SumOver(g, E) = Cardinality(E)
  BY <1>6, <1>8, SumOfOnes
<1>15. a[1] \notin {"ordered", "payments"} => SumOver(g, E) = SumOfAmounts(rows, E)
  BY <1>7, <1>8, AmountsAre
<1>16. QED
  BY <1>13, <1>14, <1>15 DEF h

LEMMA StockBalances == RowIInv /\ LedgerIInv => StockAddsUp
<1> SUFFICES ASSUME RowIInv, LedgerIInv, NEW i \in Items
             PROVE  LET row   == db[StockKey(i)]
                        lines == {l \in DOMAIN db :
                                    l[1] = "order_line" /\ l[5] # 0 /\ db[l].item = i}
                    IN  /\ row.orders = Cardinality(lines)
                        /\ row.ytd = SumOfAmounts(db, lines)
                        /\ (row.quantity + row.ytd - InitStock) % 91 = 0
                        /\ row.quantity \in 10..100
  BY DEF StockAddsUp
<1> DEFINE lines == {l \in DOMAIN db : l[1] = "order_line" /\ l[5] # 0 /\ db[l].item = i}
           Of(kind) == <<kind, i, 0>>
<1>1. Good(db) /\ \A a \in Accounts : Balance(a, db) = 0
  BY DEF RowIInv, LedgerIInv
<1>2. ASSUME NEW kind \in {"taken", "ordered"}
      PROVE  /\ Of(kind) \in Accounts /\ Of(kind)[1] = kind /\ Holder(Of(kind)) = StockKey(i)
             /\ lines = {k \in DOMAIN db : Entry(Of(kind), k, db[k])}
  BY DEF Accounts, Holder, Entry
<1>3. db[StockKey(i)].orders = Cardinality(lines)
  <2> DEFINE a == Of("ordered")
  <2>1. /\ a \in Accounts /\ a[1] = "ordered" /\ Holder(a) = StockKey(i)
        /\ lines = {k \in DOMAIN db : Entry(a, k, db[k])}
    BY <1>2
  <2> HIDE DEF a, lines
  <2>2. Total(a, db[StockKey(i)]) = Cardinality(lines)
    BY <1>1, <2>1, Balanced
  <2>3. QED
    BY <2>1, <2>2 DEF Total
<1>4. db[StockKey(i)].ytd = SumOfAmounts(db, lines)
  <2> DEFINE a == Of("taken")
  <2>1. /\ a \in Accounts /\ a[1] = "taken" /\ Holder(a) = StockKey(i)
        /\ lines = {k \in DOMAIN db : Entry(a, k, db[k])}
    BY <1>2
  <2> HIDE DEF a, lines
  <2>2. Total(a, db[StockKey(i)]) = SumOfAmounts(db, lines)
    BY <1>1, <2>1, Balanced
  <2>3. QED
    BY <2>1, <2>2 DEF Total
<1>5. /\ (db[StockKey(i)].quantity + db[StockKey(i)].ytd - InitStock) % 91 = 0
      /\ db[StockKey(i)].quantity \in 10..100
  <2>1. StockKey(i) \in DOMAIN db
    BY <1>1, FixedKeys DEF Good
  <2>2. StockKey(i)[1] = "stock"
    BY KeyColumns
  <2>3. QED
    BY <1>1, <2>1, <2>2 DEF Good, Typed
<1>6. QED
  BY <1>3, <1>4, <1>5

\* However NewOrders interleave, fail and are repeated, and though they write
\* stock values computed from what they have read, no update of an item's stock
\* is lost or made twice, and the refill keeps the quantity from 10 to 100.
THEOREM StockAddsUpHolds == Spec => []StockAddsUp
BY LedgerInvariant, StockBalances, PTL

LEMMA IncomeBalances == RowIInv /\ LedgerIInv => IncomeAddsUp
<1> SUFFICES ASSUME RowIInv, LedgerIInv
             PROVE  IncomeAddsUp
  OBVIOUS
<1> DEFINE history == {k \in DOMAIN db : k[1] = "history"}
           inDistrict(d) == {k \in history : db[k].d = d}
<1>1. Good(db) /\ \A a \in Accounts : Balance(a, db) = 0
  BY DEF RowIInv, LedgerIInv
<1>2. db[WarehouseKey].ytd = SumOfAmounts(db, history)
  <2> DEFINE a == <<"warehouse", 0, 0>>
  <2>1. /\ a \in Accounts /\ a[1] = "warehouse" /\ Holder(a) = WarehouseKey
        /\ history = {k \in DOMAIN db : Entry(a, k, db[k])}
    BY DEF Accounts, Holder, Entry
  <2> HIDE DEF a, history
  <2>2. Total(a, db[WarehouseKey]) = SumOfAmounts(db, history)
    BY <1>1, <2>1, Balanced
  <2>3. QED
    BY <2>1, <2>2 DEF Total
<1>3. ASSUME NEW d \in Districts
      PROVE  db[DistrictKey(d)].ytd = SumOfAmounts(db, inDistrict(d))
  <2> DEFINE a == <<"district", d, 0>>
             E == inDistrict(d)
  <2>1. /\ a \in Accounts /\ a[1] = "district" /\ Holder(a) = DistrictKey(d)
        /\ E = {k \in DOMAIN db : Entry(a, k, db[k])}
    BY DEF Accounts, Holder, Entry
  <2> HIDE DEF a, E
  <2>2. Total(a, db[DistrictKey(d)]) = SumOfAmounts(db, E)
    BY <1>1, <2>1, Balanced
  <2>3. db[DistrictKey(d)].ytd = SumOfAmounts(db, E)
    BY <2>1, <2>2 DEF Total
  <2>4. QED
    BY <2>3 DEF E
<1>4. QED
  BY <1>2, <1>3 DEF IncomeAddsUp

\* However Payments interleave, fail and are repeated, the sums of the warehouse
\* and of every district are those of what customers paid.
THEOREM IncomeAddsUpHolds == Spec => []IncomeAddsUp
BY LedgerInvariant, IncomeBalances, PTL

\* The part of BalancesAddUp that is about Payment.
CustomersPaid ==
  \A d \in Districts, c \in Customers :
    LET row == db[CustomerKey(d, c)]
    IN  /\ row.ytd = SumOfAmounts(db, PaymentsOf(d, c))
        /\ row.payments = Cardinality(PaymentsOf(d, c))

LEMMA CustomerBalances == RowIInv /\ LedgerIInv => CustomersPaid
<1> SUFFICES ASSUME RowIInv, LedgerIInv, NEW d \in Districts, NEW c \in Customers
             PROVE  /\ db[CustomerKey(d, c)].ytd = SumOfAmounts(db, PaymentsOf(d, c))
                    /\ db[CustomerKey(d, c)].payments = Cardinality(PaymentsOf(d, c))
  BY DEF CustomersPaid
<1> DEFINE E == PaymentsOf(d, c)
           Of(kind) == <<kind, d, c>>
<1>1. Good(db) /\ \A a \in Accounts : Balance(a, db) = 0
  BY DEF RowIInv, LedgerIInv
<1>2. ASSUME NEW kind \in {"paid", "payments"}
      PROVE  /\ Of(kind) \in Accounts /\ Of(kind)[1] = kind
             /\ Holder(Of(kind)) = CustomerKey(d, c)
             /\ E = {k \in DOMAIN db : Entry(Of(kind), k, db[k])}
  BY DEF Accounts, Holder, Entry, PaymentsOf, OfOrder
<1>3. db[CustomerKey(d, c)].payments = Cardinality(E)
  <2> DEFINE a == Of("payments")
  <2>1. /\ a \in Accounts /\ a[1] = "payments" /\ Holder(a) = CustomerKey(d, c)
        /\ E = {k \in DOMAIN db : Entry(a, k, db[k])}
    BY <1>2
  <2> HIDE DEF a, E
  <2>2. Total(a, db[CustomerKey(d, c)]) = Cardinality(E)
    BY <1>1, <2>1, Balanced
  <2>3. QED
    BY <2>1, <2>2 DEF Total
<1>4. db[CustomerKey(d, c)].ytd = SumOfAmounts(db, E)
  <2> DEFINE a == Of("paid")
  <2>1. /\ a \in Accounts /\ a[1] = "paid" /\ Holder(a) = CustomerKey(d, c)
        /\ E = {k \in DOMAIN db : Entry(a, k, db[k])}
    BY <1>2
  <2> HIDE DEF a, E
  <2>2. Total(a, db[CustomerKey(d, c)]) = SumOfAmounts(db, E)
    BY <1>1, <2>1, Balanced
  <2>3. QED
    BY <2>1, <2>2 DEF Total
<1>5. QED
  BY <1>3, <1>4

\* What a customer paid, and how often, is what history says, though Payment
\* writes values computed from what it has read and Delivery updates the same
\* row: no payment is lost or booked twice.
THEOREM CustomersPaidHolds == Spec => []CustomersPaid
BY LedgerInvariant, CustomerBalances, PTL

---------------------------------------------------------------------------
(* Deliveries.  A transaction that has deleted a row of new_orders has the  *)
(* oldest order of the district, and marks all rows of this one; that the   *)
(* order is still the oldest when it commits is what the server is for.     *)
(* None of this is claimed once a Delivery went on outside of its           *)
(* transaction (`torn`).                                                    *)

OrderTables == {"orders", "new_orders", "order_line"}

In(k, table, d) == k[1] = table /\ k[2] = d

Waits(rows, d, o) == \E k \in DOMAIN rows : In(k, "new_orders", d) /\ k[3] = o

\* OldestDelivered, of any rows.
Served(rows, d) ==
  /\ \A k, l \in DOMAIN rows :
       In(k, "new_orders", d) /\ In(l, "orders", d) /\ l[3] > k[3] => Waits(rows, d, l[3])
  /\ \A k \in DOMAIN rows : In(k, "orders", d) =>
       (Waits(rows, d, k[3]) <=> rows[k].carrier < 1)
  /\ \A l \in DOMAIN rows : In(l, "order_line", d) =>
       (Waits(rows, d, l[3]) <=> ~rows[l].dated)
  /\ \A k, l \in DOMAIN rows :
       In(k, "new_orders", d) /\ In(l, "new_orders", d) /\ k[3] = l[3] => k = l

\* The waiting orders that the transaction of w delivers.
Takes(w, d) == {t \in wrote[w] : In(t, "new_orders", d) /\ t \notin DOMAIN view[w]}

\* The Delivery of w is at one of the statements in `places` for district d.
Busy(w, d, places) == at[w] \in places /\ my[w].d = d

\* It delivers the oldest one, and updates all of its rows, once it is past
\* these statements, and no other rows.
Took(w, d) ==
  /\ \A t \in Takes(w, d) :
       /\ \A k \in DOMAIN db : In(k, "new_orders", d) => k[3] >= t[3]
       /\ ~Busy(w, d, {"update_order"}) =>
            \A k \in DOMAIN db : In(k, "orders", d) /\ k[3] = t[3] => k \in wrote[w]
       /\ ~Busy(w, d, {"update_order", "update_lines"}) =>
            \A k \in DOMAIN db : In(k, "order_line", d) /\ k[3] = t[3] => k \in wrote[w]
  /\ \A k \in wrote[w] : k \in DOMAIN db /\ k \in DOMAIN view[w] =>
       /\ In(k, "orders", d) => view[w][k].carrier = 1 /\ \E t \in Takes(w, d) : t[3] = k[3]
       /\ In(k, "order_line", d) => view[w][k].dated /\ \E t \in Takes(w, d) : t[3] = k[3]
       /\ ~In(k, "new_orders", d)

\* Orders and their lines stay.
Kept(old, new) ==
  \A k \in DOMAIN old : k[1] \in {"orders", "order_line"} =>
    k \in DOMAIN new /\ SameOrder(k, old[k], new[k])

Untouched(w, d) == \A k \in wrote[w] : k[1] \in OrderTables => k[2] # d

\* What a Delivery sees: orders that are all there, of which others have since
\* committed only newer ones; and none of the districts to come is touched.
Sight(w) ==
  /\ Kept(view[w], db)
  /\ Whole(view[w])
  /\ \A d \in Districts :
       /\ d > my[w].d \/ Busy(w, d, {"find_oldest", "delete_new_order"}) => Untouched(w, d)
       /\ \A j \in DOMAIN view[w] : In(j, "new_orders", d) =>
            /\ j[3] < NextId(db, d)
            /\ \A k \in DOMAIN db :
                 In(k, "new_orders", d) /\ k \notin DOMAIN view[w] \cup wrote[w] => j[3] < k[3]

\* What it knows of the order it is at.
Target(w) ==
  /\ at[w] = "delete_new_order" =>
       /\ Waits(view[w], my[w].d, my[w].o)
       /\ \A k \in DOMAIN view[w] : In(k, "new_orders", my[w].d) => k[3] >= my[w].o
  /\ at[w] \in {"update_order", "update_lines"} =>
       /\ \E t \in Takes(w, my[w].d) : t[3] = my[w].o
       /\ \E k \in DOMAIN view[w] : In(k, "orders", my[w].d) /\ k[3] = my[w].o

Serves(w) ==
  /\ open[w]
  /\ \A d \in Districts : Took(w, d)
  /\ at[w] \in DeliveryPlaces => Sight(w) /\ Target(w)

ServeIInv ==
  ~torn =>
    /\ \A d \in Districts : Served(db, d)
    /\ \A w \in Workers : Works(w) => Serves(w)

\* The committed rows stay, and those that w sees or has written go on to serve.
LEMMA ServeMoves ==
  ASSUME ServeIInv, NEW w \in Workers, Steps(w), torn' = torn \/ torn', db' = db,
         \A v \in Workers \ {w} :
           open'[v] = open[v] /\ view'[v] = view[v] /\ wrote'[v] = wrote[v],
         ~torn /\ ~torn' /\ Works(w)' => Serves(w)'
  PROVE  ServeIInv'
<1> SUFFICES ASSUME ~torn'
             PROVE  /\ \A d \in Districts : Served(db', d)
                    /\ \A v \in Workers : Works(v)' => Serves(v)'
  BY DEF ServeIInv
<1>1. ~torn
  OBVIOUS
<1>2. /\ \A d \in Districts : Served(db, d)
      /\ \A v \in Workers : Works(v) => Serves(v)
  BY <1>1 DEF ServeIInv
<1>3. ASSUME NEW v \in Workers \ {w}, Works(v)'
      PROVE  Serves(v)'
  <2>1. at'[v] = at[v] /\ my'[v] = my[v]
    BY DEF Steps
  <2>2. Serves(v)
    BY <1>2, <1>3, <2>1 DEF Works
  <2>3. \A d \in Districts : Takes(v, d)' = Takes(v, d)
    BY <2>1 DEF Takes
  <2>4. \A d \in Districts : Took(v, d)'
    <3>1. ASSUME NEW d \in Districts PROVE Took(v, d)'
      <4>1. Took(v, d) /\ Takes(v, d)' = Takes(v, d)
        BY <2>2, <2>3 DEF Serves
      <4>2. QED
        BY <2>1, <4>1 DEF Took, Busy
    <3>2. QED
      BY <3>1
  <2>5. at'[v] \in DeliveryPlaces => Sight(v)'
    BY <2>1, <2>2 DEF Serves, Sight, Busy, Untouched, Kept, Whole, SameOrder
  <2>6. at'[v] \in DeliveryPlaces => Target(v)'
    BY <2>1, <2>2, <2>3 DEF Serves, Target, Takes, Waits
  <2>7. QED
    BY <2>1, <2>2, <2>4, <2>5, <2>6 DEF Serves
<1>4. QED
  BY <1>2, <1>3

\* An order that a transaction takes is one of the committed orders.
LEMMA TakenOrder ==
  ASSUME BookIInv, OrderIInv, NEW w \in Workers, open[w], Works(w), NEW d \in Districts,
         NEW t \in Takes(w, d)
  PROVE  /\ t \in DOMAIN db /\ In(t, "new_orders", d) /\ t[3] \in 1..(NextId(db, d) - 1)
         /\ \E k \in DOMAIN db : In(k, "orders", d) /\ k[3] = t[3]
<1>1. t \in wrote[w] /\ In(t, "new_orders", d) /\ t \notin DOMAIN view[w]
  BY DEF Takes
<1>2. WorkShape(w) /\ Whole(db) /\ Dense(db, d)
  BY DenseMeans DEF OrderIInv, BookIInv
<1>3. t \in DOMAIN db
  BY <1>1, <1>2 DEF WorkShape
<1>4. PICK k \in DOMAIN db : k[1] = "orders" /\ k[2] = t[2] /\ k[3] = t[3]
  BY <1>1, <1>2, <1>3 DEF Whole, In
<1>5. k[3] \in 1..(NextId(db, d) - 1)
  BY <1>1, <1>2, <1>4 DEF Dense, In
<1>6. QED
  BY <1>1, <1>3, <1>4, <1>5 DEF In

\* A statement that touches no committed order of the district.
LEMMA TookWrite ==
  ASSUME BookIInv, OrderIInv, NEW w \in Workers, open[w], Works(w),
         NEW K, NEW rows, NEW place, Does(w, K, rows, place), Same(K, view[w], rows),
         NEW d \in Districts, Took(w, d),
         \A k \in K : k[1] \in OrderTables /\ k[2] = d => k \notin DOMAIN db /\ k \in DOMAIN rows,
         Busy(w, d, {"update_order", "update_lines"}) =>
           Busy(w, d, {"update_order", "update_lines"})' /\ at'[w] = at[w]
  PROVE  Took(w, d)'
<1>1. /\ open' = open /\ db' = db /\ view'[w] = rows /\ wrote'[w] = wrote[w] \cup K
  BY WriteSplits DEF Does
<1>2. \A t \in Takes(w, d) : t \in DOMAIN db /\ In(t, "new_orders", d)
  BY TakenOrder
<1>3. \A k \in K : ~(k[1] \in OrderTables /\ k[2] = d /\ k \in DOMAIN db)
  OBVIOUS
<1>4. Takes(w, d)' = Takes(w, d)
  <2>1. ASSUME NEW t \in Takes(w, d)
        PROVE  t \in Takes(w, d)'
    <3>1. t \notin K
      BY <1>2, <1>3 DEF In, OrderTables
    <3>2. t \notin DOMAIN rows
      BY <3>1 DEF Same, Takes
    <3>3. QED
      BY <1>1, <3>2 DEF Takes
  <2>2. ASSUME NEW t \in Takes(w, d)'
        PROVE  t \in Takes(w, d)
    <3>1. t \in wrote[w] \cup K /\ In(t, "new_orders", d) /\ t \notin DOMAIN rows
      BY <1>1, <2>2 DEF Takes
    <3>2. t \notin K
      BY <3>1 DEF In, OrderTables
    <3>3. QED
      BY <3>1, <3>2 DEF Takes, Same
  <2>3. QED
    BY <2>1, <2>2
<1>5. Busy(w, d, {"update_order"}) => Busy(w, d, {"update_order"})'
  BY DEF Busy
<1>6. \A k \in wrote'[w] : k \in DOMAIN db' /\ k \in DOMAIN view'[w] /\ k[1] \in OrderTables /\ k[2] = d =>
        k \in wrote[w] /\ k \in DOMAIN view[w] /\ view'[w][k] = view[w][k]
  <2>1. ASSUME NEW k \in wrote[w] \cup K, k \in DOMAIN db, k \in DOMAIN rows, k[1] \in OrderTables, k[2] = d
        PROVE  k \in wrote[w] /\ k \in DOMAIN view[w] /\ rows[k] = view[w][k]
    <3>1. k \notin K
      BY <1>3, <2>1
    <3>2. QED
      BY <2>1, <3>1 DEF Same
  <2>2. QED
    BY <1>1, <2>1
<1>7. \A t \in Takes(w, d)' :
       /\ \A k \in DOMAIN db' : In(k, "new_orders", d) => k[3] >= t[3]
       /\ ~Busy(w, d, {"update_order"})' =>
            \A k \in DOMAIN db' : In(k, "orders", d) /\ k[3] = t[3] => k \in wrote'[w]
       /\ ~Busy(w, d, {"update_order", "update_lines"})' =>
            \A k \in DOMAIN db' : In(k, "order_line", d) /\ k[3] = t[3] => k \in wrote'[w]
  <2>1. wrote[w] \subseteq wrote'[w]
    BY <1>1
  <2>2. QED
    BY <1>1, <1>4, <1>5, <2>1 DEF Took
<1>8. \A k \in wrote'[w] : k \in DOMAIN db' /\ k \in DOMAIN view'[w] =>
       /\ In(k, "orders", d) => view'[w][k].carrier = 1 /\ \E t \in Takes(w, d)' : t[3] = k[3]
       /\ In(k, "order_line", d) => view'[w][k].dated /\ \E t \in Takes(w, d)' : t[3] = k[3]
       /\ ~In(k, "new_orders", d)
  <2> SUFFICES ASSUME NEW k \in wrote'[w], k \in DOMAIN db', k \in DOMAIN view'[w],
                      k[1] \in OrderTables, k[2] = d
               PROVE  /\ k[1] = "orders" => view'[w][k].carrier = 1 /\ \E t \in Takes(w, d)' : t[3] = k[3]
                      /\ k[1] = "order_line" => view'[w][k].dated /\ \E t \in Takes(w, d)' : t[3] = k[3]
                      /\ k[1] # "new_orders"
    BY DEF In, OrderTables
  <2>1. k \in wrote[w] /\ k \in DOMAIN view[w] /\ view'[w][k] = view[w][k] /\ k \in DOMAIN db
    BY <1>1, <1>6
  <2>2. QED
    BY <1>4, <2>1 DEF Took, In
<1>9. QED
  BY <1>7, <1>8 DEF Took

\* A statement of a NewOrder or a Payment.
LEMMA ServeAside ==
  ASSUME BookIInv, RowIInv, OrderIInv, ServeIInv, NEW w \in Workers,
         at[w] \in NewOrderPlaces \cup PaymentPlaces,
         at'[w] \in NewOrderPlaces \cup PaymentPlaces \cup {"commit"},
         NEW K, NEW rows, NEW place, Does(w, K, rows, place), Same(K, view[w], rows),
         \A k \in K : k[1] \in OrderTables => k[5] = my[w].id /\ k \in DOMAIN rows
  PROVE  ServeIInv'
<1> USE DEF NewOrderPlaces, PaymentPlaces, DeliveryPlaces
<1>1. open[w] /\ Works(w) /\ BookShape(w)
  BY DEF RowIInv, RowShape, Works, BookIInv
<1>2. /\ open' = open /\ db' = db /\ Steps(w) /\ torn' = torn
      /\ \A v \in Workers \ {w} : view'[v] = view[v] /\ wrote'[v] = wrote[v]
  BY <1>1, WriteSplits DEF Does
<1>3. \A k \in K : k[1] \in OrderTables => k \notin DOMAIN db /\ k \in DOMAIN rows
  BY <1>1 DEF OrderIInv, IdsShape
<1>4. ASSUME ~torn, ~torn', Works(w)'
      PROVE  Serves(w)'
  <2>1. ASSUME NEW d \in Districts
        PROVE  Took(w, d)'
    <3>1. Took(w, d)
      BY <1>1, <1>4 DEF ServeIInv, Serves
    <3>2. ~Busy(w, d, {"update_order", "update_lines"})
      BY DEF Busy
    <3>3. QED
      BY <1>1, <1>3, <3>1, <3>2, TookWrite
  <2>2. QED
    BY <1>1, <1>2, <2>1 DEF Serves
<1>5. QED
  BY <1>2, <1>4, ServeMoves

\* One row is inserted or updated, or none.
LEMMA SamePut ==
  ASSUME NEW rows, NEW k, NEW row
  PROVE  /\ Same({k}, rows, With(rows, [x \in {k} |-> row]))
         /\ k \in DOMAIN With(rows, [x \in {k} |-> row])
         /\ Same({}, rows, rows)
BY DEF Same, With

LEMMA ServePut ==
  ASSUME BookIInv, RowIInv, OrderIInv, ServeIInv, NEW w \in Workers,
         at[w] \in NewOrderPlaces \cup PaymentPlaces,
         NEW place \in NewOrderPlaces \cup PaymentPlaces \cup {"commit"},
         NEW k, NEW row, Does(w, {k}, With(Sees(w), [x \in {k} |-> row]), place),
         k[1] \in OrderTables => k[5] = my[w].id
  PROVE  ServeIInv'
<1>1. Sees(w) = view[w] /\ at'[w] = place
  BY NewOrderKnows, PaymentKnows DEF Does
<1> DEFINE rows == With(Sees(w), [x \in {k} |-> row])
<1>2. Does(w, {k}, rows, place)
  OBVIOUS
<1>3. Same({k}, Sees(w), rows) /\ k \in DOMAIN rows
  BY SamePut
<1> HIDE DEF rows
<1>4. QED
  BY <1>1, <1>2, <1>3, ServeAside

LEMMA ServeRead ==
  ASSUME BookIInv, RowIInv, OrderIInv, ServeIInv, NEW w \in Workers,
         at[w] \in NewOrderPlaces \cup PaymentPlaces,
         NEW place \in NewOrderPlaces \cup PaymentPlaces \cup {"commit"},
         Does(w, {}, Sees(w), place)
  PROVE  ServeIInv'
<1>1. Sees(w) = view[w] /\ at'[w] = place
  BY NewOrderKnows, PaymentKnows DEF Does
<1>2. Same({}, view[w], view[w])
  BY DEF Same
<1>3. QED
  BY <1>1, <1>2, ServeAside

LEMMA NewOrderServes ==
  ASSUME BookIInv, RowIInv, OrderIInv, ServeIInv, NEW w \in Workers,
         \/ ReadsDistrict(w) \/ TakesId(w) \/ InsertsOrder(w) \/ InsertsNewOrder(w)
         \/ ReadsStock(w) \/ UpdatesStock(w) \/ InsertsLine(w)
  PROVE  ServeIInv'
<1> USE DEF NewOrderPlaces, OrderTables
<1>1. CASE ReadsDistrict(w)
  BY <1>1, ReadsDistrictDoes, ServeRead
<1>2. CASE TakesId(w)
  <2> DEFINE k == DistrictKey(my[w].d)
             row == [Sees(w)[k] EXCEPT !.next = @ + 1]
  <2>1. /\ at[w] = "take_id"
        /\ Does(w, {k}, With(Sees(w), [x \in {k} |-> row]), "insert_order")
    BY <1>2, TakesIdDoes
  <2>2. k[1] = "district"
    BY KeyColumns
  <2> HIDE DEF k, row
  <2>3. QED
    BY <2>1, <2>2, ServePut
<1>3. CASE InsertsOrder(w)
  <2> DEFINE k == OrderKey(my[w].d, my[w].o, my[w].id)
             row == Order(my[w].c, Len(my[w].lines), -1)
  <2>1. /\ at[w] = "insert_order"
        /\ Does(w, {k}, With(Sees(w), [x \in {k} |-> row]), "insert_new_order")
    BY <1>3, InsertsOrderDoes
  <2>2. k[5] = my[w].id
    BY KeyColumns
  <2> HIDE DEF k, row
  <2>3. QED
    BY <2>1, <2>2, ServePut
<1>4. CASE InsertsNewOrder(w)
  <2> DEFINE k == NewOrderKey(my[w].d, my[w].o, my[w].id)
             row == [o_id |-> my[w].o]
  <2>1. /\ at[w] = "insert_new_order"
        /\ Does(w, {k}, With(Sees(w), [x \in {k} |-> row]), "read_stock")
    BY <1>4, InsertsNewOrderDoes
  <2>2. k[5] = my[w].id
    BY KeyColumns
  <2> HIDE DEF k, row
  <2>3. QED
    BY <2>1, <2>2, ServePut
<1>5. CASE ReadsStock(w)
  BY <1>5, ReadsStockDoes, ServeRead
<1>6. CASE UpdatesStock(w)
  <2> DEFINE k == StockKey(Item(w))
             row == Restocked(my[w].seen, Quantity(w))
  <2>1. /\ at[w] = "update_stock"
        /\ Does(w, {k}, With(Sees(w), [x \in {k} |-> row]), "insert_line")
    BY <1>6, UpdatesStockDoes
  <2>2. k[1] = "stock"
    BY KeyColumns
  <2> HIDE DEF k, row
  <2>3. QED
    BY <2>1, <2>2, ServePut
<1>7. CASE InsertsLine(w)
  <2> DEFINE k == LineKey(my[w].d, my[w].o, my[w].n, my[w].id)
             row == Line(Item(w), Quantity(w), FALSE)
             place == IF my[w].n < Len(my[w].lines) THEN "read_stock" ELSE "commit"
  <2>1. /\ at[w] = "insert_line"
        /\ Does(w, {k}, With(Sees(w), [x \in {k} |-> row]), place)
    BY <1>7, InsertsLineDoes
  <2>2. k[5] = my[w].id
    BY KeyColumns
  <2>3. place \in NewOrderPlaces \cup {"commit"}
    OBVIOUS
  <2> HIDE DEF k, row, place
  <2>4. QED
    BY <2>1, <2>2, <2>3, ServePut
<1>8. QED
  BY <1>1, <1>2, <1>3, <1>4, <1>5, <1>6, <1>7

LEMMA PaymentServes ==
  ASSUME BookIInv, RowIInv, OrderIInv, ServeIInv, NEW w \in Workers,
         \/ UpdatesWarehouse(w) \/ UpdatesDistrict(w) \/ ReadsCustomer(w)
         \/ UpdatesCustomer(w) \/ InsertsHistory(w)
  PROVE  ServeIInv'
<1> USE DEF PaymentPlaces, OrderTables
<1>1. CASE UpdatesWarehouse(w)
  <2> DEFINE k == WarehouseKey
             row == [Sees(w)[k] EXCEPT !.ytd = @ + my[w].amount]
  <2>1. /\ at[w] = "update_warehouse"
        /\ Does(w, {k}, With(Sees(w), [x \in {k} |-> row]), "update_district")
    BY <1>1, UpdatesWarehouseDoes
  <2>2. k[1] = "warehouse"
    BY KeyColumns
  <2> HIDE DEF k, row
  <2>3. QED
    BY <2>1, <2>2, ServePut
<1>2. CASE UpdatesDistrict(w)
  <2> DEFINE k == DistrictKey(my[w].d)
             row == [Sees(w)[k] EXCEPT !.ytd = @ + my[w].amount]
  <2>1. /\ at[w] = "update_district"
        /\ Does(w, {k}, With(Sees(w), [x \in {k} |-> row]), "read_customer")
    BY <1>2, UpdatesDistrictDoes
  <2>2. k[1] = "district"
    BY KeyColumns
  <2> HIDE DEF k, row
  <2>3. QED
    BY <2>1, <2>2, ServePut
<1>3. CASE ReadsCustomer(w)
  BY <1>3, ReadsCustomerDoes, ServeRead
<1>4. CASE UpdatesCustomer(w)
  <2> DEFINE k == CustomerKey(my[w].cd, my[w].c)
             row == [Sees(w)[k] EXCEPT !.balance = my[w].seen.balance - my[w].amount,
                                       !.ytd = my[w].seen.ytd + my[w].amount,
                                       !.payments = my[w].seen.payments + 1]
  <2>1. /\ at[w] = "update_customer"
        /\ Does(w, {k}, With(Sees(w), [x \in {k} |-> row]), "insert_history")
    BY <1>4, UpdatesCustomerDoes
  <2>2. k[1] = "customer"
    BY KeyColumns
  <2> HIDE DEF k, row
  <2>3. QED
    BY <2>1, <2>2, ServePut
<1>5. CASE InsertsHistory(w)
  <2> DEFINE k == HistoryKey(my[w].cd, my[w].c, my[w].id)
             row == [d |-> my[w].d, amount |-> my[w].amount]
  <2>1. /\ at[w] = "insert_history"
        /\ Does(w, {k}, With(Sees(w), [x \in {k} |-> row]), "commit")
    BY <1>5, InsertsHistoryDoes
  <2>2. k[1] = "history"
    BY KeyColumns
  <2> HIDE DEF k, row
  <2>3. QED
    BY <2>1, <2>2, ServePut
<1>6. QED
  BY <1>1, <1>2, <1>3, <1>4, <1>5

---------------------------------------------------------------------------
(* The statements of Delivery. *)

LEMMA SightWrite ==
  ASSUME BookIInv, NEW w \in Workers, open[w], Sight(w),
         NEW K, NEW rows, NEW place, Does(w, K, rows, place), Mild(K, view[w], rows),
         \A d \in Districts :
           d > my'[w].d \/ Busy(w, d, {"find_oldest", "delete_new_order"})' =>
             Untouched(w, d) /\ \A k \in K : k[1] \in OrderTables => k[2] # d
  PROVE  Sight(w)'
<1>1. /\ open' = open /\ db' = db /\ view'[w] = rows /\ wrote'[w] = wrote[w] \cup K
  BY WriteSplits DEF Does
<1>2. /\ \A k \in K : k \in DOMAIN view[w] /\ (k \notin DOMAIN rows => k[1] = "new_orders")
      /\ \A k \in DOMAIN rows : k \in DOMAIN view[w] /\ SameOrder(k, view[w][k], rows[k])
      /\ \A k \in DOMAIN view[w] : k \in DOMAIN rows \/ k \in K
  <2>1. \A k : SameOrder(k, view[w][k], view[w][k])
    BY DEF SameOrder
  <2>2. QED
    BY <2>1 DEF Mild, Same, SameOf
<1>3. Kept(view[w], db) /\ Whole(view[w])
  BY DEF Sight
<1>4. Kept(view'[w], db')
  BY <1>1, <1>2, <1>3 DEF Kept, SameOrder
<1>5. Whole(view'[w])
  <2>1. Steady(view[w], rows)
    BY <1>2 DEF Steady
  <2>2. QED
    BY <1>1, <1>3, <2>1, SteadyIsWhole
<1>6. ASSUME NEW d \in Districts, d > my'[w].d \/ Busy(w, d, {"find_oldest", "delete_new_order"})'
      PROVE  Untouched(w, d)'
  <2>1. Untouched(w, d) /\ \A k \in K : k[1] \in OrderTables => k[2] # d
    BY <1>6
  <2>2. QED
    BY <1>1, <2>1 DEF Untouched
<1>7. ASSUME NEW d \in Districts, NEW j \in DOMAIN view'[w], In(j, "new_orders", d)
      PROVE  /\ j[3] < NextId(db', d)
             /\ \A k \in DOMAIN db' :
                  In(k, "new_orders", d) /\ k \notin DOMAIN view'[w] \cup wrote'[w] => j[3] < k[3]
  <2>1. j \in DOMAIN view[w]
    BY <1>1, <1>2, <1>7
  <2>2. \A k : k \notin DOMAIN view'[w] \cup wrote'[w] => k \notin DOMAIN view[w] \cup wrote[w]
    BY <1>1, <1>2
  <2>3. QED
    BY <1>1, <1>7, <2>1, <2>2 DEF Sight
<1>8. QED
  BY <1>4, <1>5, <1>6, <1>7 DEF Sight

\* What a Delivery in its transaction has to show.
LEMMA ServeDelivery ==
  ASSUME BookIInv, RowIInv, OrderIInv, ServeIInv, NEW w \in Workers, at[w] \in DeliveryPlaces,
         NEW K, NEW rows, NEW place, Does(w, K, rows, place),
         ~torn /\ open[w] /\ Serves(w) =>
           /\ \A d \in Districts : Took(w, d)'
           /\ at'[w] \in DeliveryPlaces => Sight(w)' /\ Target(w)'
  PROVE  ServeIInv'
<1>1. Works(w) /\ Steps(w) /\ torn' = torn
  BY DEF DeliveryPlaces, Works, Does
<1>2. CASE torn
  BY <1>1, <1>2 DEF ServeIInv
<1>3. CASE ~torn
  <2>1. open[w] /\ Serves(w)
    BY <1>1, <1>3 DEF ServeIInv, Serves
  <2>2. /\ open' = open /\ db' = db
        /\ \A v \in Workers \ {w} : view'[v] = view[v] /\ wrote'[v] = wrote[v]
    BY <2>1, WriteSplits DEF Does
  <2>3. Serves(w)'
    BY <1>3, <2>1, <2>2 DEF Serves
  <2>4. QED
    BY <1>1, <2>2, <2>3, ServeMoves
<1>4. QED
  BY <1>2, <1>3

\* A query, or a statement on another table.
LEMMA ServeBeside ==
  ASSUME BookIInv, RowIInv, OrderIInv, ServeIInv, NEW w \in Workers, at[w] \in DeliveryPlaces,
         at[w] \notin {"update_order", "update_lines"},
         NEW K, NEW rows, NEW place, Does(w, K, rows, place), Mild(K, Sees(w), rows),
         \A k \in K : k[1] \notin OrderTables,
         my[w].d \in Districts, my'[w].d \in Districts,
         \/ my'[w].d = my[w].d /\ (at'[w] \in {"find_oldest", "delete_new_order"} =>
                                     at[w] \in {"find_oldest", "delete_new_order"})
         \/ my'[w].d > my[w].d /\ my'[w].d \in Districts,
         ~torn /\ open[w] /\ Serves(w) /\ at'[w] \in DeliveryPlaces => Target(w)'
  PROVE  ServeIInv'
<1> USE DEF DeliveryPlaces
<1>1. ASSUME ~torn, open[w], Serves(w)
      PROVE  /\ \A d \in Districts : Took(w, d)'
             /\ at'[w] \in DeliveryPlaces => Sight(w)' /\ Target(w)'
  <2>1. Mild(K, view[w], rows) /\ Same(K, view[w], rows) /\ Works(w)
    BY <1>1 DEF Sees, Mild, Works
  <2>2. ASSUME NEW d \in Districts
        PROVE  Took(w, d)'
    <3>1. Took(w, d) /\ ~Busy(w, d, {"update_order", "update_lines"})
      BY <1>1 DEF Serves, Busy
    <3>2. QED
      BY <1>1, <2>1, <3>1, TookWrite
  <2>3. ASSUME at'[w] \in DeliveryPlaces
        PROVE  Sight(w)' /\ Target(w)'
    <3>1. Sight(w)
      BY <1>1 DEF Serves
    <3>2. ASSUME NEW d \in Districts,
                 d > my'[w].d \/ Busy(w, d, {"find_oldest", "delete_new_order"})'
          PROVE  Untouched(w, d)
      <4>1. d \in Nat /\ my[w].d \in Nat /\ my'[w].d \in Nat
        BY NumDistrictsAssumption DEF Districts
      <4>2. d > my[w].d \/ Busy(w, d, {"find_oldest", "delete_new_order"})
        BY <3>2, <4>1 DEF Busy
      <4>3. QED
        BY <3>1, <4>2 DEF Sight
    <3>3. Sight(w)'
      BY <1>1, <2>1, <3>1, <3>2, SightWrite
    <3>4. QED
      BY <1>1, <2>3, <3>3
  <2>4. QED
    BY <2>2, <2>3
<1>2. QED
  BY <1>1, ServeDelivery

\* The next district.
LEMMA ServeNext ==
  ASSUME BookIInv, RowIInv, OrderIInv, ServeIInv, NEW w \in Workers, at[w] \in DeliveryPlaces,
         at[w] \notin {"update_order", "update_lines"}, NextDistrict(w),
         NEW K, NEW rows, NEW place, Does(w, K, rows, place), Mild(K, Sees(w), rows),
         \A k \in K : k[1] \notin OrderTables
  PROVE  ServeIInv'
<1>1. IsDraw(my[w]) /\ my[w].d \in Districts /\ Tabled /\ at[w] # "idle"
  BY MyShape DEF DeliveryPlaces
<1>2. /\ at'[w] = IF my[w].d < NumDistricts THEN "find_oldest" ELSE "commit"
      /\ my'[w].d = IF my[w].d < NumDistricts THEN my[w].d + 1 ELSE my[w].d
      /\ my'[w].d \in Districts
  BY <1>1, NextDistrictDoes
<1>3. my[w].d \in Nat
  BY <1>1 DEF Districts
<1>4. \/ my'[w].d = my[w].d /\ at'[w] = "commit"
      \/ my'[w].d > my[w].d /\ my'[w].d \in Districts
  BY <1>2, <1>3
<1>5. at'[w] \in DeliveryPlaces => Target(w)'
  BY <1>2 DEF Target
<1>6. QED
  BY <1>1, <1>2, <1>4, <1>5, ServeBeside

LEMMA FindsOldestServes ==
  ASSUME BookIInv, RowIInv, OrderIInv, ServeIInv, NEW w \in Workers, FindsOldest(w)
  PROVE  ServeIInv'
<1> DEFINE ids == {k[3] : k \in OfDistrict(Sees(w), "new_orders", my[w].d)}
<1>1. /\ at[w] = "find_oldest"
      /\ \/ ids = {} /\ NextDistrict(w)
            /\ Does(w, {}, Sees(w),
                    IF my[w].d < NumDistricts THEN "find_oldest" ELSE "commit")
         \/ ids # {} /\ Does(w, {}, Sees(w), "delete_new_order")
            /\ Others(w, {"o"}) /\ my'[w].o = Min(ids)
  BY FindsOldestDoes
<1>2. /\ Good(Sees(w)) /\ my[w].d \in Districts /\ Mild({}, Sees(w), Sees(w))
      /\ at[w] \in DeliveryPlaces
  BY <1>1, DeliveryKnows, MildRead DEF DeliveryPlaces
<1>3. CASE /\ NextDistrict(w)
           /\ Does(w, {}, Sees(w),
                    IF my[w].d < NumDistricts THEN "find_oldest" ELSE "commit")
  BY <1>1, <1>2, <1>3, ServeNext
<1>4. CASE ids # {} /\ Does(w, {}, Sees(w), "delete_new_order")
            /\ Others(w, {"o"}) /\ my'[w].o = Min(ids)
  <2>1. ids \subseteq Nat
    BY <1>2 DEF OfDistrict, Good, Typed
  <2>2. \A k \in DOMAIN Sees(w) : In(k, "new_orders", my[w].d) => k[3] \in ids
    BY DEF OfDistrict, In
  <2>3. \A o \in ids : Waits(Sees(w), my[w].d, o)
    BY DEF OfDistrict, In, Waits
  <2> HIDE DEF ids
  <2>4. Min(ids) \in ids /\ \A o \in ids : Min(ids) <= o
    BY <1>4, <2>1, LeastNat DEF Min
  <2>5. my'[w].d = my[w].d /\ at'[w] = "delete_new_order"
    BY <1>4 DEF Others, Does
  <2>6. ASSUME open[w]
        PROVE  Target(w)'
    <3>1. view'[w] = Sees(w)
      BY <1>4, <2>6, WriteSplits DEF Does
    <3>2. Waits(view'[w], my'[w].d, my'[w].o)
      BY <1>4, <2>3, <2>4, <2>5, <3>1
    <3>3. \A k \in DOMAIN view'[w] : In(k, "new_orders", my'[w].d) => k[3] >= my'[w].o
      BY <1>4, <2>1, <2>2, <2>4, <2>5, <3>1
    <3>4. QED
      BY <2>5, <3>2, <3>3 DEF Target
  <2>7. QED
    BY <1>1, <1>2, <1>4, <2>5, <2>6, ServeBeside
<1>5. QED
  BY <1>1, <1>3, <1>4

LEMMA DeletesNewOrderServes ==
  ASSUME BookIInv, RowIInv, OrderIInv, ServeIInv, NEW w \in Workers, DeletesNewOrder(w)
  PROVE  ServeIInv'
<1>d. PICK d : d = my[w].d
  OBVIOUS
<1>o. PICK o : o = my[w].o
  OBVIOUS
<1> DEFINE K == OfOrder(Sees(w), "new_orders", d, o)
           rows == Restrict(Sees(w), DOMAIN Sees(w) \ K)
<1>1. at[w] = "delete_new_order" /\ Others(w, {}) /\ Does(w, K, rows, "update_order")
  BY <1>d, <1>o, DeletesNewOrderDoes
<1>2. /\ at[w] \in DeliveryPlaces /\ d \in Districts /\ d \in Nat /\ at'[w] = "update_order"
      /\ Works(w) /\ my[w].d = d /\ my[w].o = o /\ my'[w].d = d /\ my'[w].o = o
  BY <1>1, <1>d, <1>o, DeliveryKnows DEF DeliveryPlaces, Districts, Does, Works, Others
<1>3. /\ \A k : k \in K <=> k \in DOMAIN Sees(w) /\ In(k, "new_orders", d) /\ k[3] = o
      /\ DOMAIN rows = DOMAIN Sees(w) \ K
  BY DEF OfOrder, In, Restrict
<1>4. Mild(K, Sees(w), rows)
  <2>1. K \subseteq DOMAIN Sees(w) /\ \A k \in K : k[1] = "new_orders"
    BY <1>3 DEF In
  <2> HIDE DEF K
  <2>2. QED
    BY <2>1, MildDelete
<1> HIDE DEF K, rows
<1>5. ASSUME ~torn, open[w], Serves(w)
      PROVE  /\ \A e \in Districts : Took(w, e)'
             /\ at'[w] \in DeliveryPlaces => Sight(w)' /\ Target(w)'
  <2> USE DEF DeliveryPlaces
  <2>1. Sees(w) = view[w] /\ Mild(K, view[w], rows) /\ Same(K, view[w], rows)
    BY <1>4, <1>5 DEF Sees, Mild
  <2>2. Sight(w) /\ Target(w)
    BY <1>1, <1>5 DEF Serves
  <2>3. db' = db /\ view'[w] = rows /\ wrote'[w] = wrote[w] \cup K
    BY <1>1, <1>5, WriteSplits DEF Does
  <2>4. Untouched(w, d)
    BY <1>1, <1>2, <2>2 DEF Sight, Busy
  <2>5. PICK j \in DOMAIN view[w] : In(j, "new_orders", d) /\ j[3] = o
    BY <1>1, <1>2, <2>2 DEF Target, Waits
  <2>6. \A t \in Takes(w, d)' : t[3] = o
    BY <1>3, <2>1, <2>3, <2>4 DEF Takes, Untouched, In, OrderTables
  <2>7. j \in Takes(w, d)'
    BY <1>3, <2>1, <2>3, <2>5 DEF Takes
  <2>8. \A k \in DOMAIN db : In(k, "new_orders", d) => k[3] >= o
    <3>1. SUFFICES ASSUME NEW k \in DOMAIN db, In(k, "new_orders", d)
                   PROVE  k[3] >= o
      OBVIOUS
    <3>2. CASE k \in DOMAIN view[w]
      BY <1>1, <1>2, <2>2, <3>1, <3>2 DEF Target
    <3>3. CASE k \notin DOMAIN view[w]
      <4>1. k \notin wrote[w]
        BY <2>4, <3>1 DEF Untouched, In, OrderTables
      <4>2. j[3] < k[3]
        BY <1>2, <2>2, <2>5, <3>1, <3>3, <4>1 DEF Sight
      <4>3. k[3] \in Nat /\ j[3] \in Nat
        BY <1>5, <2>5, <3>1 DEF RowIInv, RowShape, Good, Typed, In
      <4>4. QED
        BY <2>5, <4>2, <4>3
    <3>4. QED
      BY <3>2, <3>3
  <2>9. Took(w, d)'
    <3>1. Busy(w, d, {"update_order"})' /\ Busy(w, d, {"update_order", "update_lines"})'
      BY <1>2 DEF Busy
    <3>2. \A k \in wrote'[w] : k \in DOMAIN view'[w] => ~(k[1] \in OrderTables /\ k[2] = d)
      BY <1>3, <2>1, <2>3, <2>4 DEF Untouched
    <3>3. QED
      BY <2>3, <2>6, <2>8, <3>1, <3>2 DEF Took, In, OrderTables
  <2>10. ASSUME NEW e \in Districts, e # d
         PROVE  Took(w, e)'
    <3>1. Took(w, e) /\ ~Busy(w, e, {"update_order", "update_lines"})
      BY <1>2, <1>5, <2>10 DEF Serves, Busy
    <3>2. \A k \in K : k[2] # e
      BY <1>3, <2>10 DEF In
    <3>3. QED
      BY <1>1, <1>2, <1>5, <2>1, <3>1, <3>2, TookWrite
  <2>11. Sight(w)'
    <3>1. ASSUME NEW e \in Districts,
                 e > my'[w].d \/ Busy(w, e, {"find_oldest", "delete_new_order"})'
          PROVE  Untouched(w, e) /\ \A k \in K : k[1] \in OrderTables => k[2] # e
      <4>1. e > d /\ e # d
        BY <1>2, <3>1 DEF Busy, Districts
      <4>2. QED
        BY <1>2, <1>3, <2>2, <4>1 DEF Sight, In
    <3>2. QED
      BY <1>1, <1>5, <2>1, <2>2, <3>1, SightWrite
  <2>12. Target(w)'
    <3>1. PICK k \in DOMAIN view[w] : k[1] = "orders" /\ k[2] = d /\ k[3] = o
      BY <2>2, <2>5 DEF Sight, Whole, In
    <3>2. k \in DOMAIN rows
      BY <1>3, <2>1, <3>1 DEF In
    <3>3. \E x \in DOMAIN view'[w] : In(x, "orders", d) /\ x[3] = o
      BY <1>2, <2>3, <2>5, <3>1, <3>2 DEF In
    <3>4. QED
      BY <1>2, <2>5, <2>7, <3>3 DEF Target
  <2>13. QED
    BY <2>9, <2>10, <2>11, <2>12
<1>6. QED
  BY <1>1, <1>2, <1>5, ServeDelivery

\* The orders a transaction takes from a district are one.
LEMMA TakesOne ==
  ASSUME BookIInv, RowIInv, OrderIInv, NEW w \in Workers, open[w], Works(w),
         NEW d \in Districts, Took(w, d), NEW s \in Takes(w, d), NEW t \in Takes(w, d)
  PROVE  s[3] = t[3]
<1>1. s \in DOMAIN db /\ t \in DOMAIN db /\ In(s, "new_orders", d) /\ In(t, "new_orders", d)
  BY TakenOrder
<1>2. s[3] >= t[3] /\ t[3] >= s[3]
  BY <1>1 DEF Took
<1>3. s[3] \in Nat /\ t[3] \in Nat
  BY <1>1 DEF RowIInv, Good, Typed, In
<1>4. QED
  BY <1>2, <1>3

\* The rows of its order are the committed ones.
LEMMA SeesOrder ==
  ASSUME BookIInv, OrderIInv, NEW w \in Workers, Kept(view[w], db), Whole(view[w]),
         NEW d \in Districts, NEW o,
         \E k \in DOMAIN view[w] : In(k, "orders", d) /\ k[3] = o
  PROVE  /\ \A k \in DOMAIN db : In(k, "orders", d) /\ k[3] = o => k \in DOMAIN view[w]
         /\ \A k \in DOMAIN db : In(k, "order_line", d) /\ k[3] = o => k \in DOMAIN view[w]
<1>1. PICK n \in DOMAIN view[w] : n[1] = "orders" /\ n[2] = d /\ n[3] = o
  BY DEF In
<1>2. n \in DOMAIN db /\ db[n].cnt = view[w][n].cnt
  BY <1>1 DEF Kept, SameOrder
<1>3. Whole(db) /\ Dense(db, d)
  BY DenseMeans DEF OrderIInv, BookIInv
<1>4. ASSUME NEW k \in DOMAIN db, In(k, "orders", d), k[3] = o
      PROVE  k \in DOMAIN view[w]
  <2>1. k = n
    BY <1>1, <1>2, <1>3, <1>4 DEF Dense, In
  <2>2. QED
    BY <2>1
<1>5. ASSUME NEW k \in DOMAIN db, In(k, "order_line", d), k[3] = o
      PROVE  k \in DOMAIN view[w]
  <2>1. k[4] \in 1..db[n].cnt
    BY <1>1, <1>2, <1>3, <1>5 DEF Whole, In
  <2>2. PICK l \in DOMAIN view[w] : /\ l[1] = "order_line" /\ l[2] = d /\ l[3] = o
                                    /\ l[4] = k[4]
    BY <1>1, <1>2, <2>1 DEF Whole
  <2>3. l \in DOMAIN db
    BY <2>2 DEF Kept
  <2>4. l = k
    BY <1>3, <1>5, <2>2, <2>3 DEF Whole, In
  <2>5. QED
    BY <2>4
<1>6. QED
  BY <1>4, <1>5

\* A statement that updates the rows of the order it takes in one table.
LEMMA TookUpdate ==
  ASSUME BookIInv, RowIInv, OrderIInv, NEW w \in Workers, open[w], Works(w),
         NEW d \in Districts, Took(w, d), NEW o, \E t \in Takes(w, d) : t[3] = o,
         NEW table \in {"orders", "order_line"}, NEW K, NEW rows, NEW place,
         Does(w, K, rows, place), Same(K, view[w], rows), K \subseteq DOMAIN rows,
         \A k \in K : In(k, table, d) /\ k[3] = o,
         \A k \in DOMAIN db : In(k, table, d) /\ k[3] = o => k \in K,
         table = "orders" => \A k \in K : rows[k].carrier = 1,
         table = "order_line" => \A k \in K : rows[k].dated,
         table = "orders" => Busy(w, d, {"update_lines"})',
         table = "order_line" => ~Busy(w, d, {"update_order"})
  PROVE  Took(w, d)' /\ Takes(w, d)' = Takes(w, d)
<1>1. /\ open' = open /\ db' = db /\ view'[w] = rows /\ wrote'[w] = wrote[w] \cup K
  BY WriteSplits DEF Does
<1>2. Takes(w, d)' = Takes(w, d)
  <2>1. \A t : In(t, "new_orders", d) => t \notin K
    BY DEF In
  <2>2. \A t : In(t, "new_orders", d) => (t \in DOMAIN rows <=> t \in DOMAIN view[w])
    BY <2>1 DEF Same
  <2>3. QED
    BY <1>1, <2>1, <2>2 DEF Takes
<1>3. ASSUME NEW t \in Takes(w, d)
      PROVE  t[3] = o
  BY TakesOne
<1>4. ASSUME NEW t \in Takes(w, d)
      PROVE  /\ \A k \in DOMAIN db' : In(k, "new_orders", d) => k[3] >= t[3]
             /\ ~Busy(w, d, {"update_order"})' =>
                  \A k \in DOMAIN db' : In(k, "orders", d) /\ k[3] = t[3] => k \in wrote'[w]
             /\ ~Busy(w, d, {"update_order", "update_lines"})' =>
                  \A k \in DOMAIN db' : In(k, "order_line", d) /\ k[3] = t[3] => k \in wrote'[w]
  <2>1. t[3] = o
    BY <1>3, <1>4
  <2>2. CASE table = "orders"
    <3>1. Busy(w, d, {"update_order", "update_lines"})'
      BY <2>2 DEF Busy
    <3>2. QED
      BY <1>1, <1>4, <2>1, <2>2, <3>1 DEF Took
  <2>3. CASE table = "order_line"
    <3>1. ~Busy(w, d, {"update_order"})
      BY <2>3
    <3>2. QED
      BY <1>1, <1>4, <2>1, <2>3, <3>1 DEF Took
  <2>4. QED
    BY <2>2, <2>3
<1>5. ASSUME NEW k \in wrote'[w], k \in DOMAIN db', k \in DOMAIN view'[w]
      PROVE  /\ In(k, "orders", d) => view'[w][k].carrier = 1 /\ \E t \in Takes(w, d) : t[3] = k[3]
             /\ In(k, "order_line", d) => view'[w][k].dated /\ \E t \in Takes(w, d) : t[3] = k[3]
             /\ ~In(k, "new_orders", d)
  <2>1. CASE k \in K
    <3>1. In(k, table, d) /\ k[3] = o
      BY <2>1
    <3>2. CASE table = "orders"
      BY <1>1, <2>1, <3>1, <3>2 DEF In
    <3>3. CASE table = "order_line"
      BY <1>1, <2>1, <3>1, <3>3 DEF In
    <3>4. QED
      BY <3>2, <3>3
  <2>2. CASE k \notin K
    <3>1. k \in wrote[w] /\ k \in DOMAIN db /\ k \in DOMAIN view[w] /\ view'[w][k] = view[w][k]
      BY <1>1, <1>5, <2>2 DEF Same
    <3>2. QED
      BY <3>1 DEF Took
  <2>3. QED
    BY <2>1, <2>2
<1>6. Took(w, d)'
  BY <1>2, <1>4, <1>5 DEF Took
<1>7. QED
  BY <1>2, <1>6

\* The rows of the order in one table are updated, and nothing else.
LEMMA ServeUpdate ==
  ASSUME BookIInv, RowIInv, OrderIInv, ServeIInv, NEW w \in Workers,
         at[w] \in {"update_order", "update_lines"},
         NEW d \in Districts, d = my[w].d, my'[w].d = d, NEW o, o = my[w].o, my'[w].o = o,
         NEW table, table = IF at[w] = "update_order" THEN "orders" ELSE "order_line",
         NEW K, \A k : k \in K <=> k \in DOMAIN Sees(w) /\ In(k, table, d) /\ k[3] = o,
         NEW rows, NEW place,
         place = IF at[w] = "update_order" THEN "update_lines" ELSE "read_order",
         Does(w, K, rows, place), Mild(K, Sees(w), rows), K \subseteq DOMAIN rows,
         table = "orders" => \A k \in K : rows[k].carrier = 1,
         table = "order_line" => \A k \in K : rows[k].dated
  PROVE  ServeIInv'
<1> USE DEF DeliveryPlaces
<1>1. at[w] \in DeliveryPlaces /\ at'[w] = place /\ Works(w) /\ d \in Nat
  BY DEF Does, Works, Districts
<1>2. ASSUME ~torn, open[w], Serves(w)
      PROVE  /\ \A e \in Districts : Took(w, e)'
             /\ at'[w] \in DeliveryPlaces => Sight(w)' /\ Target(w)'
  <2>1. Sees(w) = view[w] /\ Mild(K, view[w], rows) /\ Same(K, view[w], rows)
    BY <1>2 DEF Sees, Mild
  <2>2. Sight(w) /\ Target(w) /\ Took(w, d)
    BY <1>1, <1>2 DEF Serves
  <2>3. db' = db /\ view'[w] = rows
    BY <1>2, WriteSplits DEF Does
  <2>4. /\ \E t \in Takes(w, d) : t[3] = o
        /\ \E k \in DOMAIN view[w] : In(k, "orders", d) /\ k[3] = o
    BY <2>2 DEF Target
  <2>5. \A k \in DOMAIN db : In(k, table, d) /\ k[3] = o => k \in K
    BY <2>1, <2>2, <2>4, SeesOrder DEF Sight
  <2>6. Took(w, d)' /\ Takes(w, d)' = Takes(w, d)
    <3>1. /\ table = "orders" => Busy(w, d, {"update_lines"})'
          /\ table = "order_line" => ~Busy(w, d, {"update_order"})
      BY <1>1 DEF Busy
    <3>2. QED
      BY <1>1, <1>2, <2>1, <2>2, <2>4, <2>5, <3>1, TookUpdate
  <2>7. ASSUME NEW e \in Districts, e # d
        PROVE  Took(w, e)'
    <3>1. Took(w, e) /\ ~Busy(w, e, {"update_order", "update_lines"})
      BY <1>2, <2>7 DEF Serves, Busy
    <3>2. \A k \in K : k[2] # e
      BY <2>7 DEF In
    <3>3. QED
      BY <1>1, <1>2, <2>1, <3>1, <3>2, TookWrite
  <2>8. Sight(w)'
    <3>1. ASSUME NEW e \in Districts,
                 e > my'[w].d \/ Busy(w, e, {"find_oldest", "delete_new_order"})'
          PROVE  Untouched(w, e) /\ \A k \in K : k[1] \in OrderTables => k[2] # e
      <4>1. e > d /\ e # d
        BY <1>1, <3>1 DEF Busy, Districts
      <4>2. QED
        BY <2>2, <4>1 DEF Sight, In
    <3>2. QED
      BY <1>2, <2>1, <2>2, <3>1, SightWrite
  <2>9. Target(w)'
    <3>1. PICK k \in DOMAIN view[w] : In(k, "orders", d) /\ k[3] = o
      BY <2>4
    <3>2. k \in DOMAIN rows
      BY <2>1, <3>1 DEF Same
    <3>3. \E t \in Takes(w, d)' : t[3] = o
      BY <2>4, <2>6
    <3>4. QED
      BY <1>1, <2>3, <3>1, <3>2, <3>3 DEF Target
  <2>10. QED
    BY <2>6, <2>7, <2>8, <2>9
<1>3. QED
  BY <1>1, <1>2, ServeDelivery

LEMMA UpdatesOrderServes ==
  ASSUME BookIInv, RowIInv, OrderIInv, ServeIInv, NEW w \in Workers, UpdatesOrder(w)
  PROVE  ServeIInv'
<1> DEFINE K == OfOrder(Sees(w), "orders", my[w].d, my[w].o)
           new == [k \in K |-> [Sees(w)[k] EXCEPT !.carrier = 1]]
           rows == With(Sees(w), new)
<1>1. at[w] = "update_order" /\ Others(w, {}) /\ Does(w, K, rows, "update_lines")
  BY UpdatesOrderDoes
<1>2. /\ my[w].d \in Districts /\ my'[w].d = my[w].d /\ my'[w].o = my[w].o /\ Good(Sees(w))
  BY <1>1, DeliveryKnows DEF DeliveryPlaces, Others
<1>3. /\ \A k : k \in K <=> k \in DOMAIN Sees(w) /\ In(k, "orders", my[w].d) /\ k[3] = my[w].o
      /\ DOMAIN new = K /\ \A k \in K : new[k] = [Sees(w)[k] EXCEPT !.carrier = 1]
  BY DEF OfOrder, In
<1>4. DOMAIN rows = DOMAIN Sees(w) \cup DOMAIN new /\ \A k \in DOMAIN new : rows[k] = new[k]
  BY DEF With
<1> HIDE DEF K, new
<1>5. \A k \in K : SameOf(k, Sees(w)[k], new[k]) /\ new[k].carrier = 1
  <2>1. \A k \in K : Sees(w)[k] \in [c : Customers, cnt : Nat, carrier : -1..10]
    BY <1>2, <1>3 DEF Good, Typed, In
  <2>2. QED
    BY <1>3, <2>1 DEF SameOf, SameOrder, In
<1>6. Mild(K, Sees(w), rows)
  BY <1>3, <1>5, MildUpdate
<1> HIDE DEF rows
<1>7. \A k \in K : k \in DOMAIN rows /\ rows[k].carrier = 1
  BY <1>3, <1>4, <1>5
<1>8. QED
  BY <1>1, <1>2, <1>3, <1>6, <1>7, ServeUpdate

LEMMA UpdatesLinesServes ==
  ASSUME BookIInv, RowIInv, OrderIInv, ServeIInv, NEW w \in Workers, UpdatesLines(w)
  PROVE  ServeIInv'
<1> DEFINE K == OfOrder(Sees(w), "order_line", my[w].d, my[w].o)
           new == [k \in K |-> [Sees(w)[k] EXCEPT !.dated = TRUE]]
           rows == With(Sees(w), new)
<1>1. at[w] = "update_lines" /\ Others(w, {}) /\ Does(w, K, rows, "read_order")
  BY UpdatesLinesDoes
<1>2. /\ my[w].d \in Districts /\ my'[w].d = my[w].d /\ my'[w].o = my[w].o /\ Good(Sees(w))
  BY <1>1, DeliveryKnows DEF DeliveryPlaces, Others
<1>3. /\ \A k : k \in K <=> k \in DOMAIN Sees(w) /\ In(k, "order_line", my[w].d) /\ k[3] = my[w].o
      /\ DOMAIN new = K /\ \A k \in K : new[k] = [Sees(w)[k] EXCEPT !.dated = TRUE]
  BY DEF OfOrder, In
<1>4. DOMAIN rows = DOMAIN Sees(w) \cup DOMAIN new /\ \A k \in DOMAIN new : rows[k] = new[k]
  BY DEF With
<1> HIDE DEF K, new
<1>5. \A k \in K : Sees(w)[k] \in [item : Items, amount : Nat, dated : BOOLEAN] /\ k[1] = "order_line"
  BY <1>2, <1>3 DEF Good, Typed, In
<1>6. \A k \in K : SameOf(k, Sees(w)[k], new[k])
  BY <1>3, <1>5 DEF SameOf, SameOrder
<1>7. \A k \in K : new[k].dated
  BY <1>3, <1>5
<1>8. Mild(K, Sees(w), rows)
  BY <1>3, <1>6, MildUpdate
<1> HIDE DEF rows
<1>9. \A k \in K : k \in DOMAIN rows /\ rows[k].dated
  BY <1>3, <1>4, <1>7
<1>10. QED
  BY <1>1, <1>2, <1>3, <1>8, <1>9, ServeUpdate

LEMMA DeliveryServes ==
  ASSUME BookIInv, RowIInv, OrderIInv, ServeIInv, NEW w \in Workers,
         \/ FindsOldest(w) \/ DeletesNewOrder(w) \/ UpdatesOrder(w) \/ UpdatesLines(w)
         \/ ReadsOrder(w) \/ SumsAmounts(w) \/ CreditsCustomer(w)
  PROVE  ServeIInv'
<1> USE DEF DeliveryPlaces
<1>1. ASSUME at[w] \in {"read_order", "sum_amounts"},
             NEW place \in {"sum_amounts", "credit_customer"},
             Does(w, {}, Sees(w), place), my'[w].d = my[w].d
      PROVE  ServeIInv'
  <2>1. my[w].d \in Districts /\ at'[w] = place
    BY <1>1, DeliveryKnows DEF Does
  <2>2. Target(w)'
    BY <1>1, <2>1 DEF Target
  <2>3. QED
    BY <1>1, <2>1, <2>2, MildRead, ServeBeside
<1>2. CASE ReadsOrder(w)
  <2>1. at[w] = "read_order" /\ Does(w, {}, Sees(w), "sum_amounts") /\ Others(w, {"c"})
    BY <1>2, ReadsOrderDoes
  <2>2. my'[w].d = my[w].d
    BY <2>1 DEF Others
  <2>3. QED
    BY <1>1, <2>1, <2>2
<1>3. CASE SumsAmounts(w)
  <2>1. at[w] = "sum_amounts" /\ Does(w, {}, Sees(w), "credit_customer") /\ Others(w, {"seen"})
    BY <1>3, SumsAmountsDoes
  <2>2. my'[w].d = my[w].d
    BY <2>1 DEF Others
  <2>3. QED
    BY <1>1, <2>1, <2>2
<1>4. CASE CreditsCustomer(w)
  <2> DEFINE k == CustomerKey(my[w].d, my[w].c)
             row == [Sees(w)[k] EXCEPT !.balance = @ + my[w].seen, !.deliveries = @ + 1]
             new == [x \in {k} |-> row]
             place == IF my[w].d < NumDistricts THEN "find_oldest" ELSE "commit"
  <2>1. /\ at[w] = "credit_customer" /\ NextDistrict(w)
        /\ Does(w, {k}, With(Sees(w), new), place)
    BY <1>4, CreditsCustomerDoes
  <2>2. DOMAIN new = {k} /\ k[1] = "customer" /\ new[k] = row
    BY KeyColumns
  <2>3. k \in DOMAIN Sees(w) /\ Good(Sees(w))
    <3>1. my[w].c \in Customers /\ my[w].d \in Districts /\ Good(Sees(w))
      BY <2>1, DeliveryKnows DEF SeenFits
    <3>2. QED
      BY <3>1, FixedKeys DEF Good
  <2>4. row.ytd = Sees(w)[k].ytd /\ row.payments = Sees(w)[k].payments
    <3>1. Sees(w)[k] \in [balance : Int, ytd : Nat, payments : Nat, deliveries : Nat]
      BY <2>2, <2>3 DEF Good, Typed
    <3>2. QED
      BY <3>1
  <2> HIDE DEF row, k, new, place
  <2>5. Mild(DOMAIN new, Sees(w), With(Sees(w), new))
    BY <2>2, <2>3, <2>4, MildUpdate DEF SameOf, SameOrder
  <2>6. \A x \in {k} : x[1] \notin OrderTables
    BY <2>2 DEF OrderTables
  <2>7. QED
    BY <2>1, <2>2, <2>5, <2>6, ServeNext
<1>5. QED
  BY <1>2, <1>3, <1>4, FindsOldestServes, DeletesNewOrderServes, UpdatesOrderServes,
     UpdatesLinesServes

---------------------------------------------------------------------------
(* The beginning and the end of an attempt. *)

LEMMA BeginsServes ==
  ASSUME BookIInv, RowIInv, OrderIInv, ServeIInv, NEW w \in Workers,
         BeginsNewOrder(w) \/ BeginsPayment(w) \/ BeginsDelivery(w)
  PROVE  ServeIInv'
<1>1. ASSUME NEW draw, NEW place \in {"find_oldest", "read_district", "update_warehouse"},
             Starts(w, draw, place)
      PROVE  ServeIInv'
  <2>1. /\ Steps(w) /\ at'[w] = place /\ my'[w] = draw /\ torn' = torn
        /\ open'[w] /\ view'[w] = db /\ wrote'[w] = {} /\ db' = db
        /\ \A v \in Workers \ {w} :
             open'[v] = open[v] /\ view'[v] = view[v] /\ wrote'[v] = wrote[v]
    BY <1>1, BeginsDoes
  <2>2. Target(w)'
    BY <2>1 DEF Target
  <2>3. \A d \in Districts : Took(w, d)'
    <3>1. ASSUME NEW d \in Districts
          PROVE  Took(w, d)'
      <4>1. Takes(w, d)' = {}
        BY <2>1 DEF Takes
      <4>2. QED
        BY <2>1, <4>1 DEF Took
    <3>2. QED
      BY <3>1
  <2>4. Sight(w)'
    <3>1. Kept(view'[w], db') /\ Whole(view'[w])
      BY <2>1 DEF Kept, SameOrder, OrderIInv
    <3>2. \A d \in Districts : Untouched(w, d)'
      BY <2>1 DEF Untouched
    <3>3. ASSUME NEW d \in Districts, NEW j \in DOMAIN db, In(j, "new_orders", d)
          PROVE  j[3] < NextId(db, d)
      <4>1. PICK k \in DOMAIN db : k[1] = "orders" /\ k[2] = j[2] /\ k[3] = j[3]
        BY <3>3 DEF OrderIInv, Whole, In
      <4>2. k[3] \in 1..(NextId(db, d) - 1) /\ NextId(db, d) \in Nat
        BY <3>3, <4>1, DenseMeans, HasDistrict DEF BookIInv, Dense, In
      <4>3. QED
        BY <4>1, <4>2
    <3>4. QED
      BY <2>1, <3>1, <3>2, <3>3 DEF Sight
  <2>5. Serves(w)'
    BY <2>1, <2>2, <2>3, <2>4 DEF Serves
  <2>6. QED
    BY <2>1, <2>5, ServeMoves
<1>2. QED
  BY <1>1 DEF BeginsNewOrder, BeginsPayment, BeginsDelivery

\* What COMMIT makes of the committed orders: they stay, and a new one has the
\* next id.
LEMMA CommitBrings ==
  ASSUME BookIInv, RowIInv, OrderIInv, NEW w \in Workers, open[w], at[w] = "commit",
         NEW M, M = Merged(w)
  PROVE  /\ Kept(db, M)
         /\ \A d \in Districts : NextId(M, d) >= NextId(db, d)
         /\ \A k \in DOMAIN M : k[1] \in OrderTables /\ k \notin DOMAIN db =>
              /\ my[w].lines # <<>> /\ my[w].d \in Districts
              /\ k[2] = my[w].d /\ k[3] = my[w].o /\ my[w].o = NextId(db, my[w].d)
              /\ M[k] = Inserted(my[w], k)
              /\ k[1] = "new_orders" => k = NewOrderKey(my[w].d, my[w].o, my[w].id)
              /\ k[1] = "orders" => k = OrderKey(my[w].d, my[w].o, my[w].id)
              /\ NewOrderKey(my[w].d, my[w].o, my[w].id) \in DOMAIN M
              /\ OrderKey(my[w].d, my[w].o, my[w].id) \in DOMAIN M
<1> DEFINE I == InsertedBy(w)
<1>1. /\ WorkShape(w) /\ Whole(db) /\ DrawTyped(w) /\ HasDistricts(db) /\ HasDistricts(view[w])
      /\ \A d \in Districts : Neutral(w, d) \/ Adds(w, d)
  BY DEF OrderIInv, BookIInv, BookShape, Works, RowIInv, RowShape
<1>2. /\ \A k : k \in DOMAIN M <=> IF k \in wrote[w] THEN k \in DOMAIN view[w] ELSE k \in DOMAIN db
      /\ \A k \in DOMAIN M : M[k] = IF k \in wrote[w] THEN view[w][k] ELSE db[k]
  BY MergedRows
<1>3. /\ I \subseteq wrote[w] \cap DOMAIN view[w]
      /\ \A k \in I : k \notin DOMAIN db /\ view[w][k] = Inserted(my[w], k)
      /\ \A k \in wrote[w] : k \in DOMAIN db \/ k \in I
      /\ \A k \in wrote[w] : k \in DOMAIN view[w] \/ k[1] = "new_orders"
  BY <1>1 DEF WorkShape
<1>4. \A k \in wrote[w] : k \in DOMAIN db /\ k \in DOMAIN view[w] => SameOrder(k, db[k], view[w][k])
  BY <1>1 DEF WorkShape
<1>5. \A k \in I : /\ k[1] \in {"orders", "new_orders", "order_line", "history"}
                   /\ k[1] # "history" => my[w].lines # <<>> /\ k[2] = my[w].d /\ k[3] = my[w].o
                   /\ k[1] = "orders" => k = OrderKey(my[w].d, my[w].o, my[w].id)
                   /\ k[1] = "new_orders" => k = NewOrderKey(my[w].d, my[w].o, my[w].id)
  <2>1. ASSUME NEW k \in I, k[1] = "new_orders"
        PROVE  k = NewOrderKey(my[w].d, my[w].o, my[w].id)
    <3>1. k \in Inserts(my[w], at[w])
      BY <2>1 DEF InsertedBy
    <3>2. OrderKey(my[w].d, my[w].o, my[w].id)[1] = "orders"
      BY KeyShape
    <3>3. \A j : LineKey(my[w].d, my[w].o, j, my[w].id)[1] = "order_line"
      BY OtherKeys
    <3>4. HistoryKey(my[w].cd, my[w].c, my[w].id)[1] = "history"
      BY OtherKeys
    <3>5. QED
      BY <2>1, <3>1, <3>2, <3>3, <3>4, InsertsMember
  <2>2. QED
    BY <2>1, InsertedKeys DEF InsertedBy
<1>6. my[w].lines # <<>> => /\ NewOrderKey(my[w].d, my[w].o, my[w].id) \in I
                            /\ OrderKey(my[w].d, my[w].o, my[w].id) \in I
  BY InsertsMember DEF InsertedBy
<1> HIDE DEF I
<1>7. Kept(db, M)
  <2>1. ASSUME NEW k \in DOMAIN db, k[1] \in {"orders", "order_line"}
        PROVE  k \in DOMAIN M /\ SameOrder(k, db[k], M[k])
    <3>1. k \in DOMAIN M
      BY <1>2, <1>3, <2>1
    <3>2. QED
      BY <1>2, <1>4, <2>1, <3>1 DEF SameOrder
  <2>2. QED
    BY <2>1 DEF Kept
<1>8. ASSUME NEW d \in Districts
      PROVE  NextId(M, d) >= NextId(db, d)
  <2>1. NextId(db, d) \in Nat
    BY <1>1, HasDistrict
  <2>2. DistrictKey(d) \in DOMAIN M /\ DistrictKey(d) \in DOMAIN view[w]
    BY <1>1, <1>2, HasDistrict
  <2>3. CASE DistrictKey(d) \notin wrote[w]
    BY <1>2, <2>1, <2>2, <2>3 DEF NextId
  <2>4. CASE DistrictKey(d) \in wrote[w]
    <3>1. NextId(M, d) = NextId(view[w], d)
      BY <1>2, <2>2, <2>4 DEF NextId
    <3>2. CASE Neutral(w, d)
      BY <2>1, <2>4, <3>1, <3>2 DEF Neutral
    <3>3. CASE Adds(w, d)
      BY <2>1, <3>1, <3>3 DEF Adds, Counts
    <3>4. QED
      BY <1>1, <3>2, <3>3
  <2>5. QED
    BY <2>3, <2>4
<1>9. ASSUME NEW k \in DOMAIN M, k[1] \in OrderTables, k \notin DOMAIN db
      PROVE  /\ my[w].lines # <<>> /\ my[w].d \in Districts
             /\ k[2] = my[w].d /\ k[3] = my[w].o /\ my[w].o = NextId(db, my[w].d)
             /\ M[k] = Inserted(my[w], k)
             /\ k[1] = "new_orders" => k = NewOrderKey(my[w].d, my[w].o, my[w].id)
             /\ k[1] = "orders" => k = OrderKey(my[w].d, my[w].o, my[w].id)
             /\ NewOrderKey(my[w].d, my[w].o, my[w].id) \in DOMAIN M
             /\ OrderKey(my[w].d, my[w].o, my[w].id) \in DOMAIN M
  <2>1. k \in I
    BY <1>2, <1>3, <1>9
  <2>2. my[w].lines # <<>> /\ k[2] = my[w].d /\ k[3] = my[w].o /\ my[w].d \in Districts
    BY <1>1, <1>5, <1>9, <2>1 DEF OrderTables, DrawTyped
  <2> DEFINE d == my[w].d
             new == OrderKey(d, my[w].o, my[w].id)
  <2>3. new \in I /\ new[1] = "orders" /\ new[2] = d /\ new[3] = my[w].o
    BY <1>6, <2>2, KeyShape
  <2> HIDE DEF new
  <2>4. my[w].o = NextId(db, d)
    <3>1. ~Neutral(w, d)
      BY <1>3, <2>3 DEF Neutral
    <3>2. Adds(w, d)
      BY <1>1, <2>2, <3>1
    <3>3. PICK n \in wrote[w] :
            /\ n[3] = NextId(db, d)
            /\ \A x \in wrote[w] : x[1] = "orders" /\ x[2] = d =>
                 x \in DOMAIN view[w] /\ (x = n \/ x \in DOMAIN db)
      BY <3>2 DEF Adds
    <3>4. QED
      BY <1>3, <2>3, <3>3
  <2>5. M[k] = Inserted(my[w], k)
    BY <1>2, <1>3, <2>1
  <2>6. \A x \in I : x \in DOMAIN M
    BY <1>2, <1>3
  <2>7. QED
    BY <1>5, <1>6, <2>1, <2>2, <2>4, <2>5, <2>6
<1>10. QED
  BY <1>7, <1>8, <1>9

\* Committed orders have ids below the next one, and so do their rows.
LEMMA OldIds ==
  ASSUME BookIInv, OrderIInv, NEW d \in Districts, NEW k \in DOMAIN db,
         k[1] \in OrderTables, k[2] = d
  PROVE  k[3] \in 1..(NextId(db, d) - 1) /\ k[3] < NextId(db, d) /\ k[3] # NextId(db, d)
<1>1. NextId(db, d) \in Nat /\ Dense(db, d) /\ Whole(db)
  BY DenseMeans, HasDistrict DEF BookIInv, OrderIInv
<1>2. \E n \in DOMAIN db : n[1] = "orders" /\ n[2] = d /\ n[3] = k[3]
  BY <1>1 DEF OrderTables, Whole
<1>3. k[3] \in 1..(NextId(db, d) - 1)
  BY <1>1, <1>2 DEF Dense
<1>4. QED
  BY <1>1, <1>3

LEMMA MergedServed ==
  ASSUME BookIInv, RowIInv, OrderIInv, NEW w \in Workers, open[w], at[w] = "commit",
         NEW d \in Districts, Served(db, d), Took(w, d), NEW M, M = Merged(w)
  PROVE  Served(M, d)
<1> DEFINE T == Takes(w, d)
           N == NextId(db, d)
           New(k) == k \in DOMAIN M /\ k \notin DOMAIN db
<1>1. /\ \A k : k \in DOMAIN M <=> IF k \in wrote[w] THEN k \in DOMAIN view[w] ELSE k \in DOMAIN db
      /\ \A k \in DOMAIN M : M[k] = IF k \in wrote[w] THEN view[w][k] ELSE db[k]
  BY MergedRows
<1>2. WorkShape(w) /\ Works(w) /\ ~Busy(w, d, {"update_order"})
      /\ ~Busy(w, d, {"update_order", "update_lines"})
  BY DEF OrderIInv, Works, Busy
<1>3. \A t \in T : /\ t \in DOMAIN db /\ In(t, "new_orders", d) /\ t \notin DOMAIN M
                   /\ \A k \in DOMAIN db : In(k, "new_orders", d) => k[3] >= t[3]
                   /\ \A k \in DOMAIN db : In(k, "orders", d) /\ k[3] = t[3] => k \in wrote[w]
                   /\ \A k \in DOMAIN db : In(k, "order_line", d) /\ k[3] = t[3] => k \in wrote[w]
  BY <1>1, <1>2, TakenOrder DEF Took, Takes
<1>4. \A k \in DOMAIN db : In(k, "new_orders", d) /\ k \notin DOMAIN M => k \in T
  BY <1>1 DEF Takes
<1>5. \A k \in DOMAIN db : k[1] \in OrderTables /\ k[2] = d =>
        k[3] \in 1..(N - 1) /\ k[3] < N /\ k[3] # N
  BY OldIds
<1>6. \A k : New(k) /\ k[1] \in OrderTables /\ k[2] = d =>
        /\ k[3] = N /\ Waits(M, d, N) /\ M[k] = Inserted(my[w], k)
        /\ k[1] = "new_orders" => k = NewOrderKey(my[w].d, my[w].o, my[w].id)
  <2>1. ASSUME NEW k, New(k), k[1] \in OrderTables, k[2] = d
        PROVE  /\ k[3] = N /\ Waits(M, d, N) /\ M[k] = Inserted(my[w], k)
               /\ k[1] = "new_orders" => k = NewOrderKey(my[w].d, my[w].o, my[w].id)
    <3> DEFINE n == NewOrderKey(my[w].d, my[w].o, my[w].id)
    <3>1. /\ d = my[w].d /\ k[3] = N /\ my[w].o = N /\ M[k] = Inserted(my[w], k)
          /\ n \in DOMAIN M /\ (k[1] = "new_orders" => k = n)
      BY <2>1, CommitBrings
    <3>2. In(n, "new_orders", d) /\ n[3] = N
      BY <3>1, KeyColumns DEF In
    <3> HIDE DEF n
    <3>3. QED
      BY <3>1, <3>2 DEF Waits, n
  <2>2. QED
    BY <2>1
<1>7. \A k, l \in DOMAIN db :
        In(k, "new_orders", d) /\ In(l, "new_orders", d) /\ k[3] = l[3] => k = l
  BY DEF Served
<1> HIDE DEF T, N
<1>8. ASSUME NEW o, o # N
      PROVE  Waits(M, d, o) <=> Waits(db, d, o) /\ \A t \in T : t[3] # o
  <2>1. ASSUME NEW k \in DOMAIN M, In(k, "new_orders", d), k[3] = o
        PROVE  k \in DOMAIN db /\ \A t \in T : t[3] # o
    <3>1. k \in DOMAIN db
      BY <1>6, <1>8, <2>1 DEF In, OrderTables
    <3>2. QED
      BY <1>3, <1>7, <2>1, <3>1
  <2>2. ASSUME NEW k \in DOMAIN db, In(k, "new_orders", d), k[3] = o, \A t \in T : t[3] # o
        PROVE  k \in DOMAIN M
    BY <1>4, <2>2
  <2>3. QED
    BY <2>1, <2>2 DEF Waits
<1>9. Kept(db, M)
  BY CommitBrings
<1>10. ASSUME NEW k \in DOMAIN M, NEW l \in DOMAIN M,
              In(k, "new_orders", d), In(l, "orders", d), l[3] > k[3]
       PROVE  Waits(M, d, l[3])
  <2>1. CASE l \notin DOMAIN db
    BY <1>6, <1>10, <2>1 DEF In, OrderTables
  <2>2. CASE l \in DOMAIN db
    <3>1. l[3] < N /\ l[3] # N /\ l[3] \in Int /\ N \in Int
      <4>1. l[3] \in 1..(N - 1) /\ l[3] < N /\ l[3] # N
        BY <1>5, <1>10, <2>2 DEF In, OrderTables
      <4>2. N \in Nat
        BY HasDistrict DEF BookIInv, N
      <4>3. QED
        BY <4>1, <4>2
    <3>2. k \in DOMAIN db
      <4>1. SUFFICES ASSUME k \notin DOMAIN db PROVE FALSE
        OBVIOUS
      <4>2. k[3] = N
        BY <1>6, <1>10, <4>1 DEF In, OrderTables
      <4>3. QED
        BY <1>10, <3>1, <4>2
    <3>3. Waits(db, d, l[3])
      BY <1>10, <2>2, <3>2 DEF Served
    <3>4. \A t \in T : t[3] # l[3]
      <4>1. SUFFICES ASSUME NEW t \in T, t[3] = l[3] PROVE FALSE
        OBVIOUS
      <4>2. k[3] >= l[3]
        BY <1>3, <1>10, <3>2, <4>1
      <4>3. k[3] \in Int
        <5>1. k[3] \in 1..(N - 1)
          BY <1>5, <1>10, <3>2 DEF In, OrderTables
        <5>2. QED
          BY <5>1
      <4>4. QED
        BY <1>10, <3>1, <4>2, <4>3
    <3>5. QED
      BY <1>8, <3>1, <3>3, <3>4
  <2>3. QED
    BY <2>1, <2>2
<1>11. ASSUME NEW k \in DOMAIN M, In(k, "orders", d)
       PROVE  Waits(M, d, k[3]) <=> M[k].carrier < 1
  <2>1. CASE k \notin DOMAIN db
    <3>1. k[3] = N /\ Waits(M, d, N) /\ M[k] = Inserted(my[w], k)
      BY <1>6, <1>11, <2>1 DEF In, OrderTables
    <3>2. M[k].carrier = -1
      BY <1>11, <3>1 DEF In, Inserted, Order
    <3>3. QED
      BY <3>1, <3>2
  <2>2. CASE k \in DOMAIN db /\ k \in wrote[w]
    <3>1. k \in DOMAIN view[w] /\ M[k] = view[w][k] /\ k[3] # N
      BY <1>1, <1>5, <1>11, <2>2 DEF In, OrderTables
    <3>2. M[k].carrier = 1 /\ \E t \in T : t[3] = k[3]
      BY <1>11, <2>2, <3>1 DEF Took, T
    <3>3. QED
      BY <1>8, <3>1, <3>2
  <2>3. CASE k \in DOMAIN db /\ k \notin wrote[w]
    <3>1. M[k] = db[k] /\ k[3] # N /\ \A t \in T : t[3] # k[3]
      BY <1>1, <1>3, <1>5, <1>11, <2>3 DEF In, OrderTables
    <3>2. Waits(db, d, k[3]) <=> db[k].carrier < 1
      BY <1>11, <2>3 DEF Served
    <3>3. QED
      BY <1>8, <3>1, <3>2
  <2>4. QED
    BY <2>1, <2>2, <2>3
<1>12. ASSUME NEW k \in DOMAIN M, In(k, "order_line", d)
       PROVE  Waits(M, d, k[3]) <=> ~M[k].dated
  <2>1. CASE k \notin DOMAIN db
    <3>1. k[3] = N /\ Waits(M, d, N) /\ M[k] = Inserted(my[w], k)
      BY <1>6, <1>12, <2>1 DEF In, OrderTables
    <3>2. M[k].dated = FALSE
      BY <1>12, <3>1 DEF In, Inserted, Line
    <3>3. QED
      BY <3>1, <3>2
  <2>2. CASE k \in DOMAIN db /\ k \in wrote[w]
    <3>1. k \in DOMAIN view[w] /\ M[k] = view[w][k] /\ k[3] # N
      BY <1>1, <1>5, <1>12, <2>2 DEF In, OrderTables
    <3>2. view[w][k].dated /\ \E t \in T : t[3] = k[3]
      BY <1>12, <2>2, <3>1 DEF Took, T
    <3>3. ~Waits(M, d, k[3])
      BY <1>8, <3>1, <3>2
    <3>4. QED
      BY <3>1, <3>2, <3>3
  <2>3. CASE k \in DOMAIN db /\ k \notin wrote[w]
    <3>1. M[k] = db[k] /\ k[3] # N /\ \A t \in T : t[3] # k[3]
      BY <1>1, <1>3, <1>5, <1>12, <2>3 DEF In, OrderTables
    <3>2. Waits(db, d, k[3]) <=> ~db[k].dated
      BY <1>12, <2>3 DEF Served
    <3>3. QED
      BY <1>8, <3>1, <3>2
  <2>4. QED
    BY <2>1, <2>2, <2>3
<1>13. ASSUME NEW k \in DOMAIN M, NEW l \in DOMAIN M,
              In(k, "new_orders", d), In(l, "new_orders", d), k[3] = l[3]
       PROVE  k = l
  <2>1. \A x \in {k, l} : x \in DOMAIN db => x[3] # N
    BY <1>5, <1>13 DEF In, OrderTables
  <2>2. \A x \in {k, l} : x \notin DOMAIN db =>
          x[3] = N /\ x = NewOrderKey(my[w].d, my[w].o, my[w].id)
    BY <1>6, <1>13 DEF In, OrderTables
  <2>3. QED
    BY <1>7, <1>13, <2>1, <2>2
<1>14. QED
  BY <1>10, <1>11, <1>12, <1>13 DEF Served

LEMMA CommitServes ==
  ASSUME BookIInv, RowIInv, OrderIInv, ServeIInv, NEW w \in Workers, CommitsWork(w),
         at[w] = "commit", Steps(w), torn' = torn, ~Works(w)'
  PROVE  ServeIInv'
<1> SUFFICES ASSUME ~torn
             PROVE  /\ \A d \in Districts : Served(db', d)
                    /\ \A v \in Workers : Works(v)' => Serves(v)'
  BY DEF ServeIInv
<1>1. /\ open[w] /\ db' = Merged(w)
      /\ \A v \in Workers \ {w} :
           open'[v] = open[v] /\ view'[v] = view[v] /\ wrote'[v] = wrote[v]
  BY LeavesDoes
<1>2. /\ \A d \in Districts : Served(db, d)
      /\ \A v \in Workers : Works(v) => Serves(v)
  BY DEF ServeIInv
<1>3. \A d \in Districts : Served(db', d)
  <2>1. \A d \in Districts : Took(w, d)
    BY <1>2 DEF Works, Serves
  <2>2. QED
    BY <1>1, <1>2, <2>1, MergedServed
<1>4. /\ Kept(db, db')
      /\ \A d \in Districts : NextId(db', d) >= NextId(db, d)
      /\ \A k \in DOMAIN db' : k[1] \in OrderTables /\ k \notin DOMAIN db =>
           k[3] = NextId(db, k[2])
  BY <1>1, CommitBrings
<1>5. Same(wrote[w], db, db')
  BY <1>1, MergedRows DEF Same
<1>6. ASSUME NEW v \in Workers, Works(v)'
      PROVE  Serves(v)'
  <2>1. v # w
    BY <1>6
  <2>2. /\ at'[v] = at[v] /\ my'[v] = my[v]
        /\ open'[v] = open[v] /\ view'[v] = view[v] /\ wrote'[v] = wrote[v]
    BY <1>1, <2>1 DEF Steps
  <2>3. Works(v) /\ Serves(v) /\ open[v]
    BY <1>2, <1>6, <2>2 DEF Works, Serves
  <2>4. wrote[w] \cap wrote[v] = {}
    BY <1>1, <2>1, <2>3 DEF BookIInv, BookShape, IsSnapshot
  <2>5. ASSUME NEW d \in Districts
        PROVE  Took(v, d)'
    <3>1. Took(v, d) /\ Takes(v, d)' = Takes(v, d)
      BY <2>2, <2>3 DEF Serves, Takes
    <3>2. \A t \in Takes(v, d) : t[3] \in 1..(NextId(db, d) - 1)
      BY <2>3, TakenOrder
    <3>3. NextId(db, d) \in Nat
      BY HasDistrict DEF BookIInv
    <3>4. ASSUME NEW t \in Takes(v, d)
          PROVE  /\ t[3] # NextId(db, d) /\ NextId(db, d) >= t[3]
      BY <3>2, <3>3, <3>4
    <3>5. ASSUME NEW t \in Takes(v, d), NEW k \in DOMAIN db', k[1] \in OrderTables, k[2] = d,
                 k \notin DOMAIN db
          PROVE  k[3] # t[3] /\ k[3] >= t[3]
      BY <1>4, <3>4, <3>5
    <3>6. ASSUME NEW t \in Takes(v, d)
          PROVE  /\ \A k \in DOMAIN db' : In(k, "new_orders", d) => k[3] >= t[3]
                 /\ ~Busy(v, d, {"update_order"})' =>
                      \A k \in DOMAIN db' : In(k, "orders", d) /\ k[3] = t[3] => k \in wrote'[v]
                 /\ ~Busy(v, d, {"update_order", "update_lines"})' =>
                      \A k \in DOMAIN db' : In(k, "order_line", d) /\ k[3] = t[3] => k \in wrote'[v]
      <4>1. Busy(v, d, {"update_order"})' <=> Busy(v, d, {"update_order"})
        BY <2>2 DEF Busy
      <4>2. Busy(v, d, {"update_order", "update_lines"})' <=> Busy(v, d, {"update_order", "update_lines"})
        BY <2>2 DEF Busy
      <4>3. \A k \in DOMAIN db' : k[1] \in OrderTables /\ k[2] = d /\ k[3] = t[3] => k \in DOMAIN db
        BY <3>5
      <4>4. \A k \in DOMAIN db' : In(k, "new_orders", d) => k[3] >= t[3]
        BY <3>1, <3>5 DEF Took, In, OrderTables
      <4>5. QED
        BY <2>2, <3>1, <4>1, <4>2, <4>3, <4>4 DEF Took, In, OrderTables
    <3>7. \A k \in wrote[v] : k \in DOMAIN db' <=> k \in DOMAIN db
      BY <1>5, <2>4 DEF Same
    <3>8. \A k \in wrote'[v] : k \in DOMAIN db' /\ k \in DOMAIN view'[v] =>
            /\ In(k, "orders", d) => view'[v][k].carrier = 1 /\ \E t \in Takes(v, d)' : t[3] = k[3]
            /\ In(k, "order_line", d) => view'[v][k].dated /\ \E t \in Takes(v, d)' : t[3] = k[3]
            /\ ~In(k, "new_orders", d)
      BY <2>2, <3>1, <3>7 DEF Took
    <3>9. QED
      BY <3>1, <3>6, <3>8 DEF Took
  <2>6. ASSUME at'[v] \in DeliveryPlaces
        PROVE  Sight(v)' /\ Target(v)'
    <3>1. Sight(v) /\ Target(v)
      BY <2>2, <2>3, <2>6 DEF Serves
    <3>2. Kept(view'[v], db')
      BY <1>4, <2>2, <3>1 DEF Sight, Kept, SameOrder
    <3>3. Whole(view'[v])
      BY <2>2, <3>1 DEF Sight
    <3>4. ASSUME NEW d \in Districts,
                 d > my'[v].d \/ Busy(v, d, {"find_oldest", "delete_new_order"})'
          PROVE  Untouched(v, d)'
      BY <2>2, <3>1, <3>4 DEF Sight, Busy, Untouched
    <3>5. ASSUME NEW d \in Districts, NEW j \in DOMAIN view'[v], In(j, "new_orders", d)
          PROVE  /\ j[3] < NextId(db', d)
                 /\ \A k \in DOMAIN db' :
                      In(k, "new_orders", d) /\ k \notin DOMAIN view'[v] \cup wrote'[v] => j[3] < k[3]
      <4>1. /\ j[3] < NextId(db, d)
            /\ \A k \in DOMAIN db :
                 In(k, "new_orders", d) /\ k \notin DOMAIN view[v] \cup wrote[v] => j[3] < k[3]
        BY <2>2, <3>1, <3>5 DEF Sight
      <4>2. j[3] \in Nat /\ NextId(db, d) \in Nat /\ NextId(db', d) >= NextId(db, d)
            /\ NextId(db', d) \in Int
        <5>1. j[3] \in Nat
          BY <2>2, <2>3, <3>5 DEF RowIInv, RowShape, Good, Typed, In
        <5>2. HasDistricts(db)
          BY DEF BookIInv
        <5>3. DistrictKey(d) \in DOMAIN db' /\ Good(db')
          <6>1. Good(db')
            BY <1>1, GoodMerged DEF RowIInv, RowShape
          <6>2. QED
            BY <6>1, FixedKeys DEF Good
        <5>4. NextId(db', d) \in Int
          BY <5>3, KeyColumns DEF NextId, Good, Typed
        <5>5. QED
          BY <1>4, <5>1, <5>2, <5>4, HasDistrict
      <4>3. \A k \in DOMAIN db' : In(k, "new_orders", d) /\ k \notin DOMAIN db => j[3] < k[3]
        BY <1>4, <4>1 DEF In, OrderTables
      <4>4. QED
        BY <2>2, <4>1, <4>2, <4>3
    <3>6. Sight(v)'
      BY <3>2, <3>3, <3>4, <3>5 DEF Sight
    <3>7. Target(v)'
      BY <2>2, <3>1 DEF Target, Takes, Waits
    <3>8. QED
      BY <3>6, <3>7
  <2>7. QED
    BY <2>2, <2>3, <2>5, <2>6 DEF Serves
<1>7. QED
  BY <1>3, <1>6

LEMMA EndServes ==
  ASSUME BookIInv, RowIInv, OrderIInv, ServeIInv, NEW w \in Workers,
         SkipsDistrict(w) \/ Commits(w) \/ Refused(w) \/ RollsBack(w)
  PROVE  ServeIInv'
<1>1. ASSUME Reads
      PROVE  /\ db' = db
             /\ \A v \in Workers \ {w} :
                  open'[v] = open[v] /\ view'[v] = view[v] /\ wrote'[v] = wrote[v]
  BY <1>1 DEF Reads, serverVars
<1>2. CASE SkipsDistrict(w)
  <2>1. at[w] = "find_oldest" /\ NextDistrict(w) /\ attempts' = attempts
    BY <1>2 DEF SkipsDistrict
  <2>2. at[w] \in DeliveryPlaces /\ my[w].d \in Districts
    BY <2>1, DeliveryKnows DEF DeliveryPlaces
  <2>3. /\ Steps(w)
        /\ at'[w] = IF my[w].d < NumDistricts THEN "find_oldest" ELSE "commit"
    BY <2>1, <2>2, MyShape, NextDistrictDoes
  <2>4. CASE Reads /\ torn' = torn
    <3>1. \E place : Does(w, {}, Sees(w), place)
      BY <2>1, <2>3, <2>4, ReadsAsWrites DEF Does
    <3>2. QED
      BY <2>1, <2>2, <3>1, MildRead, ServeNext
  <2>5. CASE torn' = TRUE
    <3>1. torn'
      BY <2>5
    <3>2. QED
      BY <3>1 DEF ServeIInv
  <2>6. QED
    BY <1>2, <2>4, <2>5 DEF SkipsDistrict
<1>3. CASE Commits(w)
  <2>1. /\ at[w] = "commit" /\ Idles(w) /\ torn' = torn
        /\ Reads \/ CommitsWork(w)
    BY <1>3 DEF Commits, At
  <2>2. Steps(w) /\ ~Works(w)'
    BY <2>1, MyShape, Idle DEF Works
  <2>3. CASE Reads
    BY <1>1, <2>1, <2>2, <2>3, ServeMoves
  <2>4. CASE CommitsWork(w)
    BY <2>1, <2>2, <2>4, CommitServes
  <2>5. QED
    BY <2>1, <2>3, <2>4
<1>4. CASE Refused(w)
  <2>1. /\ at[w] # "idle" /\ KeepsAll /\ GoesTo(w, "rollback") /\ torn' = torn
        /\ Reads \/ Ends(w) \/ (at[w] = "commit" /\ CommitsWork(w))
    BY <1>4 DEF Refused
  <2>2. Steps(w) /\ ~Works(w)'
    BY <2>1, MyShape, Keeps DEF Works
  <2>3. CASE Reads
    BY <1>1, <2>1, <2>2, <2>3, ServeMoves
  <2>4. CASE Ends(w)
    BY <2>1, <2>2, <2>4, LeavesDoes, ServeMoves
  <2>5. CASE at[w] = "commit" /\ CommitsWork(w)
    BY <2>1, <2>2, <2>5, CommitServes
  <2>6. QED
    BY <2>1, <2>3, <2>4, <2>5
<1>5. CASE RollsBack(w)
  <2>1. /\ at[w] = "rollback" /\ Ends(w) /\ Idles(w) /\ torn' = torn
    BY <1>5 DEF RollsBack, At
  <2>2. Steps(w) /\ ~Works(w)'
    BY <2>1, MyShape, Idle DEF Works
  <2>3. QED
    BY <2>1, <2>2, LeavesDoes, ServeMoves
<1>6. QED
  BY <1>2, <1>3, <1>4, <1>5

LEMMA ServeStep ==
  BookIInv /\ RowIInv /\ OrderIInv /\ ServeIInv /\ [Next]_vars => ServeIInv'
<1> SUFFICES ASSUME BookIInv, RowIInv, OrderIInv, ServeIInv, [Next]_vars
             PROVE  ServeIInv'
  OBVIOUS
<1>1. ASSUME NEW w \in Workers, Step(w)
      PROVE  ServeIInv'
  <2>1. CASE BeginsNewOrder(w) \/ BeginsPayment(w) \/ BeginsDelivery(w)
    BY <2>1, BeginsServes
  <2>2. CASE \/ ReadsDistrict(w) \/ TakesId(w) \/ InsertsOrder(w) \/ InsertsNewOrder(w)
             \/ ReadsStock(w) \/ UpdatesStock(w) \/ InsertsLine(w)
    BY <2>2, NewOrderServes
  <2>3. CASE \/ UpdatesWarehouse(w) \/ UpdatesDistrict(w) \/ ReadsCustomer(w)
             \/ UpdatesCustomer(w) \/ InsertsHistory(w)
    BY <2>3, PaymentServes
  <2>4. CASE \/ FindsOldest(w) \/ DeletesNewOrder(w) \/ UpdatesOrder(w) \/ UpdatesLines(w)
             \/ ReadsOrder(w) \/ SumsAmounts(w) \/ CreditsCustomer(w)
    BY <2>4, DeliveryServes
  <2>5. CASE SkipsDistrict(w) \/ Commits(w) \/ Refused(w) \/ RollsBack(w)
    BY <2>5, EndServes
  <2>6. QED
    BY <1>1, <2>1, <2>2, <2>3, <2>4, <2>5 DEF Step
<1>2. CASE UNCHANGED vars
  <2>1. /\ db' = db /\ open' = open /\ view' = view /\ wrote' = wrote
        /\ at' = at /\ my' = my /\ torn' = torn
    BY <1>2 DEF vars, serverVars
  <2>2. \A w \in Workers, d \in Districts : Took(w, d)' <=> Took(w, d)
    BY <2>1 DEF Took, Takes, Busy
  <2>3. \A w \in Workers : Sight(w)' <=> Sight(w)
    BY <2>1 DEF Sight, Busy, Untouched, Kept, Whole, SameOrder
  <2>4. \A w \in Workers : Target(w)' <=> Target(w)
    BY <2>1 DEF Target, Takes, Waits
  <2>5. \A w \in Workers : Serves(w)' <=> Serves(w)
    BY <2>1, <2>2, <2>3, <2>4 DEF Serves
  <2>6. \A d \in Districts : Served(db', d) <=> Served(db, d)
    BY <2>1
  <2>7. QED
    BY <2>1, <2>5, <2>6 DEF ServeIInv, Works
<1>3. CASE Stops
  BY <1>2, <1>3 DEF Stops
<1>4. QED
  BY <1>1, <1>2, <1>3 DEF Next

\* The loaded rows of new_orders, by district.
LEMMA InitWaits ==
  ASSUME NEW d \in Districts, NEW o
  PROVE  Waits(InitRows, d, o) <=> o \in Oldest(d)..Len(Loaded)
<1>1. DOMAIN InitRows = InitKeys
  BY DEF InitRows
<1>2. ASSUME NEW k \in InitKeys, In(k, "new_orders", d), k[3] = o
      PROVE  o \in Oldest(d)..Len(Loaded)
  <2>1. PICK e \in Districts : \E p \in Oldest(e)..Len(Loaded) : k = NewOrderKey(e, p, 0)
    BY <1>2, InitColumns DEF In
  <2>2. PICK p \in Oldest(e)..Len(Loaded) : k = NewOrderKey(e, p, 0)
    BY <2>1
  <2>3. e = d /\ p = o
    BY <1>2, <2>2, KeyColumns DEF In
  <2>4. QED
    BY <2>3
<1>3. ASSUME o \in Oldest(d)..Len(Loaded)
      PROVE  NewOrderKey(d, o, 0) \in InitKeys
  BY <1>3 DEF InitKeys
<1>4. In(NewOrderKey(d, o, 0), "new_orders", d) /\ NewOrderKey(d, o, 0)[3] = o
  BY KeyColumns DEF In
<1>5. QED
  BY <1>1, <1>2, <1>3, <1>4 DEF Waits

LEMMA ServeInit == Init => ServeIInv
<1> SUFFICES ASSUME Init
             PROVE  ServeIInv
  OBVIOUS
<1>1. db = InitRows /\ \A w \in Workers : at[w] = "idle"
  BY DEF Init
<1>2. DOMAIN InitRows = InitKeys /\ \A k \in InitKeys : InitRows[k] = InitRow(k)
  BY DEF InitRows
<1>3. ASSUME NEW d \in Districts
      PROVE  Served(InitRows, d)
  <2>1. Oldest(d) \in 1..(Len(Loaded) + 1) /\ Len(Loaded) \in Nat
    BY LoadedShape
  <2>2. ASSUME NEW k \in InitKeys, In(k, "orders", d)
        PROVE  /\ k[3] \in 1..Len(Loaded)
               /\ InitRows[k].carrier = IF k[3] < Oldest(d) THEN 1 ELSE 0
    <3>1. PICK e \in Districts, o \in 1..Len(Loaded) : k = OrderKey(e, o, 0)
      BY <2>2, InitColumns DEF In
    <3>2. k[1] = "orders" /\ k[2] = d /\ k[3] = o
      BY <2>2, <3>1, KeyColumns DEF In
    <3>3. InitRow(k) = Order(Loaded[k[3]].c, Len(Loaded[k[3]].lines),
                             IF k[3] < Oldest(k[2]) THEN 1 ELSE 0)
      BY <3>2 DEF InitRow
    <3>4. QED
      BY <1>2, <3>2, <3>3 DEF Order
  <2>3. ASSUME NEW k \in InitKeys, In(k, "order_line", d)
        PROVE  /\ k[3] \in 1..Len(Loaded)
               /\ InitRows[k].dated = (k[3] < Oldest(d))
    <3>1. PICK e \in Districts, o \in 1..Len(Loaded) :
                 \E n \in DOMAIN Loaded[o].lines : k = LineKey(e, o, n, 0)
      BY <2>3, InitColumns DEF In
    <3>2. k[1] = "order_line" /\ k[2] = d /\ k[3] = o
      BY <2>3, <3>1, KeyColumns DEF In
    <3>3. InitRow(k) = Line(Loaded[k[3]].lines[k[4]][1], Loaded[k[3]].lines[k[4]][2],
                            k[3] < Oldest(k[2]))
      BY <3>2 DEF InitRow
    <3>4. InitRow(k).dated = (k[3] < Oldest(k[2]))
      BY <3>3 DEF Line
    <3>5. QED
      BY <1>2, <3>2, <3>4
  <2>4. ASSUME NEW k \in InitKeys, NEW l \in InitKeys,
               In(k, "new_orders", d), In(l, "orders", d), l[3] > k[3]
        PROVE  Waits(InitRows, d, l[3])
    <3>1. Waits(InitRows, d, k[3])
      BY <1>2, <2>4 DEF Waits
    <3>2. k[3] \in Oldest(d)..Len(Loaded) /\ l[3] \in 1..Len(Loaded)
      BY <2>2, <2>4, <3>1, InitWaits
    <3>3. l[3] \in Oldest(d)..Len(Loaded)
      BY <2>1, <2>4, <3>2
    <3>4. QED
      BY <3>3, InitWaits
  <2>5. ASSUME NEW k \in InitKeys, In(k, "orders", d)
        PROVE  Waits(InitRows, d, k[3]) <=> InitRows[k].carrier < 1
    <3>1. InitRows[k].carrier < 1 <=> ~(k[3] < Oldest(d))
      BY <2>2, <2>5
    <3>2. k[3] \in Oldest(d)..Len(Loaded) <=> ~(k[3] < Oldest(d))
      BY <2>1, <2>2, <2>5
    <3>3. QED
      BY <3>1, <3>2, InitWaits
  <2>6. ASSUME NEW k \in InitKeys, In(k, "order_line", d)
        PROVE  Waits(InitRows, d, k[3]) <=> ~InitRows[k].dated
    <3>1. InitRows[k].dated = (k[3] < Oldest(d))
      BY <2>3, <2>6
    <3>2. k[3] \in Oldest(d)..Len(Loaded) <=> ~(k[3] < Oldest(d))
      BY <2>1, <2>3, <2>6
    <3>3. QED
      BY <3>1, <3>2, InitWaits
  <2>7. ASSUME NEW k \in InitKeys, NEW l \in InitKeys,
               In(k, "new_orders", d), In(l, "new_orders", d), k[3] = l[3]
        PROVE  k = l
    <3>1. ASSUME NEW x \in InitKeys, In(x, "new_orders", d)
          PROVE  x = NewOrderKey(d, x[3], 0)
      <4>1. PICK e \in Districts : \E p \in Oldest(e)..Len(Loaded) : x = NewOrderKey(e, p, 0)
        BY <3>1, InitColumns DEF In
      <4>2. PICK p \in Oldest(e)..Len(Loaded) : x = NewOrderKey(e, p, 0)
        BY <4>1
      <4>3. e = d /\ p = x[3]
        BY <3>1, <4>2, KeyColumns DEF In
      <4>4. QED
        BY <4>2, <4>3
    <3>2. QED
      BY <2>7, <3>1
  <2>8. QED
    BY <1>2, <2>4, <2>5, <2>6, <2>7 DEF Served
<1>4. QED
  BY <1>1, <1>3 DEF ServeIInv, Works

LEMMA ServedMeans == RowIInv /\ ServeIInv => OldestDelivered
<1> SUFFICES ASSUME RowIInv, ServeIInv, ~torn, NEW d \in Districts
             PROVE  LET waiting == Ids("new_orders", d)
                    IN  /\ \A o \in waiting, p \in Ids("orders", d) : p > o => p \in waiting
                        /\ \A k \in OfDistrict(db, "orders", d) :
                             k[3] \in waiting <=> db[k].carrier < 1
                        /\ \A l \in OfDistrict(db, "order_line", d) :
                             l[3] \in waiting <=> ~db[l].dated
  BY DEF OldestDelivered
<1>1. Served(db, d)
  BY DEF ServeIInv
<1>2. \A o : o \in Ids("new_orders", d) <=> Waits(db, d, o)
  BY DEF Ids, OfDistrict, Waits, In
<1>3. \A o : o \in Ids("orders", d) <=> \E k \in DOMAIN db : In(k, "orders", d) /\ k[3] = o
  BY DEF Ids, OfDistrict, In
<1>4. \A k, table : k \in OfDistrict(db, table, d) <=> k \in DOMAIN db /\ In(k, table, d)
  BY DEF OfDistrict, In
<1>5. \A o \in Ids("new_orders", d), p \in Ids("orders", d) : p > o => p \in Ids("new_orders", d)
  BY <1>1, <1>2, <1>3 DEF Served, Waits
<1>6. QED
  BY <1>1, <1>2, <1>4, <1>5 DEF Served

LEMMA ServeInvariant == Spec => [](BookIInv /\ RowIInv /\ OrderIInv /\ ServeIInv)
<1>1. Init => BookIInv /\ RowIInv /\ OrderIInv /\ ServeIInv
  BY BookInit, RowInit, OrderInit, ServeInit
<1>2. BookIInv /\ RowIInv /\ OrderIInv /\ ServeIInv /\ [Next]_vars
        => (BookIInv /\ RowIInv /\ OrderIInv /\ ServeIInv)'
  BY BookStep, RowStep, OrderStep, ServeStep
<1>3. QED
  BY <1>1, <1>2, PTL DEF Spec

\* While no Delivery goes on outside of its transaction, the delivered orders of
\* a district are its oldest ones, all of their rows say so and no others do:
\* Deliveries that meet in a district never take the same order twice or one out
\* of turn, though each looks for the oldest in rows that others may have changed.
THEOREM OldestAreDelivered == Spec => []OldestDelivered
BY ServeInvariant, ServedMeans, PTL

---------------------------------------------------------------------------
(* Only Delivery updates orders: any other transaction writes the one order *)
(* that it inserts.                                                         *)

Early == {"read_district", "take_id", "insert_order"}

PlainShape(w) ==
  \A k \in wrote[w] : k[1] = "orders" =>
    /\ IsNewOrder(w) /\ at[w] \notin Early
    /\ k = OrderKey(my[w].d, my[w].o, my[w].id)

PlainIInv ==
  \A w \in Workers : open[w] /\ Works(w) /\ ~IsDelivery(w) => PlainShape(w)

LEMMA PlainMoves ==
  ASSUME PlainIInv, NEW w \in Workers, Steps(w),
         \A v \in Workers \ {w} : open'[v] = open[v] /\ wrote'[v] = wrote[v],
         open'[w] /\ Works(w)' /\ ~IsDelivery(w)' => PlainShape(w)'
  PROVE  PlainIInv'
<1>1. ASSUME NEW v \in Workers \ {w}, open'[v], Works(v)', ~IsDelivery(v)'
      PROVE  PlainShape(v)'
  <2>1. at'[v] = at[v] /\ my'[v] = my[v] /\ open[v] /\ wrote'[v] = wrote[v]
    BY <1>1 DEF Steps
  <2>2. PlainShape(v)
    BY <1>1, <2>1 DEF PlainIInv, Works, IsDelivery
  <2>3. QED
    BY <2>1, <2>2 DEF PlainShape, IsNewOrder
<1>2. QED
  BY <1>1 DEF PlainIInv

\* A statement of NewOrder or Payment.
LEMMA PlainWrite ==
  ASSUME BookIInv, RowIInv, PlainIInv, NEW w \in Workers,
         at[w] \in NewOrderPlaces \cup PaymentPlaces,
         NEW K, NEW rows, NEW place, Does(w, K, rows, place),
         at[w] \notin Early => place \notin Early,
         NEW F, Others(w, F), F \subseteq {"o", "seen", "n"},
         "o" \in F => at[w] \in Early,
         \A k \in K : k[1] # "orders"
  PROVE  PlainIInv'
<1>1. open[w] /\ Works(w) /\ ~IsDelivery(w)
  BY NewOrderKnows, PaymentKnows
     DEF NewOrderPlaces, PaymentPlaces, Works, IsNewOrder, IsPayment, IsDelivery
<1>2. PlainShape(w)
  BY <1>1 DEF PlainIInv
<1>3. /\ Steps(w) /\ at'[w] = place /\ wrote'[w] = wrote[w] \cup K
      /\ \A v \in Workers \ {w} : open'[v] = open[v] /\ wrote'[v] = wrote[v]
  BY <1>1, WriteSplits DEF Does
<1>4. PlainShape(w)'
  <2>1. ASSUME NEW k \in wrote'[w], k[1] = "orders"
        PROVE  /\ IsNewOrder(w)' /\ at'[w] \notin Early
               /\ k = OrderKey(my'[w].d, my'[w].o, my'[w].id)
    <3>1. k \in wrote[w]
      BY <1>3, <2>1
    <3>2. IsNewOrder(w) /\ at[w] \notin Early /\ k = OrderKey(my[w].d, my[w].o, my[w].id)
      BY <1>2, <2>1, <3>1 DEF PlainShape
    <3>3. my'[w].d = my[w].d /\ my'[w].o = my[w].o /\ my'[w].id = my[w].id
          /\ my'[w].lines = my[w].lines
      BY <3>2 DEF Others
    <3>4. QED
      BY <1>3, <3>2, <3>3 DEF IsNewOrder
  <2>2. QED
    BY <2>1 DEF PlainShape
<1>5. QED
  BY <1>3, <1>4, PlainMoves

LEMMA NewOrderPlain ==
  ASSUME BookIInv, RowIInv, PlainIInv, NEW w \in Workers,
         \/ ReadsDistrict(w) \/ TakesId(w) \/ InsertsOrder(w) \/ InsertsNewOrder(w)
         \/ ReadsStock(w) \/ UpdatesStock(w) \/ InsertsLine(w)
  PROVE  PlainIInv'
<1> USE DEF NewOrderPlaces, Early
<1>1. CASE ReadsDistrict(w)
  BY <1>1, ReadsDistrictDoes, PlainWrite
<1>2. CASE TakesId(w)
  <2> DEFINE k == DistrictKey(my[w].d)
             rows == With(Sees(w), [x \in {k} |-> [Sees(w)[k] EXCEPT !.next = @ + 1]])
  <2>1. at[w] = "take_id" /\ Others(w, {}) /\ Does(w, {k}, rows, "insert_order")
    BY <1>2, TakesIdDoes
  <2>2. k[1] # "orders"
    BY KeyColumns
  <2> HIDE DEF k, rows
  <2>3. QED
    BY <2>1, <2>2, PlainWrite
<1>3. CASE InsertsOrder(w)
  <2> DEFINE k == OrderKey(my[w].d, my[w].o, my[w].id)
             rows == With(Sees(w), [x \in {k} |-> Order(my[w].c, Len(my[w].lines), -1)])
  <2>1. at[w] = "insert_order" /\ Others(w, {}) /\ Does(w, {k}, rows, "insert_new_order")
    BY <1>3, InsertsOrderDoes
  <2>2. open[w] /\ IsNewOrder(w) /\ Works(w) /\ ~IsDelivery(w)
    BY <2>1, NewOrderKnows DEF Works, IsNewOrder, IsDelivery
  <2>3. PlainShape(w)
    BY <2>2 DEF PlainIInv
  <2>4. /\ Steps(w) /\ at'[w] = "insert_new_order" /\ wrote'[w] = wrote[w] \cup {k}
        /\ \A v \in Workers \ {w} : open'[v] = open[v] /\ wrote'[v] = wrote[v]
    BY <2>1, <2>2, WriteSplits DEF Does
  <2>5. k = OrderKey(my'[w].d, my'[w].o, my'[w].id) /\ IsNewOrder(w)'
    BY <2>1, <2>2 DEF Others, IsNewOrder
  <2>6. \A x \in wrote[w] : x[1] # "orders"
    BY <2>1, <2>3 DEF PlainShape
  <2> HIDE DEF k
  <2>7. PlainShape(w)'
    BY <2>4, <2>5, <2>6 DEF PlainShape
  <2>8. QED
    BY <2>4, <2>7, PlainMoves
<1>4. CASE InsertsNewOrder(w)
  <2> DEFINE k == NewOrderKey(my[w].d, my[w].o, my[w].id)
             rows == With(Sees(w), [x \in {k} |-> [o_id |-> my[w].o]])
  <2>1. at[w] = "insert_new_order" /\ Others(w, {}) /\ Does(w, {k}, rows, "read_stock")
    BY <1>4, InsertsNewOrderDoes
  <2>2. k[1] # "orders"
    BY KeyColumns
  <2> HIDE DEF k, rows
  <2>3. QED
    BY <2>1, <2>2, PlainWrite
<1>5. CASE ReadsStock(w)
  BY <1>5, ReadsStockDoes, PlainWrite
<1>6. CASE UpdatesStock(w)
  <2> DEFINE k == StockKey(Item(w))
             rows == With(Sees(w), [x \in {k} |-> Restocked(my[w].seen, Quantity(w))])
  <2>1. at[w] = "update_stock" /\ Others(w, {}) /\ Does(w, {k}, rows, "insert_line")
    BY <1>6, UpdatesStockDoes
  <2>2. k[1] # "orders"
    BY KeyColumns
  <2> HIDE DEF k, rows
  <2>3. QED
    BY <2>1, <2>2, PlainWrite
<1>7. CASE InsertsLine(w)
  <2> DEFINE k == LineKey(my[w].d, my[w].o, my[w].n, my[w].id)
             rows == With(Sees(w), [x \in {k} |-> Line(Item(w), Quantity(w), FALSE)])
             place == IF my[w].n < Len(my[w].lines) THEN "read_stock" ELSE "commit"
  <2>1. at[w] = "insert_line" /\ Others(w, {"n", "seen"}) /\ Does(w, {k}, rows, place)
    BY <1>7, InsertsLineDoes
  <2>2. k[1] # "orders" /\ place \notin Early
    BY KeyColumns
  <2> HIDE DEF k, rows, place
  <2>3. QED
    BY <2>1, <2>2, PlainWrite
<1>8. QED
  BY <1>1, <1>2, <1>3, <1>4, <1>5, <1>6, <1>7

LEMMA PaymentPlain ==
  ASSUME BookIInv, RowIInv, PlainIInv, NEW w \in Workers,
         \/ UpdatesWarehouse(w) \/ UpdatesDistrict(w) \/ ReadsCustomer(w)
         \/ UpdatesCustomer(w) \/ InsertsHistory(w)
  PROVE  PlainIInv'
<1> USE DEF PaymentPlaces, Early
<1>1. CASE UpdatesWarehouse(w)
  <2> DEFINE k == WarehouseKey
             rows == With(Sees(w), [x \in {k} |-> [Sees(w)[k] EXCEPT !.ytd = @ + my[w].amount]])
  <2>1. at[w] = "update_warehouse" /\ Others(w, {}) /\ Does(w, {k}, rows, "update_district")
    BY <1>1, UpdatesWarehouseDoes
  <2>2. k[1] # "orders"
    BY KeyColumns
  <2> HIDE DEF k, rows
  <2>3. QED
    BY <2>1, <2>2, PlainWrite
<1>2. CASE UpdatesDistrict(w)
  <2> DEFINE k == DistrictKey(my[w].d)
             rows == With(Sees(w), [x \in {k} |-> [Sees(w)[k] EXCEPT !.ytd = @ + my[w].amount]])
  <2>1. at[w] = "update_district" /\ Others(w, {}) /\ Does(w, {k}, rows, "read_customer")
    BY <1>2, UpdatesDistrictDoes
  <2>2. k[1] # "orders"
    BY KeyColumns
  <2> HIDE DEF k, rows
  <2>3. QED
    BY <2>1, <2>2, PlainWrite
<1>3. CASE ReadsCustomer(w)
  BY <1>3, ReadsCustomerDoes, PlainWrite
<1>4. CASE UpdatesCustomer(w)
  <2> DEFINE k == CustomerKey(my[w].cd, my[w].c)
             row == [Sees(w)[k] EXCEPT !.balance = my[w].seen.balance - my[w].amount,
                                       !.ytd = my[w].seen.ytd + my[w].amount,
                                       !.payments = my[w].seen.payments + 1]
             rows == With(Sees(w), [x \in {k} |-> row])
  <2>1. at[w] = "update_customer" /\ Others(w, {}) /\ Does(w, {k}, rows, "insert_history")
    BY <1>4, UpdatesCustomerDoes
  <2>2. k[1] # "orders"
    BY KeyColumns
  <2> HIDE DEF k, rows
  <2>3. QED
    BY <2>1, <2>2, PlainWrite
<1>5. CASE InsertsHistory(w)
  <2> DEFINE k == HistoryKey(my[w].cd, my[w].c, my[w].id)
             rows == With(Sees(w), [x \in {k} |-> [d |-> my[w].d, amount |-> my[w].amount]])
  <2>1. at[w] = "insert_history" /\ Others(w, {}) /\ Does(w, {k}, rows, "commit")
    BY <1>5, InsertsHistoryDoes
  <2>2. k[1] # "orders"
    BY KeyColumns
  <2> HIDE DEF k, rows
  <2>3. QED
    BY <2>1, <2>2, PlainWrite
<1>6. QED
  BY <1>1, <1>2, <1>3, <1>4, <1>5

LEMMA PlainStep ==
  BookIInv /\ RowIInv /\ PlainIInv /\ [Next]_vars => PlainIInv'
<1> SUFFICES ASSUME BookIInv, RowIInv, PlainIInv, [Next]_vars
             PROVE  PlainIInv'
  OBVIOUS
<1>1. ASSUME NEW w \in Workers, Step(w)
      PROVE  PlainIInv'
  <2>1. CASE BeginsNewOrder(w) \/ BeginsPayment(w) \/ BeginsDelivery(w)
    <3>1. ASSUME NEW draw, NEW place, Starts(w, draw, place)
          PROVE  PlainIInv'
      <4>1. wrote'[w] = {} /\ Steps(w)
            /\ \A v \in Workers \ {w} : open'[v] = open[v] /\ wrote'[v] = wrote[v]
        BY <3>1, BeginsDoes
      <4>2. PlainShape(w)'
        BY <4>1 DEF PlainShape
      <4>3. QED
        BY <4>1, <4>2, PlainMoves
    <3>2. QED
      BY <2>1, <3>1 DEF BeginsNewOrder, BeginsPayment, BeginsDelivery
  <2>2. CASE \/ ReadsDistrict(w) \/ TakesId(w) \/ InsertsOrder(w) \/ InsertsNewOrder(w)
             \/ ReadsStock(w) \/ UpdatesStock(w) \/ InsertsLine(w)
    BY <2>2, NewOrderPlain
  <2>3. CASE \/ UpdatesWarehouse(w) \/ UpdatesDistrict(w) \/ ReadsCustomer(w)
             \/ UpdatesCustomer(w) \/ InsertsHistory(w)
    BY <2>3, PaymentPlain
  <2>4. CASE \/ FindsOldest(w) \/ DeletesNewOrder(w) \/ UpdatesOrder(w) \/ UpdatesLines(w)
             \/ ReadsOrder(w) \/ SumsAmounts(w) \/ CreditsCustomer(w)
    <3>1. PICK K, rows, place, F : Does(w, K, rows, place) /\ Others(w, F)
      BY <2>4, DeliveryIsMild
    <3>2. at[w] \in DeliveryPlaces /\ IsDelivery(w)
      BY <2>4, DeliveryIsMild, DeliveryKnows
    <3>3. IsDelivery(w)' /\ Steps(w)
      BY <3>1, <3>2 DEF IsDelivery, Others, Does
    <3>4. \A v \in Workers \ {w} : open'[v] = open[v] /\ wrote'[v] = wrote[v]
      BY <3>1, WriteSplits DEF Does
    <3>5. QED
      BY <3>3, <3>4, PlainMoves
  <2>5. CASE SkipsDistrict(w)
    <3>1. at[w] = "find_oldest" /\ NextDistrict(w) /\ (Reads \/ Ends(w))
      BY <2>5 DEF SkipsDistrict
    <3>2. IsDelivery(w)
      BY <3>1, DeliveryKnows DEF DeliveryPlaces
    <3>3. Steps(w) /\ IsDelivery(w)'
      BY <3>1, <3>2, MyShape, NextDistrictDoes DEF IsDelivery, Others
    <3>4. \A v \in Workers \ {w} : open'[v] = open[v] /\ wrote'[v] = wrote[v]
      BY <3>1, LeavesDoes DEF Reads, serverVars
    <3>5. QED
      BY <3>3, <3>4, PlainMoves
  <2>6. CASE Commits(w) \/ Refused(w) \/ RollsBack(w)
    <3>1. Reads \/ Ends(w) \/ CommitsWork(w)
      BY <2>6 DEF Commits, Refused, RollsBack
    <3>2. Steps(w) /\ ~Works(w)'
      BY <2>6, MyShape, Idle, Keeps DEF Works, Commits, Refused, RollsBack, At
    <3>3. \A v \in Workers \ {w} : open'[v] = open[v] /\ wrote'[v] = wrote[v]
      BY <3>1, LeavesDoes DEF Reads, serverVars
    <3>4. QED
      BY <3>2, <3>3, PlainMoves
  <2>7. QED
    BY <1>1, <2>1, <2>2, <2>3, <2>4, <2>5, <2>6 DEF Step
<1>2. CASE UNCHANGED vars
  BY <1>2 DEF vars, serverVars, PlainIInv, PlainShape, Works, IsDelivery, IsNewOrder
<1>3. CASE Stops
  BY <1>2, <1>3 DEF Stops
<1>4. QED
  BY <1>1, <1>2, <1>3 DEF Next

LEMMA PlainInit == Init => PlainIInv
BY DEF Init, PlainIInv

---------------------------------------------------------------------------
(* The order book of any rows. *)

OrderIn(rows, d, o) ==
  LET keys    == OfOrder(rows, "orders", d, o)
      k       == CHOOSE k \in keys : TRUE
      line(n) == LineKey(d, o, n, k[5])
  IN  IF Cardinality(keys) = 1 /\ \A n \in 1..rows[k].cnt : line(n) \in DOMAIN rows
      THEN [c |-> rows[k].c,
            lines |-> [n \in 1..rows[k].cnt |-> <<rows[line(n)].item, rows[line(n)].amount>>]]
      ELSE Missing

Bookings(rows, d) == [o \in 1..(NextId(rows, d) - 1) |-> OrderIn(rows, d, o)]

BookOf(rows) == [d \in Districts |-> Bookings(rows, d)]

Carried(rows, d) == {k \in OfDistrict(rows, "orders", d) : rows[k].carrier > 0}

DeliveredOf(rows) == [d \in Districts |-> Cardinality(Carried(rows, d))]

PaidOf(rows) ==
  [k \in Districts \X Customers |->
     LET row == rows[CustomerKey(k[1], k[2])]
     IN  [sum |-> row.ytd, number |-> row.payments]]

\* The steps of the order book, as steps of the rows.
LEMMA BookActions ==
  /\ BookOf(db') = BookOf(db) /\ DeliveredOf(db') = DeliveredOf(db) /\ PaidOf(db') = PaidOf(db)
     /\ (torn' = torn \/ torn' = TRUE) => [Book!Next]_(Book!vars)
  /\ \A d \in Districts, order \in Orders :
       /\ BookOf(db') = [BookOf(db) EXCEPT ![d] = Append(@, order)]
       /\ DeliveredOf(db') = DeliveredOf(db) /\ PaidOf(db') = PaidOf(db) /\ torn' = torn
       => Book!Next
  /\ \A k \in Districts \X Customers, amount \in Amounts :
       /\ PaidOf(db') = [PaidOf(db) EXCEPT ![k] = [sum |-> @.sum + amount, number |-> @.number + 1]]
       /\ BookOf(db') = BookOf(db) /\ DeliveredOf(db') = DeliveredOf(db) /\ torn' = torn
       => Book!Next
  /\ \A S \in SUBSET Districts :
       /\ \A d \in S : DeliveredOf(db)[d] < Len(BookOf(db)[d])
       /\ DeliveredOf(db') = [d \in Districts |-> IF d \in S THEN DeliveredOf(db)[d] + 1
                                                             ELSE DeliveredOf(db)[d]]
       /\ BookOf(db') = BookOf(db) /\ PaidOf(db') = PaidOf(db) /\ torn' = torn
       => Book!Next
  /\ torn /\ torn' = torn /\ BookOf(db') = BookOf(db) /\ PaidOf(db') = PaidOf(db)
     /\ DeliveredOf(db') \in [Districts -> Nat] => Book!Next
<1> USE DEF BookOf, Bookings, DeliveredOf, PaidOf, Carried, OrderIn, NextId, TheOrder
<1>1. ASSUME BookOf(db') = BookOf(db), DeliveredOf(db') = DeliveredOf(db),
             PaidOf(db') = PaidOf(db), torn' = torn \/ torn' = TRUE
      PROVE  [Book!Next]_(Book!vars)
  BY <1>1 DEF Book!vars, Book!Next, Book!Tear
<1>2. ASSUME NEW d \in Districts, NEW order \in Orders,
             BookOf(db') = [BookOf(db) EXCEPT ![d] = Append(@, order)],
             DeliveredOf(db') = DeliveredOf(db), PaidOf(db') = PaidOf(db), torn' = torn
      PROVE  Book!Next
  <2>1. Book!NewOrder(d, order)
    BY <1>2 DEF Book!NewOrder
  <2>2. QED
    BY <2>1 DEF Book!Next, Book!Orders, Orders
<1>3. ASSUME NEW k \in Districts \X Customers, NEW amount \in Amounts,
             PaidOf(db') = [PaidOf(db) EXCEPT ![k] = [sum |-> @.sum + amount,
                                                      number |-> @.number + 1]],
             BookOf(db') = BookOf(db), DeliveredOf(db') = DeliveredOf(db), torn' = torn
      PROVE  Book!Next
  <2>1. Book!Payment(k, amount)
    BY <1>3 DEF Book!Payment
  <2>2. QED
    BY <2>1 DEF Book!Next
<1>4. ASSUME NEW S \in SUBSET Districts,
             \A d \in S : DeliveredOf(db)[d] < Len(BookOf(db)[d]),
             DeliveredOf(db') = [d \in Districts |-> IF d \in S THEN DeliveredOf(db)[d] + 1
                                                                ELSE DeliveredOf(db)[d]],
             BookOf(db') = BookOf(db), PaidOf(db') = PaidOf(db), torn' = torn
      PROVE  Book!Next
  <2>1. Book!Delivery(S)
    BY <1>4 DEF Book!Delivery
  <2>2. QED
    BY <2>1 DEF Book!Next
<1>5. ASSUME torn, torn' = torn, BookOf(db') = BookOf(db), PaidOf(db') = PaidOf(db),
             DeliveredOf(db') \in [Districts -> Nat]
      PROVE  Book!Next
  BY <1>5 DEF Book!TornDelivery, Book!Next
<1>6. QED
  BY <1>1, <1>2, <1>3, <1>4, <1>5

\* The order that is there once.
LEMMA OrderOf ==
  ASSUME NEW rows, NEW d, NEW o, NEW by,
         NEW k \in DOMAIN rows, In(k, "orders", d), k[3] = o, k[5] = by,
         \A l \in DOMAIN rows : In(l, "orders", d) /\ l[3] = o => l = k
  PROVE  OrderIn(rows, d, o) =
           IF \A n \in 1..rows[k].cnt : LineKey(d, o, n, by) \in DOMAIN rows
           THEN [c |-> rows[k].c,
                 lines |-> [n \in 1..rows[k].cnt |->
                              <<rows[LineKey(d, o, n, by)].item,
                                rows[LineKey(d, o, n, by)].amount>>]]
           ELSE Missing
<1>1. OfOrder(rows, "orders", d, o) = {k}
  BY DEF OfOrder, In
<1>2. Cardinality({k}) = 1
  BY FS_Singleton
<1>3. (CHOOSE x \in {k} : TRUE) = k
  OBVIOUS
<1>4. QED
  BY <1>1, <1>2, <1>3 DEF OrderIn

\* It stays what it is when no line is added to it.
LEMMA OrderStays ==
  ASSUME NEW old, NEW new, Kept(old, new), NEW d, NEW o,
         NEW k \in DOMAIN old, In(k, "orders", d), k[3] = o,
         \A l \in DOMAIN old : In(l, "orders", d) /\ l[3] = o => l = k,
         \A l \in DOMAIN new : In(l, "orders", d) /\ l[3] = o => l = k,
         \A l \in DOMAIN new : In(l, "order_line", d) /\ l[3] = o => l \in DOMAIN old
  PROVE  OrderIn(new, d, o) = OrderIn(old, d, o)
<1> DEFINE line(n) == LineKey(d, o, n, k[5])
<1>1. k \in DOMAIN new /\ new[k].c = old[k].c /\ new[k].cnt = old[k].cnt
  BY DEF Kept, SameOrder, In
<1>2. \A n : In(line(n), "order_line", d) /\ line(n)[3] = o
  BY KeyColumns DEF In
<1>3. \A n : line(n) \in DOMAIN new <=> line(n) \in DOMAIN old
  BY <1>2 DEF Kept, In
<1>4. \A n : line(n) \in DOMAIN old =>
        new[line(n)].item = old[line(n)].item /\ new[line(n)].amount = old[line(n)].amount
  BY <1>2 DEF Kept, In, SameOrder
<1>5. OrderIn(old, d, o) =
        IF \A n \in 1..old[k].cnt : line(n) \in DOMAIN old
        THEN [c |-> old[k].c,
              lines |-> [n \in 1..old[k].cnt |-> <<old[line(n)].item, old[line(n)].amount>>]]
        ELSE Missing
  BY OrderOf
<1>6. OrderIn(new, d, o) =
        IF \A n \in 1..new[k].cnt : line(n) \in DOMAIN new
        THEN [c |-> new[k].c,
              lines |-> [n \in 1..new[k].cnt |-> <<new[line(n)].item, new[line(n)].amount>>]]
        ELSE Missing
  BY <1>1, OrderOf
<1> HIDE DEF line
<1>7. CASE \A n \in 1..old[k].cnt : line(n) \in DOMAIN old
  <2>1. \A n \in 1..new[k].cnt : line(n) \in DOMAIN new
    BY <1>1, <1>3, <1>7
  <2>2. [n \in 1..old[k].cnt |-> <<old[line(n)].item, old[line(n)].amount>>]
          = [n \in 1..new[k].cnt |-> <<new[line(n)].item, new[line(n)].amount>>]
    BY <1>1, <1>4, <1>7
  <2>3. QED
    BY <1>1, <1>5, <1>6, <1>7, <2>1, <2>2
<1>8. CASE ~ \A n \in 1..old[k].cnt : line(n) \in DOMAIN old
  <2>1. ~ \A n \in 1..new[k].cnt : line(n) \in DOMAIN new
    BY <1>1, <1>3, <1>8
  <2>2. QED
    BY <1>5, <1>6, <1>8, <2>1
<1>9. QED
  BY <1>7, <1>8

\* The orders of a district stay up to the next id when only newer ones come.
LEMMA BookingsStay ==
  ASSUME NEW old, NEW new, Kept(old, new), NEW d \in Districts, Dense(old, d), Dense(new, d),
         NextId(old, d) \in Nat, NextId(new, d) \in Nat, NextId(old, d) <= NextId(new, d),
         \A l \in DOMAIN new : In(l, "order_line", d) /\ l \notin DOMAIN old =>
           l[3] = NextId(old, d)
  PROVE  \A o \in 1..(NextId(old, d) - 1) : OrderIn(new, d, o) = OrderIn(old, d, o)
<1> SUFFICES ASSUME NEW o \in 1..(NextId(old, d) - 1)
             PROVE  OrderIn(new, d, o) = OrderIn(old, d, o)
  OBVIOUS
<1>1. PICK k \in DOMAIN old : In(k, "orders", d) /\ k[3] = o
  BY DEF Dense, In
<1>2. k \in DOMAIN new
  BY <1>1 DEF Kept, In
<1>3. \A l \in DOMAIN old : In(l, "orders", d) /\ l[3] = o => l = k
  BY <1>1 DEF Dense, In
<1>4. \A l \in DOMAIN new : In(l, "orders", d) /\ l[3] = o => l = k
  BY <1>1, <1>2 DEF Dense, In
<1>5. o # NextId(old, d)
  OBVIOUS
<1>6. \A l \in DOMAIN new : In(l, "order_line", d) /\ l[3] = o => l \in DOMAIN old
  BY <1>5
<1>7. QED
  BY <1>1, <1>3, <1>4, <1>6, OrderStays

\* Without a new order the book of the district is the same.
LEMMA SameBookings ==
  ASSUME NEW old, NEW new, Kept(old, new), NEW d \in Districts, Dense(old, d), Dense(new, d),
         NextId(old, d) \in Nat \ {0}, NextId(new, d) \in Nat \ {0},
         \A l \in DOMAIN new : In(l, "order_line", d) \/ In(l, "orders", d) => l \in DOMAIN old
  PROVE  NextId(new, d) = NextId(old, d) /\ Bookings(new, d) = Bookings(old, d)
<1>1. \A k : k \in DOMAIN new /\ In(k, "orders", d) <=> k \in DOMAIN old /\ In(k, "orders", d)
  BY DEF Kept, In
<1>2. \A o : o \in 1..(NextId(old, d) - 1) <=> \E k \in DOMAIN old : In(k, "orders", d) /\ k[3] = o
  BY DEF Dense, In
<1>3. \A o : o \in 1..(NextId(new, d) - 1) <=> \E k \in DOMAIN new : In(k, "orders", d) /\ k[3] = o
  BY DEF Dense, In
<1>4. \A o : o \in 1..(NextId(new, d) - 1) <=> o \in 1..(NextId(old, d) - 1)
  BY <1>1, <1>2, <1>3
<1>5. NextId(new, d) = NextId(old, d)
  <2>1. ASSUME NEW m \in Nat \ {0}, NEW n \in Nat \ {0}, m < n,
               \A o : o \in 1..(m - 1) <=> o \in 1..(n - 1)
        PROVE  FALSE
    <3>1. n - 1 \in 1..(n - 1) /\ n - 1 \notin 1..(m - 1)
      BY <2>1
    <3>2. QED
      BY <2>1, <3>1
  <2>2. QED
    BY <1>4, <2>1
<1>6. \A o \in 1..(NextId(old, d) - 1) : OrderIn(new, d, o) = OrderIn(old, d, o)
  BY <1>5, BookingsStay
<1>7. QED
  BY <1>5, <1>6 DEF Bookings

---------------------------------------------------------------------------
(* What a COMMIT makes of the order book. *)

LEMMA RebuiltLines ==
  ASSUME NEW lines \in Lines
  PROVE  [n \in 1..Len(lines) |-> <<lines[n][1], lines[n][2]>>] = lines
<1>1. lines \in Seq(Items \X (1..10))
  BY DEF Lines
<1>2. lines = [n \in 1..Len(lines) |-> lines[n]]
  BY <1>1
<1>3. \A n \in 1..Len(lines) : lines[n] \in Items \X (1..10)
  BY <1>1, ElementOfSeq
<1>4. \A n \in 1..Len(lines) : <<lines[n][1], lines[n][2]>> = lines[n]
  BY <1>3
<1>5. QED
  BY <1>2, <1>4

\* Ids that are dense before and after an order was added.
LEMMA NextIdAdds ==
  ASSUME NEW m \in Nat \ {0}, NEW n \in Nat \ {0},
         \A o : o \in 1..(n - 1) <=> o \in 1..(m - 1) \/ o = m
  PROVE  n = m + 1
<1>1. m \in 1..(n - 1)
  OBVIOUS
<1>2. m < n
  BY <1>1
<1>3. n - 1 \in 1..(n - 1)
  BY <1>2
<1>4. n - 1 \in 1..(m - 1) \/ n - 1 = m
  BY <1>3
<1>5. QED
  BY <1>2, <1>4

LEMMA NewOrderBooks ==
  ASSUME BookIInv, RowIInv, OrderIInv, NEW w \in Workers, open[w], at[w] = "commit",
         IsNewOrder(w), NEW M, M = Merged(w), HasDistricts(M), \A d \in Districts : Dense(M, d)
  PROVE  \E d \in Districts, order \in Orders :
           BookOf(M) = [BookOf(db) EXCEPT ![d] = Append(@, order)]
<1> DEFINE d == my[w].d
           o == my[w].o
           lines == my[w].lines
           c == my[w].c
           new == OrderKey(d, o, my[w].id)
           line(n) == LineKey(d, o, n, my[w].id)
<1>1. Works(w) /\ DrawTyped(w)
  BY DEF Works, RowIInv, RowShape
<1>2. WorkShape(w)
  BY <1>1 DEF OrderIInv
<1>3. d \in Districts /\ lines \in Baskets /\ c \in Customers /\ my[w].n = Len(lines) + 1
      /\ lines # <<>>
  BY <1>1 DEF DrawTyped, IsNewOrder
<1>4. lines \in Lines /\ Len(lines) \in Nat \ {0}
  BY <1>3, BasketsAssumption, BasketShape
<1>5. new \in InsertedBy(w) /\ \A n \in 1..Len(lines) : line(n) \in InsertedBy(w)
  BY <1>3, <1>4, InsertsMember DEF InsertedBy
<1>6. \A k \in InsertedBy(w) : k \in DOMAIN M /\ M[k] = Inserted(my[w], k) /\ k \notin DOMAIN db
  <2>1. ASSUME NEW k \in InsertedBy(w)
        PROVE  k \in DOMAIN M /\ M[k] = Inserted(my[w], k) /\ k \notin DOMAIN db
    <3>1. k \in wrote[w] /\ k \in DOMAIN view[w] /\ k \notin DOMAIN db
          /\ view[w][k] = Inserted(my[w], k)
      BY <1>2 DEF WorkShape
    <3>2. QED
      BY <3>1, MergedRows
  <2>2. QED
    BY <2>1
<1>7. In(new, "orders", d) /\ new[3] = o /\ new[5] = my[w].id /\ new[1] = "orders"
  BY KeyColumns DEF In
<1>8. \A n : line(n)[1] = "order_line" /\ line(n)[4] = n
  BY KeyColumns
<1>9. /\ Kept(db, M)
      /\ \A k \in DOMAIN M : k[1] \in OrderTables /\ k \notin DOMAIN db =>
           /\ k[2] = d /\ k[3] = o /\ o = NextId(db, d)
           /\ k[1] = "orders" => k = new
  BY CommitBrings
<1>10. o = NextId(db, d)
  BY <1>5, <1>6, <1>7, <1>9 DEF OrderTables
<1>11. \A e \in Districts : /\ Dense(db, e)
                            /\ NextId(db, e) \in Nat \ {0} /\ NextId(M, e) \in Nat \ {0}
  BY DenseMeans, HasDistrict DEF BookIInv
<1>12. M[new].c = c /\ M[new].cnt = Len(lines)
  <2>1. M[new] = Inserted(my[w], new)
    BY <1>5, <1>6
  <2>2. Inserted(my[w], new) = Order(c, Len(lines), -1)
    BY <1>7 DEF Inserted
  <2> HIDE DEF new, c, lines
  <2>3. QED
    BY <2>1, <2>2 DEF Order
<1>13. \A n \in 1..Len(lines) :
         /\ line(n) \in DOMAIN M
         /\ M[line(n)].item = lines[n][1] /\ M[line(n)].amount = lines[n][2]
  <2>1. ASSUME NEW n \in 1..Len(lines)
        PROVE  /\ line(n) \in DOMAIN M
               /\ M[line(n)].item = lines[n][1] /\ M[line(n)].amount = lines[n][2]
    <3>1. line(n) \in DOMAIN M /\ M[line(n)] = Inserted(my[w], line(n))
      BY <1>5, <1>6
    <3>2. Inserted(my[w], line(n)) = Line(lines[n][1], lines[n][2], FALSE)
      BY <1>8 DEF Inserted
    <3> HIDE DEF line
    <3>3. QED
      BY <3>1, <3>2 DEF Line
  <2>2. QED
    BY <2>1
<1> DEFINE order == [c |-> c, lines |-> lines]
<1>14. OrderIn(M, d, o) = order
  <2>1. new \in DOMAIN M /\ \A l \in DOMAIN M : In(l, "orders", d) /\ l[3] = o => l = new
    <3>1. new \in DOMAIN M
      BY <1>5, <1>6
    <3> HIDE DEF new, d, o
    <3>2. QED
      BY <1>3, <1>7, <3>1 DEF Dense, In
  <2>2. OrderIn(M, d, o) =
          IF \A n \in 1..M[new].cnt : line(n) \in DOMAIN M
          THEN [c |-> M[new].c,
                lines |-> [n \in 1..M[new].cnt |-> <<M[line(n)].item, M[line(n)].amount>>]]
          ELSE Missing
    <3> DEFINE by == my[w].id
    <3>1. new[5] = by
      BY <1>7
    <3> HIDE DEF new, d, o, by
    <3>2. OrderIn(M, d, o) =
            IF \A n \in 1..M[new].cnt : LineKey(d, o, n, by) \in DOMAIN M
            THEN [c |-> M[new].c,
                  lines |-> [n \in 1..M[new].cnt |->
                               <<M[LineKey(d, o, n, by)].item, M[LineKey(d, o, n, by)].amount>>]]
            ELSE Missing
      BY <1>7, <2>1, <3>1, OrderOf
    <3>3. QED
      BY <3>2 DEF by
  <2> HIDE DEF new, line, lines, c, d, o
  <2>3. [n \in 1..M[new].cnt |-> <<M[line(n)].item, M[line(n)].amount>>]
          = [n \in 1..Len(lines) |-> <<lines[n][1], lines[n][2]>>]
    BY <1>12, <1>13
  <2>4. \A n \in 1..M[new].cnt : line(n) \in DOMAIN M
    BY <1>12, <1>13
  <2>5. QED
    BY <1>4, <1>12, <2>2, <2>3, <2>4, RebuiltLines
<1>15. order \in Orders
  BY <1>3 DEF Orders
<1> HIDE DEF order
<1>16. Bookings(M, d) = Append(Bookings(db, d), order)
  <2>1. \A k : k \in DOMAIN M /\ In(k, "orders", d)
                 <=> (k \in DOMAIN db /\ In(k, "orders", d)) \/ k = new
    <3>1. new \in DOMAIN M
      BY <1>5, <1>6
    <3> HIDE DEF new, d, o
    <3>2. QED
      BY <1>7, <1>9, <3>1 DEF Kept, In, OrderTables
  <2>2. \A x : x \in 1..(NextId(M, d) - 1) <=> x \in 1..(NextId(db, d) - 1) \/ x = NextId(db, d)
    <3> HIDE DEF new, d, o
    <3>1. \A x : x \in 1..(NextId(M, d) - 1)
                   <=> \E k \in DOMAIN M : In(k, "orders", d) /\ k[3] = x
      BY <1>3 DEF Dense, In
    <3>2. \A x : x \in 1..(NextId(db, d) - 1)
                   <=> \E k \in DOMAIN db : In(k, "orders", d) /\ k[3] = x
      BY <1>3, <1>11 DEF Dense, In
    <3>3. QED
      BY <1>7, <1>10, <2>1, <3>1, <3>2
  <2>3. NextId(M, d) = NextId(db, d) + 1
    BY <1>3, <1>11, <2>2, NextIdAdds
  <2>4. \A x \in 1..(NextId(db, d) - 1) : OrderIn(M, d, x) = OrderIn(db, d, x)
    <3>1. \A l \in DOMAIN M : In(l, "order_line", d) /\ l \notin DOMAIN db => l[3] = NextId(db, d)
      BY <1>9, <1>10 DEF In, OrderTables
    <3>2. NextId(db, d) <= NextId(M, d)
      BY <1>3, <1>11, <2>3
    <3> HIDE DEF d, o
    <3>3. QED
      BY <1>3, <1>9, <1>11, <3>1, <3>2, BookingsStay
  <2> HIDE DEF d, o
  <2> DEFINE N == NextId(db, d) - 1
             S == {OrderIn(db, d, x) : x \in 1..N} \cup {order}
             old == Bookings(db, d)
  <2>5. N \in Nat /\ N + 1 = NextId(db, d) /\ NextId(M, d) - 1 = N + 1
    BY <1>3, <1>11, <2>3
  <2>6. old \in Seq(S) /\ Len(old) = N /\ \A x \in 1..N : old[x] = OrderIn(db, d, x)
    <3>1. old = [x \in 1..N |-> OrderIn(db, d, x)]
      BY DEF Bookings
    <3>2. old \in [1..N -> S]
      BY <3>1
    <3> HIDE DEF old, N, S
    <3>3. QED
      BY <2>5, <3>1, <3>2
  <2>7. order \in S
    OBVIOUS
  <2>8. Bookings(M, d) = [x \in 1..(N + 1) |-> OrderIn(M, d, x)]
    BY <2>5 DEF Bookings
  <2>9. \A x \in 1..N : OrderIn(M, d, x) = OrderIn(db, d, x)
    BY <2>4
  <2>10. OrderIn(M, d, N + 1) = order
    BY <1>10, <1>14, <2>5
  <2> HIDE DEF old, N, S
  <2> DEFINE app == Append(old, order)
  <2>11. /\ app \in Seq(S) /\ Len(app) = N + 1
         /\ \A x \in 1..N : app[x] = old[x]
         /\ app[N + 1] = order
    BY <2>6, <2>7, AppendProperties
  <2> HIDE DEF app
  <2>12. \A x \in 1..(N + 1) : OrderIn(M, d, x) = app[x]
    <3>1. \A x \in 1..(N + 1) : x \in 1..N \/ x = N + 1
      BY <2>5
    <3>2. QED
      BY <2>6, <2>9, <2>10, <2>11, <3>1
  <2>13. app = [x \in 1..(N + 1) |-> app[x]]
    BY <2>5, <2>11
  <2>14. Bookings(M, d) = app
    BY <2>8, <2>12, <2>13
  <2>15. QED
    BY <2>14 DEF old, app
<1>17. ASSUME NEW e \in Districts, e # d
       PROVE  Bookings(M, e) = Bookings(db, e)
  <2>1. \A l \in DOMAIN M : In(l, "order_line", e) \/ In(l, "orders", e) => l \in DOMAIN db
    BY <1>9, <1>17 DEF In, OrderTables
  <2>2. QED
    BY <1>9, <1>11, <2>1, SameBookings
<1>18. BookOf(M) = [BookOf(db) EXCEPT ![d] = Append(@, order)]
  <2> HIDE DEF d, o
  <2>1. QED
    BY <1>3, <1>16, <1>17 DEF BookOf
<1>19. QED
  BY <1>3, <1>15, <1>18

\* The districts of which a transaction inserts no order keep their book.
LEMMA OtherBooks ==
  ASSUME BookIInv, RowIInv, OrderIInv, NEW w \in Workers, open[w], at[w] = "commit",
         ~IsNewOrder(w), NEW M, M = Merged(w), HasDistricts(M), \A d \in Districts : Dense(M, d)
  PROVE  BookOf(M) = BookOf(db)
<1>1. /\ Kept(db, M)
      /\ \A k \in DOMAIN M : k[1] \in OrderTables => k \in DOMAIN db
  BY CommitBrings DEF IsNewOrder
<1>2. \A e \in Districts : /\ Dense(db, e)
                           /\ NextId(db, e) \in Nat \ {0} /\ NextId(M, e) \in Nat \ {0}
  BY DenseMeans, HasDistrict DEF BookIInv
<1>3. \A e \in Districts : Bookings(M, e) = Bookings(db, e)
  BY <1>1, <1>2, SameBookings DEF In, OrderTables
<1>4. QED
  BY <1>3 DEF BookOf

\* Only Delivery changes the delivered orders.
LEMMA OtherCarried ==
  ASSUME RowIInv, OrderIInv, PlainIInv, NEW w \in Workers, open[w], at[w] = "commit",
         ~IsDelivery(w), NEW M, M = Merged(w)
  PROVE  DeliveredOf(M) = DeliveredOf(db)
<1>1. Works(w)
  BY DEF Works
<1>2. PlainShape(w) /\ WorkShape(w)
  BY <1>1 DEF PlainIInv, OrderIInv
<1>3. ASSUME NEW k \in wrote[w], k[1] = "orders"
      PROVE  k \notin DOMAIN db /\ k \in DOMAIN view[w] /\ ~(view[w][k].carrier > 0)
  <2>1. IsNewOrder(w) /\ k = OrderKey(my[w].d, my[w].o, my[w].id)
    BY <1>2, <1>3 DEF PlainShape
  <2>2. k \in InsertedBy(w)
    BY <2>1, InsertsMember DEF InsertedBy, IsNewOrder
  <2>3. k \notin DOMAIN db /\ k \in DOMAIN view[w] /\ view[w][k] = Inserted(my[w], k)
    BY <1>2, <2>2 DEF WorkShape
  <2>4. Inserted(my[w], k) = Order(my[w].c, Len(my[w].lines), -1)
    BY <1>3 DEF Inserted
  <2>5. view[w][k].carrier = -1
    BY <2>3, <2>4 DEF Order
  <2>6. QED
    BY <2>3, <2>5
<1>4. ASSUME NEW d \in Districts
      PROVE  Carried(M, d) = Carried(db, d)
  <2>1. \A k : k \in Carried(M, d) <=> k \in DOMAIN M /\ k[1] = "orders" /\ k[2] = d
                                       /\ M[k].carrier > 0
    BY DEF Carried, OfDistrict
  <2>2. \A k : k \in Carried(db, d) <=> k \in DOMAIN db /\ k[1] = "orders" /\ k[2] = d
                                        /\ db[k].carrier > 0
    BY DEF Carried, OfDistrict
  <2>3. ASSUME NEW k
        PROVE  k \in Carried(M, d) <=> k \in Carried(db, d)
    <3>1. CASE k \in wrote[w] /\ k[1] = "orders"
      BY <1>3, <2>1, <2>2, <3>1, MergedRows
    <3>2. CASE k \notin wrote[w]
      BY <2>1, <2>2, <3>2, MergedRows
    <3>3. CASE k[1] # "orders"
      BY <2>1, <2>2, <3>3
    <3>4. QED
      BY <3>1, <3>2, <3>3
  <2>4. QED
    BY <2>3
<1>5. QED
  BY <1>4 DEF DeliveredOf

LEMMA CarriedType ==
  ASSUME NEW rows, Good(rows)
  PROVE  /\ \A d \in Districts : IsFiniteSet(Carried(rows, d))
         /\ DeliveredOf(rows) \in [Districts -> Nat]
<1>1. ASSUME NEW d \in Districts
      PROVE  IsFiniteSet(Carried(rows, d)) /\ Cardinality(Carried(rows, d)) \in Nat
  <2>1. Carried(rows, d) \in SUBSET (DOMAIN rows) /\ IsFiniteSet(DOMAIN rows)
    BY DEF Carried, OfDistrict, Good
  <2>2. IsFiniteSet(Carried(rows, d))
    BY <2>1, FS_Subset
  <2>3. QED
    BY <2>2, FS_CardinalityType
<1>2. QED
  BY <1>1 DEF DeliveredOf

\* There are at most as many delivered orders as there are orders.
LEMMA CarriedFits ==
  ASSUME NEW rows, Good(rows), HasDistricts(rows), NEW d \in Districts, Dense(rows, d)
  PROVE  Cardinality(Carried(rows, d)) <= NextId(rows, d) - 1
<1> DEFINE S == Carried(rows, d)
           T == 1..(NextId(rows, d) - 1)
           f == [k \in S |-> k[3]]
<1>1. NextId(rows, d) \in Nat \ {0}
  BY HasDistrict
<1>2. \A k \in S : k \in DOMAIN rows /\ k[1] = "orders" /\ k[2] = d
  BY DEF Carried, OfDistrict
<1>3. \A k \in S : k[3] \in T
  BY <1>2 DEF Dense
<1>4. \A k, l \in S : k[3] = l[3] => k = l
  BY <1>2 DEF Dense
<1> HIDE DEF S, T
<1>5. f \in Injection(S, T)
  BY <1>3, <1>4 DEF Injection, IsInjective
<1>6. IsFiniteSet(T) /\ Cardinality(T) = NextId(rows, d) - 1
  <2>1. IsFiniteSet(T)
        /\ Cardinality(T) = IF 1 > NextId(rows, d) - 1 THEN 0 ELSE NextId(rows, d) - 1 - 1 + 1
    BY <1>1, FS_Interval DEF T
  <2>2. QED
    BY <1>1, <2>1
<1>7. QED
  BY <1>5, <1>6, FS_Injection DEF S

\* A COMMIT of Delivery delivers one order of each district that it took one of.
LEMMA DeliveryBooks ==
  ASSUME BookIInv, RowIInv, OrderIInv, ServeIInv, NEW w \in Workers, open[w], at[w] = "commit",
         ~torn, NEW M, M = Merged(w), Good(M), HasDistricts(M), \A d \in Districts : Dense(M, d)
  PROVE  LET S == {d \in Districts : Takes(w, d) # {}}
         IN  /\ DeliveredOf(M) = [d \in Districts |-> IF d \in S THEN DeliveredOf(db)[d] + 1
                                                                 ELSE DeliveredOf(db)[d]]
             /\ \A d \in S : DeliveredOf(db)[d] + 1 <= NextId(M, d) - 1
<1> DEFINE S == {d \in Districts : Takes(w, d) # {}}
<1>1. Works(w)
  BY DEF Works
<1>2. WorkShape(w) /\ \A d \in Districts : Took(w, d) /\ Served(db, d) /\ Dense(db, d)
  BY <1>1, DenseMeans DEF OrderIInv, ServeIInv, Serves, BookIInv
<1>3. ASSUME NEW d \in Districts
      PROVE  /\ \A k : k \in Carried(M, d) <=> k \in DOMAIN M /\ In(k, "orders", d)
                                               /\ M[k].carrier > 0
             /\ \A k : k \in Carried(db, d) <=> k \in DOMAIN db /\ In(k, "orders", d)
                                                /\ db[k].carrier > 0
  BY DEF Carried, OfDistrict, In
<1>4. \A k \in InsertedBy(w) : k[1] = "orders" => view[w][k].carrier = -1
  <2>1. ASSUME NEW k \in InsertedBy(w), k[1] = "orders"
        PROVE  view[w][k].carrier = -1
    <3>1. view[w][k] = Order(my[w].c, Len(my[w].lines), -1)
      BY <1>2, <2>1 DEF WorkShape, Inserted
    <3>2. QED
      BY <3>1 DEF Order
  <2>2. QED
    BY <2>1
<1>5. ASSUME NEW d \in Districts, NEW k \in wrote[w], In(k, "orders", d)
      PROVE  /\ k \in DOMAIN M /\ M[k] = view[w][k]
             /\ k \notin DOMAIN db => ~(M[k].carrier > 0)
             /\ k \in DOMAIN db => M[k].carrier = 1 /\ \E t \in Takes(w, d) : t[3] = k[3]
  <2>1. k \in DOMAIN view[w] /\ (k \in DOMAIN db \/ k \in InsertedBy(w))
    BY <1>2, <1>5 DEF WorkShape, In
  <2>2. k \in DOMAIN M /\ M[k] = view[w][k]
    BY <1>5, <2>1, MergedRows
  <2>3. CASE k \notin DOMAIN db
    <3>1. view[w][k].carrier = -1
      BY <1>4, <1>5, <2>1, <2>3 DEF In
    <3>2. QED
      BY <2>2, <2>3, <3>1
  <2>4. CASE k \in DOMAIN db
    BY <1>2, <1>5, <2>1, <2>2, <2>4 DEF Took
  <2>5. QED
    BY <2>2, <2>3, <2>4
<1>6. ASSUME NEW d \in Districts, Takes(w, d) = {}
      PROVE  Carried(M, d) = Carried(db, d)
  <2>1. ASSUME NEW k
        PROVE  k \in Carried(M, d) <=> k \in Carried(db, d)
    <3>1. CASE k \in wrote[w] /\ In(k, "orders", d)
      <4>1. k \notin DOMAIN db /\ ~(M[k].carrier > 0)
        BY <1>5, <1>6, <3>1
      <4>2. QED
        BY <1>3, <4>1
    <3>2. CASE k \notin wrote[w]
      BY <1>3, <3>2, MergedRows
    <3>3. CASE ~In(k, "orders", d)
      BY <1>3, <3>3
    <3>4. QED
      BY <3>1, <3>2, <3>3
  <2>2. QED
    BY <2>1
<1>7. ASSUME NEW d \in Districts, NEW t \in Takes(w, d)
      PROVE  /\ Cardinality(Carried(M, d)) = Cardinality(Carried(db, d)) + 1
  <2>1. PICK k \in DOMAIN db : In(k, "orders", d) /\ k[3] = t[3]
    BY <1>1, <1>7, TakenOrder
  <2>2. k \in wrote[w]
    BY <1>2, <1>7, <2>1 DEF Took, Busy
  <2>3. k \in Carried(M, d)
    <3>1. M[k].carrier = 1 /\ k \in DOMAIN M
      BY <1>5, <2>1, <2>2
    <3>2. QED
      BY <1>3, <2>1, <3>1
  <2>4. k \notin Carried(db, d)
    <3>1. t \in DOMAIN db /\ In(t, "new_orders", d)
      BY <1>1, <1>7, TakenOrder
    <3>2. Waits(db, d, k[3])
      BY <2>1, <3>1 DEF Waits
    <3>3. db[k].carrier < 1
      BY <1>2, <2>1, <3>2 DEF Served
    <3>4. Typed(k, db[k])
      BY <2>1 DEF RowIInv, Good
    <3>5. db[k].carrier \in -1..10
      BY <2>1, <3>4 DEF Typed, In
    <3>6. ~(db[k].carrier > 0)
      BY <3>3, <3>5
    <3>7. QED
      BY <1>3, <3>6
  <2>5. ASSUME NEW l, l # k
        PROVE  l \in Carried(M, d) <=> l \in Carried(db, d)
    <3>1. CASE l \in wrote[w] /\ In(l, "orders", d) /\ l \in DOMAIN db
      <4>1. PICK s \in Takes(w, d) : s[3] = l[3]
        BY <1>5, <3>1
      <4>2. s[3] = t[3]
        BY <1>1, <1>2, <1>7, TakesOne
      <4>3. Dense(db, d) /\ l[3] = k[3]
        BY <1>2, <2>1, <4>1, <4>2
      <4>4. l = k
        BY <2>1, <3>1, <4>3 DEF Dense, In
      <4>5. QED
        BY <2>5, <4>4
    <3>2. CASE l \in wrote[w] /\ In(l, "orders", d) /\ l \notin DOMAIN db
      BY <1>3, <1>5, <3>2
    <3>3. CASE l \notin wrote[w]
      BY <1>3, <3>3, MergedRows
    <3>4. CASE ~In(l, "orders", d)
      BY <1>3, <3>4
    <3>5. QED
      BY <3>1, <3>2, <3>3, <3>4
  <2>6. Carried(M, d) = Carried(db, d) \cup {k}
    BY <2>3, <2>5
  <2>7. IsFiniteSet(Carried(db, d))
    BY CarriedType DEF RowIInv
  <2>8. QED
    BY <2>4, <2>6, <2>7, FS_AddElement
<1>8. \A d \in S : Cardinality(Carried(M, d)) <= NextId(M, d) - 1
  BY CarriedFits
<1>9. \A d \in Districts : d \in S => Cardinality(Carried(M, d)) = Cardinality(Carried(db, d)) + 1
  BY <1>7
<1>10. \A d \in Districts : d \notin S => Carried(M, d) = Carried(db, d)
  BY <1>6
<1>11. \A d \in S : d \in Districts
  OBVIOUS
<1> HIDE DEF S
<1>12. DeliveredOf(M) = [d \in Districts |-> IF d \in S THEN DeliveredOf(db)[d] + 1
                                                        ELSE DeliveredOf(db)[d]]
  BY <1>9, <1>10 DEF DeliveredOf
<1>13. \A d \in S : DeliveredOf(db)[d] + 1 <= NextId(M, d) - 1
  BY <1>8, <1>9, <1>11 DEF DeliveredOf
<1>14. QED
  BY <1>12, <1>13 DEF S

---------------------------------------------------------------------------
(* What a COMMIT makes of the payments: customers and history agree before  *)
(* and after it.                                                            *)

PaysOf(rows, d, c) == OfOrder(rows, "history", d, c)

PaidIn(rows) ==
  \A d \in Districts, c \in Customers :
    /\ rows[CustomerKey(d, c)].ytd = SumOfAmounts(rows, PaysOf(rows, d, c))
    /\ rows[CustomerKey(d, c)].payments = Cardinality(PaysOf(rows, d, c))

LEMMA PaidMeans == CustomersPaid <=> PaidIn(db)
BY DEF CustomersPaid, PaidIn, PaymentsOf, PaysOf

\* The sum of the same rows and of one more.
LEMMA PaysSame ==
  ASSUME NEW old, Good(old), NEW new, NEW K, K \subseteq DOMAIN old,
         \A k \in K : new[k] = old[k]
  PROVE  SumOfAmounts(new, K) = SumOfAmounts(old, K)
<1>1. K \in SUBSET (DOMAIN old) /\ IsFiniteSet(DOMAIN old)
  BY DEF Good
<1>2. IsFiniteSet(K)
  BY <1>1, FS_Subset
<1>3. [k \in K |-> new[k].amount] = [k \in K |-> old[k].amount]
  OBVIOUS
<1>4. QED
  BY <1>2, <1>3, AmountsAre

OneMore(old, K, new, L, k) ==
  /\ Good(old) /\ K \subseteq DOMAIN old
  /\ k \notin K /\ L = K \cup {k}
  /\ \A l \in K : new[l] = old[l]
  /\ \A l \in L : new[l].amount \in Nat

LEMMA PaysAdd ==
  ASSUME NEW old, NEW K, NEW new, NEW L, NEW k, OneMore(old, K, new, L, k)
  PROVE  /\ SumOfAmounts(new, L) = SumOfAmounts(old, K) + new[k].amount
         /\ Cardinality(L) = Cardinality(K) + 1
<1> DEFINE f == [x \in K \cup {k} |-> new[x].amount]
           e == [x \in K |-> new[x].amount]
<1>0. /\ Good(old) /\ K \subseteq DOMAIN old
      /\ k \notin K /\ L = K \cup {k}
      /\ \A l \in K : new[l] = old[l]
      /\ \A l \in K \cup {k} : new[l].amount \in Nat
  BY DEF OneMore
<1>1. K \in SUBSET (DOMAIN old) /\ IsFiniteSet(DOMAIN old)
  BY <1>0 DEF Good
<1>2. IsFiniteSet(K)
  BY <1>1, FS_Subset
<1>5. IsFiniteSet(K \cup {k}) /\ Cardinality(K \cup {k}) = Cardinality(K) + 1
  BY <1>0, <1>2, FS_AddElement
<1>6. SumOfAmounts(new, K \cup {k}) = SumOver(f, K \cup {k})
  BY <1>5, AmountsAre
<1>7. SumOfAmounts(new, K) = SumOver(e, K)
  BY <1>2, AmountsAre
<1>8. \A x \in K \cup {k} : f[x] \in Int /\ f[x] = new[x].amount
  BY <1>0
<1>9. \A x \in K : f[x] = e[x]
  OBVIOUS
<1> HIDE DEF f, e
<1>10. SumOver(f, K \cup {k}) = SumOver(f, K) + f[k]
  BY <1>0, <1>2, <1>8, SumAdds
<1>11. SumOver(f, K) = SumOver(e, K)
  BY <1>2, <1>9, SumSame
<1>12. SumOfAmounts(new, K) = SumOfAmounts(old, K)
  BY <1>0, PaysSame
<1>13. f[k] = new[k].amount
  BY <1>8
<1>14. SumOfAmounts(new, K \cup {k}) = SumOfAmounts(old, K) + new[k].amount
  BY <1>6, <1>7, <1>10, <1>11, <1>12, <1>13
<1>15. QED
  BY <1>0, <1>5, <1>14

\* A transaction writes no row of history but the one it inserts.
LEMMA HistoryCommits ==
  ASSUME OrderIInv, NEW w \in Workers, open[w], at[w] = "commit", NEW M, M = Merged(w)
  PROVE  /\ \A k \in DOMAIN db : k[1] = "history" => k \in DOMAIN M /\ M[k] = db[k]
         /\ \A k \in DOMAIN M : k[1] = "history" /\ k \notin DOMAIN db =>
              IsPayment(w) /\ k = HistoryKey(my[w].cd, my[w].c, my[w].id)
         /\ IsPayment(w) =>
              LET k == HistoryKey(my[w].cd, my[w].c, my[w].id)
              IN  k \in DOMAIN M /\ k \notin DOMAIN db /\ M[k].amount = my[w].amount
<1>1. WorkShape(w)
  BY DEF OrderIInv, Works
<1>2. ASSUME NEW k \in DOMAIN db, k[1] = "history"
      PROVE  k \in DOMAIN M /\ M[k] = db[k]
  <2>1. k \notin wrote[w]
    BY <1>1, <1>2 DEF WorkShape
  <2>2. QED
    BY <2>1, MergedRows
<1>3. ASSUME NEW k \in DOMAIN M, k[1] = "history", k \notin DOMAIN db
      PROVE  IsPayment(w) /\ k = HistoryKey(my[w].cd, my[w].c, my[w].id)
  <2>1. k \in wrote[w]
    BY <1>3, MergedRows
  <2>2. k \in InsertedBy(w)
    BY <1>1, <1>3, <2>1 DEF WorkShape
  <2>3. QED
    BY <1>3, <2>2, InsertedKeys DEF InsertedBy, IsPayment
<1>4. ASSUME IsPayment(w)
      PROVE  LET k == HistoryKey(my[w].cd, my[w].c, my[w].id)
             IN  k \in DOMAIN M /\ k \notin DOMAIN db /\ M[k].amount = my[w].amount
  <2> DEFINE k == HistoryKey(my[w].cd, my[w].c, my[w].id)
  <2>1. k \in InsertedBy(w)
    BY <1>4, InsertsMember DEF InsertedBy, IsPayment
  <2>2. k \in wrote[w] /\ k \in DOMAIN view[w] /\ k \notin DOMAIN db
        /\ view[w][k] = Inserted(my[w], k)
    BY <1>1, <2>1 DEF WorkShape
  <2>3. k[1] = "history"
    BY KeyColumns
  <2>4. Inserted(my[w], k) = [d |-> my[w].d, amount |-> my[w].amount]
    BY <2>3 DEF Inserted
  <2> HIDE DEF k
  <2>5. k \in DOMAIN M /\ M[k] = view[w][k]
    BY <2>2, MergedRows
  <2>6. M[k].amount = my[w].amount
    BY <2>2, <2>4, <2>5
  <2>7. QED
    BY <2>2, <2>5, <2>6 DEF k
<1>5. QED
  BY <1>2, <1>3, <1>4

\* The payments of a customer before and after a row of history came.
LEMMA PaysStay ==
  ASSUME NEW old, Good(old), PaidIn(old), NEW new, PaidIn(new),
         NEW d \in Districts, NEW c \in Customers,
         \A k \in DOMAIN old : k[1] = "history" => k \in DOMAIN new /\ new[k] = old[k],
         \A k \in DOMAIN new : k[1] = "history" /\ k \notin DOMAIN old => k[2] # d \/ k[3] # c
  PROVE  PaidOf(new)[<<d, c>>] = PaidOf(old)[<<d, c>>]
<1>1. \A rows, k : k \in PaysOf(rows, d, c) <=>
        k \in DOMAIN rows /\ k[1] = "history" /\ k[2] = d /\ k[3] = c
  BY DEF PaysOf, OfOrder
<1>2. PaysOf(new, d, c) = PaysOf(old, d, c)
  <2>1. ASSUME NEW k
        PROVE  k \in PaysOf(new, d, c) <=> k \in PaysOf(old, d, c)
    BY <1>1
  <2>2. QED
    BY <2>1
<1>3. \A k \in PaysOf(old, d, c) : k \in DOMAIN old /\ new[k] = old[k]
  BY <1>1
<1>4. SumOfAmounts(new, PaysOf(old, d, c)) = SumOfAmounts(old, PaysOf(old, d, c))
  BY <1>3, PaysSame
<1>5. /\ new[CustomerKey(d, c)].ytd = old[CustomerKey(d, c)].ytd
      /\ new[CustomerKey(d, c)].payments = old[CustomerKey(d, c)].payments
  BY <1>2, <1>4 DEF PaidIn
<1>6. QED
  BY <1>5 DEF PaidOf

LEMMA PaysGrow ==
  ASSUME NEW old, Good(old), PaidIn(old), NEW new, Good(new), PaidIn(new),
         NEW d \in Districts, NEW c \in Customers,
         NEW k \in DOMAIN new, k \notin DOMAIN old, k[1] = "history", k[2] = d, k[3] = c,
         \A l \in DOMAIN old : l[1] = "history" => l \in DOMAIN new /\ new[l] = old[l],
         \A l \in DOMAIN new : l[1] = "history" /\ l \notin DOMAIN old => l = k
  PROVE  PaidOf(new)[<<d, c>>] = [sum |-> PaidOf(old)[<<d, c>>].sum + new[k].amount,
                                  number |-> PaidOf(old)[<<d, c>>].number + 1]
<1>1. \A rows, l : l \in PaysOf(rows, d, c) <=>
        l \in DOMAIN rows /\ l[1] = "history" /\ l[2] = d /\ l[3] = c
  BY DEF PaysOf, OfOrder
<1>2. k \notin PaysOf(old, d, c) /\ PaysOf(new, d, c) = PaysOf(old, d, c) \cup {k}
  <2>1. \A l : l \in PaysOf(new, d, c) <=> l \in PaysOf(old, d, c) \/ l = k
    BY <1>1
  <2>2. k \notin PaysOf(old, d, c)
    BY <1>1
  <2>3. QED
    BY <2>1, <2>2
<1>3. \A l \in PaysOf(old, d, c) : new[l] = old[l]
  BY <1>1
<1>4. ASSUME NEW l \in PaysOf(new, d, c)
      PROVE  new[l].amount \in Nat
  <2>1. l \in DOMAIN new /\ l[1] = "history"
    BY <1>1
  <2>2. Typed(l, new[l])
    BY <2>1 DEF Good
  <2>3. QED
    BY <2>1, <2>2 DEF Typed
<1> DEFINE K == PaysOf(old, d, c)
           L == PaysOf(new, d, c)
<1>5. K \subseteq DOMAIN old
  BY <1>1
<1> HIDE DEF K, L
<1>6. k \notin K /\ L = K \cup {k} /\ \A l \in K : new[l] = old[l]
  BY <1>2, <1>3 DEF K, L
<1>7. \A l \in L : new[l].amount \in Nat
  BY <1>4 DEF L
<1>8. /\ SumOfAmounts(new, L) = SumOfAmounts(old, K) + new[k].amount
      /\ Cardinality(L) = Cardinality(K) + 1
  <2>1. OneMore(old, K, new, L, k)
    BY <1>5, <1>6, <1>7 DEF OneMore
  <2>2. QED
    BY <2>1, PaysAdd
<1>9. /\ new[CustomerKey(d, c)].ytd = old[CustomerKey(d, c)].ytd + new[k].amount
      /\ new[CustomerKey(d, c)].payments = old[CustomerKey(d, c)].payments + 1
  BY <1>8 DEF PaidIn, K, L
<1>10. QED
  BY <1>9 DEF PaidOf

LEMMA PaymentPays ==
  ASSUME RowIInv, OrderIInv, NEW w \in Workers, open[w], at[w] = "commit",
         NEW M, M = Merged(w), Good(M), PaidIn(db), PaidIn(M)
  PROVE  /\ ~IsPayment(w) => PaidOf(M) = PaidOf(db)
         /\ IsPayment(w) => \E k \in Districts \X Customers, amount \in Amounts :
              PaidOf(M) = [PaidOf(db) EXCEPT ![k] = [sum |-> @.sum + amount,
                                                     number |-> @.number + 1]]
<1> DEFINE new == HistoryKey(my[w].cd, my[w].c, my[w].id)
           at2 == <<my[w].cd, my[w].c>>
<1>1. DrawTyped(w) /\ Good(db)
  BY DEF RowIInv, RowShape
<1>2. /\ \A k \in DOMAIN db : k[1] = "history" => k \in DOMAIN M /\ M[k] = db[k]
      /\ \A k \in DOMAIN M : k[1] = "history" /\ k \notin DOMAIN db => IsPayment(w) /\ k = new
      /\ IsPayment(w) => new \in DOMAIN M /\ new \notin DOMAIN db
                         /\ M[new].amount = my[w].amount
  BY HistoryCommits
<1>3. new[1] = "history" /\ new[2] = my[w].cd /\ new[3] = my[w].c
  BY KeyColumns
<1> HIDE DEF new
<1>5. ASSUME NEW d \in Districts, NEW c \in Customers, ~IsPayment(w) \/ <<d, c>> # at2
      PROVE  PaidOf(M)[<<d, c>>] = PaidOf(db)[<<d, c>>]
  <2>1. ~IsPayment(w) \/ d # new[2] \/ c # new[3]
    BY <1>3, <1>5
  <2>2. \A k \in DOMAIN M : k[1] = "history" /\ k \notin DOMAIN db => k[2] # d \/ k[3] # c
    BY <1>2, <2>1
  <2>3. QED
    BY <1>1, <1>2, <2>2, PaysStay
<1>6. ASSUME IsPayment(w)
      PROVE  /\ at2 \in Districts \X Customers /\ my[w].amount \in Amounts
             /\ PaidOf(M)[at2] = [sum |-> PaidOf(db)[at2].sum + my[w].amount,
                                  number |-> PaidOf(db)[at2].number + 1]
  <2>1. my[w].cd \in Districts /\ my[w].c \in Customers /\ my[w].amount \in Amounts
    BY <1>1, <1>6 DEF DrawTyped
  <2>d. PICK d \in Districts : d = my[w].cd
    BY <2>1
  <2>c. PICK c \in Customers : c = my[w].c
    BY <2>1
  <2>2. new \in DOMAIN M /\ new \notin DOMAIN db /\ M[new].amount = my[w].amount
    BY <1>2, <1>6
  <2>3. new[1] = "history" /\ new[2] = d /\ new[3] = c
    BY <1>3, <2>c, <2>d
  <2>4. PaidOf(M)[<<d, c>>] = [sum |-> PaidOf(db)[<<d, c>>].sum + M[new].amount,
                               number |-> PaidOf(db)[<<d, c>>].number + 1]
    BY <1>1, <1>2, <2>2, <2>3, PaysGrow
  <2>5. at2 = <<d, c>>
    BY <2>c, <2>d
  <2>6. QED
    BY <2>1, <2>2, <2>4, <2>5
<1>7. \A rows : PaidOf(rows) = [k \in Districts \X Customers |-> PaidOf(rows)[k]]
  BY DEF PaidOf
<1>8. \A k \in Districts \X Customers : \E d \in Districts, c \in Customers : k = <<d, c>>
  OBVIOUS
<1> HIDE DEF at2
<1>9. \A k \in Districts \X Customers :
        ~IsPayment(w) \/ k # at2 => PaidOf(M)[k] = PaidOf(db)[k]
  BY <1>5, <1>8
<1>10. ASSUME ~IsPayment(w) PROVE PaidOf(M) = PaidOf(db)
  BY <1>7, <1>9, <1>10
<1>11. ASSUME IsPayment(w)
       PROVE  PaidOf(M) = [PaidOf(db) EXCEPT ![at2] = [sum |-> @.sum + my[w].amount,
                                                       number |-> @.number + 1]]
  <2>1. \A k \in Districts \X Customers : k # at2 => PaidOf(M)[k] = PaidOf(db)[k]
    BY <1>9, <1>11
  <2>2. at2 \in Districts \X Customers
        /\ PaidOf(M)[at2] = [sum |-> PaidOf(db)[at2].sum + my[w].amount,
                             number |-> PaidOf(db)[at2].number + 1]
    BY <1>6, <1>11
  <2>3. QED
    BY <1>7, <2>1, <2>2
<1>12. QED
  BY <1>6, <1>10, <1>11

---------------------------------------------------------------------------
(* Every step of the tables is a step of the order book, or none. *)

Sound(rows) ==
  /\ Good(rows) /\ HasDistricts(rows) /\ PaidIn(rows)
  /\ \A d \in Districts : Dense(rows, d)

LEMMA SoundRows == BookIInv /\ RowIInv /\ LedgerIInv => Sound(db)
BY CustomerBalances, PaidMeans, DenseMeans DEF Sound, BookIInv, RowIInv

LEMMA CommitRefines ==
  ASSUME BookIInv, RowIInv, OrderIInv, ServeIInv, PlainIInv,
         NEW w \in Workers, open[w], at[w] = "commit",
         Sound(db), Sound(db'), db' = Merged(w), torn' = torn
  PROVE  Book!Next
<1> PICK M : M = db'
  OBVIOUS
<1>1. M = Merged(w) /\ Good(M) /\ HasDistricts(M) /\ (\A d \in Districts : Dense(M, d))
      /\ PaidIn(M) /\ PaidIn(db)
  BY DEF Sound
<1>2. IsNewOrder(w) \/ IsPayment(w) \/ IsDelivery(w)
  BY DEF IsNewOrder, IsPayment, IsDelivery
<1>3. CASE IsNewOrder(w)
  <2>1. ~IsDelivery(w) /\ ~IsPayment(w)
    BY <1>3 DEF IsNewOrder, IsPayment, IsDelivery
  <2>2. PICK d \in Districts, order \in Orders :
          BookOf(M) = [BookOf(db) EXCEPT ![d] = Append(@, order)]
    BY <1>1, <1>3, NewOrderBooks
  <2>3. DeliveredOf(M) = DeliveredOf(db)
    BY <1>1, <2>1, OtherCarried
  <2>4. PaidOf(M) = PaidOf(db)
    BY <1>1, <2>1, PaymentPays
  <2>5. QED
    BY <2>2, <2>3, <2>4, BookActions
<1>4. CASE IsPayment(w)
  <2>1. ~IsDelivery(w) /\ ~IsNewOrder(w)
    BY <1>4 DEF IsNewOrder, IsPayment, IsDelivery
  <2>2. BookOf(M) = BookOf(db)
    BY <1>1, <2>1, OtherBooks
  <2>3. DeliveredOf(M) = DeliveredOf(db)
    BY <1>1, <2>1, OtherCarried
  <2>4. PICK k \in Districts \X Customers, amount \in Amounts :
          PaidOf(M) = [PaidOf(db) EXCEPT ![k] = [sum |-> @.sum + amount, number |-> @.number + 1]]
    BY <1>1, <1>4, PaymentPays
  <2>5. QED
    BY <2>2, <2>3, <2>4, BookActions
<1>5. CASE IsDelivery(w)
  <2>1. ~IsPayment(w) /\ ~IsNewOrder(w)
    BY <1>5 DEF IsNewOrder, IsPayment, IsDelivery
  <2>2. BookOf(M) = BookOf(db)
    BY <1>1, <2>1, OtherBooks
  <2>3. PaidOf(M) = PaidOf(db)
    BY <1>1, <2>1, PaymentPays
  <2>4. CASE torn
    <3>1. DeliveredOf(M) \in [Districts -> Nat]
      BY <1>1, CarriedType
    <3>2. QED
      BY <2>2, <2>3, <2>4, <3>1, BookActions
  <2>5. CASE ~torn
    <3> DEFINE S == {d \in Districts : Takes(w, d) # {}}
    <3>1. /\ DeliveredOf(M) = [d \in Districts |-> IF d \in S THEN DeliveredOf(db)[d] + 1
                                                              ELSE DeliveredOf(db)[d]]
          /\ \A d \in S : DeliveredOf(db)[d] + 1 <= NextId(M, d) - 1
      BY <1>1, <2>5, DeliveryBooks
    <3>2. S \in SUBSET Districts
      OBVIOUS
    <3> HIDE DEF S
    <3>3. ASSUME NEW d \in S
          PROVE  DeliveredOf(db)[d] < Len(BookOf(db)[d])
      <4>1. d \in Districts
        BY <3>2
      <4>2. NextId(M, d) \in Nat \ {0}
        BY <1>1, <4>1, HasDistrict
      <4>3. BookOf(db)[d] = Bookings(M, d)
        BY <2>2, <4>1 DEF BookOf
      <4>4. Len(Bookings(M, d)) = NextId(M, d) - 1
        BY <4>2 DEF Bookings
      <4>5. DeliveredOf(db)[d] \in Nat
        BY <4>1, CarriedType DEF RowIInv
      <4>6. QED
        BY <3>1, <4>2, <4>3, <4>4, <4>5
    <3>4. QED
      BY <2>2, <2>3, <3>1, <3>2, <3>3, BookActions
  <2>6. QED
    BY <2>4, <2>5
<1>6. QED
  BY <1>2, <1>3, <1>4, <1>5

\* A statement of a Delivery that has no transaction.
LEMMA LooseRefines ==
  ASSUME BookIInv, RowIInv, NEW w \in Workers, ~open[w], torn,
         NEW K, NEW rows, NEW place, Does(w, K, rows, place), Mild(K, Sees(w), rows),
         Sound(db), Sound(db')
  PROVE  Book!Next
<1>1. db' = rows /\ torn' = torn /\ Sees(w) = db
  BY WriteSplits DEF Does, Sees
<1>2. \A k \in K : /\ k \in DOMAIN db
                   /\ k \notin DOMAIN rows => k[1] = "new_orders"
                   /\ k \in DOMAIN rows => SameOf(k, db[k], rows[k])
  BY <1>1 DEF Mild
<1>3. \A k : k \notin K => /\ k \in DOMAIN rows <=> k \in DOMAIN db
                           /\ k \in DOMAIN db => rows[k] = db[k]
  BY <1>1 DEF Mild, Same
<1>4. Kept(db, rows)
  <2>1. ASSUME NEW k \in DOMAIN db, k[1] \in {"orders", "order_line"}
        PROVE  k \in DOMAIN rows /\ SameOrder(k, db[k], rows[k])
    <3>1. CASE k \in K
      BY <1>2, <2>1, <3>1 DEF SameOf
    <3>2. CASE k \notin K
      BY <1>3, <2>1, <3>2 DEF SameOrder
    <3>3. QED
      BY <3>1, <3>2
  <2>2. QED
    BY <2>1 DEF Kept
<1>5. \A k \in DOMAIN rows : k \in DOMAIN db
  BY <1>2, <1>3
<1>6. Good(db) /\ Good(rows)
      /\ \A d \in Districts : /\ Dense(db, d) /\ Dense(rows, d)
                              /\ NextId(db, d) \in Nat \ {0} /\ NextId(rows, d) \in Nat \ {0}
  BY <1>1, HasDistrict DEF Sound
<1>7. \A d \in Districts : Bookings(rows, d) = Bookings(db, d)
  BY <1>4, <1>5, <1>6, SameBookings
<1>8. BookOf(rows) = BookOf(db)
  BY <1>7 DEF BookOf
<1>9. ASSUME NEW d \in Districts, NEW c \in Customers
      PROVE  /\ rows[CustomerKey(d, c)].ytd = db[CustomerKey(d, c)].ytd
             /\ rows[CustomerKey(d, c)].payments = db[CustomerKey(d, c)].payments
  <2> DEFINE k == CustomerKey(d, c)
  <2>1. k \in DOMAIN db /\ k \in DOMAIN rows
    BY <1>6 DEF Good, Fixed
  <2>2. k[1] = "customer"
    BY KeyColumns
  <2> HIDE DEF k
  <2>3. rows[k].ytd = db[k].ytd /\ rows[k].payments = db[k].payments
    <3>1. CASE k \in K
      BY <1>2, <2>1, <2>2, <3>1 DEF SameOf
    <3>2. CASE k \notin K
      BY <1>3, <2>1, <3>2
    <3>3. QED
      BY <3>1, <3>2
  <2>4. QED
    BY <2>3 DEF k
<1>10. PaidOf(rows) = PaidOf(db)
  <2>1. ASSUME NEW k \in Districts \X Customers
        PROVE  PaidOf(rows)[k] = PaidOf(db)[k]
    <3>1. k[1] \in Districts /\ k[2] \in Customers
      OBVIOUS
    <3>2. QED
      BY <1>9, <3>1 DEF PaidOf
  <2>2. \A r : PaidOf(r) = [k \in Districts \X Customers |-> PaidOf(r)[k]]
    BY DEF PaidOf
  <2>3. QED
    BY <2>1, <2>2
<1>11. DeliveredOf(rows) \in [Districts -> Nat]
  BY <1>6, CarriedType
<1>12. QED
  BY <1>1, <1>8, <1>10, <1>11, BookActions

\* A step that leaves the committed rows alone.
LEMMA QuietRefines ==
  ASSUME db' = db, torn' = torn \/ torn' = TRUE
  PROVE  [Book!Next]_(Book!vars)
BY BookActions

LEMMA OpenWrite ==
  ASSUME BookIInv, NEW w \in Workers, open[w], NEW K, NEW rows, NEW place, Does(w, K, rows, place)
  PROVE  db' = db /\ torn' = torn
BY WriteSplits DEF Does

LEMMA StepRefines ==
  ASSUME BookIInv, RowIInv, OrderIInv, ServeIInv, PlainIInv, Sound(db), Sound(db'),
         NEW w \in Workers, Step(w)
  PROVE  [Book!Next]_(Book!vars)
<1>1. CASE BeginsNewOrder(w) \/ BeginsPayment(w) \/ BeginsDelivery(w)
  <2>1. PICK draw, place : Starts(w, draw, place)
    BY <1>1 DEF BeginsNewOrder, BeginsPayment, BeginsDelivery
  <2>2. db' = db /\ torn' = torn
    BY <2>1, BeginsDoes
  <2>3. QED
    BY <2>2, QuietRefines
<1>2. CASE \/ ReadsDistrict(w) \/ TakesId(w) \/ InsertsOrder(w) \/ InsertsNewOrder(w)
           \/ ReadsStock(w) \/ UpdatesStock(w) \/ InsertsLine(w)
           \/ UpdatesWarehouse(w) \/ UpdatesDistrict(w) \/ ReadsCustomer(w)
           \/ UpdatesCustomer(w) \/ InsertsHistory(w)
  <2>1. at[w] \in NewOrderPlaces \cup PaymentPlaces
    BY <1>2 DEF ReadsDistrict, TakesId, InsertsOrder, InsertsNewOrder, ReadsStock, UpdatesStock,
                InsertsLine, UpdatesWarehouse, UpdatesDistrict, ReadsCustomer, UpdatesCustomer,
                InsertsHistory, At, NewOrderPlaces, PaymentPlaces
  <2>2. open[w]
    BY <2>1 DEF RowIInv, RowShape
  <2>3. torn' = torn
    BY <1>2 DEF ReadsDistrict, TakesId, InsertsOrder, InsertsNewOrder, ReadsStock, UpdatesStock,
                InsertsLine, UpdatesWarehouse, UpdatesDistrict, ReadsCustomer, UpdatesCustomer,
                InsertsHistory, At
  <2>4. db' = db
    <3>1. ASSUME NEW K, NEW rows, Writes(w, K, rows)
          PROVE  db' = db
      BY <2>2, <3>1 DEF Writes
    <3>2. ASSUME Reads
          PROVE  db' = db
      BY <3>2 DEF Reads, serverVars
    <3>3. QED
      BY <1>2, <3>1, <3>2
         DEF ReadsDistrict, TakesId, InsertsOrder, InsertsNewOrder, ReadsStock, UpdatesStock,
             InsertsLine, UpdatesWarehouse, UpdatesDistrict, ReadsCustomer, UpdatesCustomer,
             InsertsHistory, Puts, PutsAll
  <2>5. QED
    BY <2>3, <2>4, QuietRefines
<1>3. CASE \/ FindsOldest(w) \/ DeletesNewOrder(w) \/ UpdatesOrder(w) \/ UpdatesLines(w)
           \/ ReadsOrder(w) \/ SumsAmounts(w) \/ CreditsCustomer(w)
  <2>1. at[w] \in DeliveryPlaces
    BY <1>3, DeliveryIsMild
  <2>2. PICK K, rows, place : Does(w, K, rows, place) /\ Mild(K, Sees(w), rows)
    BY <1>3, DeliveryIsMild
  <2>3. CASE open[w]
    BY <2>2, <2>3, OpenWrite, QuietRefines
  <2>4. CASE ~open[w]
    <3>1. Works(w)
      BY <2>1 DEF Works, DeliveryPlaces
    <3>2. torn
      BY <2>4, <3>1 DEF ServeIInv, Serves
    <3>3. Book!Next
      BY <2>2, <2>4, <3>2, LooseRefines
    <3>4. QED
      BY <3>3
  <2>5. QED
    BY <2>3, <2>4
<1>4. CASE SkipsDistrict(w)
  <2>1. (Reads /\ torn' = torn) \/ (Ends(w) /\ torn' = TRUE)
    BY <1>4 DEF SkipsDistrict
  <2>2. db' = db
    BY <2>1 DEF Reads, serverVars, Ends
  <2>3. torn' = torn \/ torn' = TRUE
    BY <2>1
  <2>4. QED
    BY <2>2, <2>3, QuietRefines
<1>5. CASE Commits(w) \/ Refused(w) \/ RollsBack(w)
  <2>1. torn' = torn
    BY <1>5 DEF Commits, Refused, RollsBack, At
  <2>2. \/ Reads \/ Ends(w)
        \/ at[w] = "commit" /\ CommitsWork(w)
    BY <1>5 DEF Commits, Refused, RollsBack, At
  <2>3. CASE Reads \/ Ends(w)
    <3>1. db' = db
      BY <2>3 DEF Reads, serverVars, Ends
    <3>2. QED
      BY <2>1, <3>1, QuietRefines
  <2>4. CASE at[w] = "commit" /\ CommitsWork(w)
    <3>1. open[w] /\ db' = Merged(w)
      BY <2>4 DEF CommitsWork
    <3>2. Book!Next
      BY <2>1, <2>4, <3>1, CommitRefines
    <3>3. QED
      BY <3>2
  <2>5. QED
    BY <2>2, <2>3, <2>4
<1>6. QED
  BY <1>1, <1>2, <1>3, <1>4, <1>5 DEF Step

LEMMA NextRefines ==
  ASSUME BookIInv, RowIInv, OrderIInv, ServeIInv, PlainIInv, Sound(db), Sound(db)', [Next]_vars
  PROVE  [Book!Next]_(Book!vars)
<1>0. Sound(db')
  OBVIOUS
<1>1. ASSUME NEW w \in Workers, Step(w)
      PROVE  [Book!Next]_(Book!vars)
  BY <1>0, <1>1, StepRefines
<1>2. ASSUME UNCHANGED vars
      PROVE  [Book!Next]_(Book!vars)
  <2>1. db' = db /\ torn' = torn
    BY <1>2 DEF vars, serverVars
  <2>2. QED
    BY <2>1, QuietRefines
<1>3. QED
  BY <1>1, <1>2 DEF Next, Stops

---------------------------------------------------------------------------
(* The loaded rows are the order book that the benchmark starts with. *)

LEMMA LoadedOrder ==
  ASSUME NEW o \in 1..Len(Loaded)
  PROVE  Loaded[o] = [c |-> Loaded[o].c, lines |-> Loaded[o].lines]
<1>1. Loaded[o] \in [c : Customers, lines : Lines]
  BY LoadedAssumption, ElementOfSeq
<1>2. QED
  BY <1>1

LEMMA LoadedRows ==
  ASSUME NEW d \in Districts
  PROVE  /\ NextId(InitRows, d) = Len(Loaded) + 1
         /\ \A k : k \in DOMAIN InitRows /\ In(k, "orders", d)
                     <=> \E o \in 1..Len(Loaded) : k = OrderKey(d, o, 0)
         /\ \A o \in 1..Len(Loaded) :
              /\ InitRows[OrderKey(d, o, 0)] = Order(Loaded[o].c, Len(Loaded[o].lines),
                                                     IF o < Oldest(d) THEN 1 ELSE 0)
              /\ \A n \in 1..Len(Loaded[o].lines) :
                   /\ LineKey(d, o, n, 0) \in DOMAIN InitRows
                   /\ InitRows[LineKey(d, o, n, 0)].item = Loaded[o].lines[n][1]
                   /\ InitRows[LineKey(d, o, n, 0)].amount = Loaded[o].lines[n][2]
<1>1. DOMAIN InitRows = InitKeys /\ \A k \in InitKeys : InitRows[k] = InitRow(k)
  BY DEF InitRows
<1>2. NextId(InitRows, d) = Len(Loaded) + 1
  <2>1. DistrictKey(d) \in InitKeys
    BY DEF InitKeys
  <2>2. DistrictKey(d)[1] = "district"
    BY KeyColumns
  <2>3. InitRow(DistrictKey(d)) = [next |-> Len(Loaded) + 1, ytd |-> 0]
    BY <2>2 DEF InitRow
  <2>4. QED
    BY <1>1, <2>1, <2>3 DEF NextId
<1>3. ASSUME NEW o \in 1..Len(Loaded)
      PROVE  /\ OrderKey(d, o, 0) \in InitKeys
             /\ InitRows[OrderKey(d, o, 0)] = Order(Loaded[o].c, Len(Loaded[o].lines),
                                                    IF o < Oldest(d) THEN 1 ELSE 0)
  <2> DEFINE k == OrderKey(d, o, 0)
  <2>1. k[1] = "orders" /\ k[2] = d /\ k[3] = o
    BY KeyColumns
  <2>2. k \in InitKeys
    BY DEF InitKeys
  <2> HIDE DEF k
  <2>3. InitRow(k) = Order(Loaded[k[3]].c, Len(Loaded[k[3]].lines),
                           IF k[3] < Oldest(k[2]) THEN 1 ELSE 0)
    BY <2>1 DEF InitRow
  <2>4. InitRows[k] = Order(Loaded[o].c, Len(Loaded[o].lines), IF o < Oldest(d) THEN 1 ELSE 0)
    BY <1>1, <2>1, <2>2, <2>3
  <2>5. QED
    BY <2>2, <2>4 DEF k
<1>4. ASSUME NEW k
      PROVE  k \in InitKeys /\ In(k, "orders", d) <=> \E o \in 1..Len(Loaded) : k = OrderKey(d, o, 0)
  <2>1. ASSUME k \in InitKeys, In(k, "orders", d)
        PROVE  \E o \in 1..Len(Loaded) : k = OrderKey(d, o, 0)
    <3>1. PICK e \in Districts, o \in 1..Len(Loaded) : k = OrderKey(e, o, 0)
      BY <2>1, InitColumns DEF In
    <3>2. k[2] = e
      BY <3>1, KeyColumns
    <3>3. e = d
      BY <2>1, <3>2 DEF In
    <3>4. QED
      BY <3>1, <3>3
  <2>2. ASSUME NEW o \in 1..Len(Loaded), k = OrderKey(d, o, 0)
        PROVE  k \in InitKeys /\ In(k, "orders", d)
    <3>1. k \in InitKeys
      BY <1>3, <2>2
    <3>2. k[1] = "orders" /\ k[2] = d
      BY <2>2, KeyColumns
    <3>3. QED
      BY <3>1, <3>2 DEF In
  <2>3. QED
    BY <2>1, <2>2
<1>5. ASSUME NEW o \in 1..Len(Loaded), NEW n \in 1..Len(Loaded[o].lines)
      PROVE  /\ LineKey(d, o, n, 0) \in DOMAIN InitRows
             /\ InitRows[LineKey(d, o, n, 0)].item = Loaded[o].lines[n][1]
             /\ InitRows[LineKey(d, o, n, 0)].amount = Loaded[o].lines[n][2]
  <2> DEFINE k == LineKey(d, o, n, 0)
  <2>1. k[1] = "order_line" /\ k[2] = d /\ k[3] = o /\ k[4] = n
    BY KeyColumns
  <2>2. n \in DOMAIN Loaded[o].lines
    BY LoadedShape
  <2>3. k \in InitKeys
    BY <2>2 DEF InitKeys
  <2> HIDE DEF k
  <2>4. InitRow(k) = LET line == Loaded[k[3]].lines[k[4]]
                     IN  Line(line[1], line[2], k[3] < Oldest(k[2]))
    BY <2>1 DEF InitRow
  <2>5. InitRows[k] = Line(Loaded[o].lines[n][1], Loaded[o].lines[n][2], o < Oldest(d))
    BY <1>1, <2>1, <2>3, <2>4
  <2>6. InitRows[k].item = Loaded[o].lines[n][1] /\ InitRows[k].amount = Loaded[o].lines[n][2]
    BY <2>5 DEF Line
  <2>7. QED
    BY <1>1, <2>3, <2>6 DEF k
<1>6. QED
  BY <1>1, <1>2, <1>3, <1>4, <1>5

LEMMA LoadedBook ==
  ASSUME NEW d \in Districts, NEW o \in 1..Len(Loaded)
  PROVE  OrderIn(InitRows, d, o) = Loaded[o]
<1> DEFINE k == OrderKey(d, o, 0)
           line(n) == LineKey(d, o, n, 0)
<1>1. k \in DOMAIN InitRows /\ In(k, "orders", d) /\ k[3] = o /\ k[5] = 0
  BY LoadedRows, KeyColumns
<1>2. ASSUME NEW l \in DOMAIN InitRows, In(l, "orders", d), l[3] = o
      PROVE  l = k
  <2>1. PICK p \in 1..Len(Loaded) : l = OrderKey(d, p, 0)
    BY <1>2, LoadedRows
  <2>2. l[3] = p
    BY <2>1, KeyColumns
  <2>3. QED
    BY <1>2, <2>1, <2>2
<1>3. InitRows[k].c = Loaded[o].c /\ InitRows[k].cnt = Len(Loaded[o].lines)
  <2>1. InitRows[k] = Order(Loaded[o].c, Len(Loaded[o].lines), IF o < Oldest(d) THEN 1 ELSE 0)
    BY LoadedRows
  <2> HIDE DEF k
  <2>2. QED
    BY <2>1 DEF Order
<1>4. \A n \in 1..Len(Loaded[o].lines) :
        /\ line(n) \in DOMAIN InitRows
        /\ InitRows[line(n)].item = Loaded[o].lines[n][1]
        /\ InitRows[line(n)].amount = Loaded[o].lines[n][2]
  BY LoadedRows
<1> HIDE DEF k
<1>5. OrderIn(InitRows, d, o) =
        IF \A n \in 1..InitRows[k].cnt : line(n) \in DOMAIN InitRows
        THEN [c |-> InitRows[k].c,
              lines |-> [n \in 1..InitRows[k].cnt |->
                           <<InitRows[line(n)].item, InitRows[line(n)].amount>>]]
        ELSE Missing
  BY <1>1, <1>2, OrderOf
<1> HIDE DEF line
<1> DEFINE lines == Loaded[o].lines
<1>6. [n \in 1..InitRows[k].cnt |-> <<InitRows[line(n)].item, InitRows[line(n)].amount>>]
        = [n \in 1..Len(lines) |-> <<lines[n][1], lines[n][2]>>]
  BY <1>3, <1>4
<1>7. [n \in 1..Len(lines) |-> <<lines[n][1], lines[n][2]>>] = lines
  BY LoadedShape, RebuiltLines
<1>8. \A n \in 1..InitRows[k].cnt : line(n) \in DOMAIN InitRows
  BY <1>3, <1>4
<1>9. QED
  BY <1>3, <1>5, <1>6, <1>7, <1>8, LoadedOrder

LEMMA LoadedCarried ==
  ASSUME NEW d \in Districts
  PROVE  Cardinality(Carried(InitRows, d)) = Len(Loaded) - Undelivered[d]
<1> DEFINE S == Carried(InitRows, d)
           T == 1..(Len(Loaded) - Undelivered[d])
           f == [k \in S |-> k[3]]
<1>1. Len(Loaded) \in Nat /\ Undelivered[d] \in 0..Len(Loaded)
  BY LoadedShape, UndeliveredAssumption
<1>2. \A o \in 1..Len(Loaded) : o < Oldest(d) <=> o \in T
  BY <1>1 DEF Oldest
<1>3. ASSUME NEW k
      PROVE  k \in S <=> \E o \in T : k = OrderKey(d, o, 0)
  <2>1. k \in S <=> k \in DOMAIN InitRows /\ In(k, "orders", d) /\ InitRows[k].carrier > 0
    BY DEF Carried, OfDistrict, In
  <2>2. ASSUME NEW o \in 1..Len(Loaded)
        PROVE  InitRows[OrderKey(d, o, 0)].carrier > 0 <=> o \in T
    <3>1. InitRows[OrderKey(d, o, 0)] = Order(Loaded[o].c, Len(Loaded[o].lines),
                                              IF o < Oldest(d) THEN 1 ELSE 0)
      BY LoadedRows
    <3>2. InitRows[OrderKey(d, o, 0)].carrier = IF o < Oldest(d) THEN 1 ELSE 0
      BY <3>1 DEF Order
    <3>3. QED
      BY <1>2, <3>2
  <2>3. \A o \in T : o \in 1..Len(Loaded)
    BY <1>1
  <2>4. k \in DOMAIN InitRows /\ In(k, "orders", d) <=> \E o \in 1..Len(Loaded) : k = OrderKey(d, o, 0)
    BY LoadedRows
  <2> HIDE DEF S, T
  <2>5. QED
    BY <2>1, <2>2, <2>3, <2>4
<1>4. \A o : OrderKey(d, o, 0)[3] = o
  BY KeyColumns
<1> HIDE DEF S
<1>5. f \in Bijection(S, T)
  <2>1. \A k \in S : f[k] \in T /\ k = OrderKey(d, f[k], 0)
    BY <1>3, <1>4
  <2>2. \A o \in T : OrderKey(d, o, 0) \in S /\ f[OrderKey(d, o, 0)] = o
    BY <1>3, <1>4
  <2>3. f \in [S -> T]
    BY <2>1
  <2> HIDE DEF f, T
  <2>4. f \in Injection(S, T)
    BY <2>1, <2>3 DEF Injection, IsInjective
  <2>5. f \in Surjection(S, T)
    BY <2>2, <2>3 DEF Surjection
  <2>6. QED
    BY <2>4, <2>5 DEF Bijection
<1>6. IsFiniteSet(T) /\ Cardinality(T) = Len(Loaded) - Undelivered[d]
  <2>1. PICK m \in Nat : m = Len(Loaded) - Undelivered[d]
    BY <1>1
  <2>2. IsFiniteSet(1..m) /\ Cardinality(1..m) = IF 1 > m THEN 0 ELSE m - 1 + 1
    BY FS_Interval
  <2>3. QED
    BY <2>1, <2>2
<1>7. IsFiniteSet(S)
  BY InitGood, CarriedType DEF S
<1> HIDE DEF T, f
<1>8. Cardinality(T) = Cardinality(S)
  BY <1>5, <1>7, FS_Bijection DEF ExistsBijection
<1>9. QED
  BY <1>6, <1>8 DEF S

LEMMA LoadedPaid ==
  PaidOf(InitRows) = [k \in Districts \X Customers |-> [sum |-> 0, number |-> 0]]
<1>1. ASSUME NEW d \in Districts, NEW c \in Customers
      PROVE  InitRows[CustomerKey(d, c)] = NewCustomer
  <2> DEFINE k == CustomerKey(d, c)
  <2>1. k \in InitKeys
    BY DEF InitKeys
  <2>2. k[1] = "customer"
    BY KeyColumns
  <2> HIDE DEF k
  <2>3. InitRow(k) = NewCustomer
    BY <2>2 DEF InitRow
  <2>4. InitRows[k] = NewCustomer
    BY <2>1, <2>3 DEF InitRows
  <2>5. QED
    BY <2>4 DEF k
<1>2. ASSUME NEW k \in Districts \X Customers
      PROVE  /\ InitRows[CustomerKey(k[1], k[2])].ytd = 0
             /\ InitRows[CustomerKey(k[1], k[2])].payments = 0
  BY <1>1 DEF NewCustomer
<1>3. QED
  BY <1>2 DEF PaidOf

LEMMA InitRefines == Init => Book!Init
<1> SUFFICES ASSUME Init
             PROVE  Book!Init
  OBVIOUS
<1>1. db = InitRows /\ torn = FALSE
  BY DEF Init
<1>2. BookOf(InitRows) = [d \in Districts |-> Loaded]
  <2>1. ASSUME NEW d \in Districts
        PROVE  Bookings(InitRows, d) = Loaded
    <3>1. NextId(InitRows, d) - 1 = Len(Loaded)
      BY LoadedRows, LoadedShape
    <3>2. Bookings(InitRows, d) = [o \in 1..Len(Loaded) |-> Loaded[o]]
      BY <3>1, LoadedBook DEF Bookings
    <3>3. Loaded = [o \in 1..Len(Loaded) |-> Loaded[o]]
      BY LoadedAssumption
    <3>4. QED
      BY <3>2, <3>3
  <2>2. QED
    BY <2>1 DEF BookOf
<1>3. DeliveredOf(InitRows) = [d \in Districts |-> Len(Loaded) - Undelivered[d]]
  BY LoadedCarried DEF DeliveredOf
<1>4. BookOf(db) = [d \in Districts |-> Loaded]
      /\ DeliveredOf(db) = [d \in Districts |-> Len(Loaded) - Undelivered[d]]
      /\ PaidOf(db) = [k \in Districts \X Customers |-> [sum |-> 0, number |-> 0]]
  BY <1>1, <1>2, <1>3, LoadedPaid
<1>5. QED
  BY <1>1, <1>4
     DEF Book!Init, BookOf, Bookings, DeliveredOf, PaidOf, Carried, OrderIn, NextId, TheOrder

\* What the statements of the workers, their failures and their rollbacks make
\* of the committed rows is what transactions in one step each would have made,
\* in some order: an order is appended to its district, a payment added to its
\* customer, the oldest orders of some districts delivered.  Once a Delivery went
\* on outside of its transaction only the deliveries are void.
THEOREM BookRefinement == Spec => ImplementsOrderBook
<1> DEFINE IInv == BookIInv /\ RowIInv /\ OrderIInv /\ ServeIInv /\ PlainIInv
<1>1. Init => IInv
  BY BookInit, RowInit, OrderInit, ServeInit, PlainInit
<1>2. IInv /\ [Next]_vars => IInv'
  BY BookStep, RowStep, OrderStep, ServeStep, PlainStep
<1>3. Spec => []IInv
  <2> HIDE DEF IInv
  <2>1. QED
    BY <1>1, <1>2, PTL DEF Spec
<1>4. Spec => []Sound(db)
  BY LedgerInvariant, SoundRows, PTL
<1>5. IInv /\ Sound(db) /\ Sound(db)' /\ [Next]_vars => [Book!Next]_(Book!vars)
  BY NextRefines
<1>6. QED
  <2> HIDE DEF IInv
  <2>1. QED
    BY <1>3, <1>4, <1>5, InitRefines, PTL DEF Spec, ImplementsOrderBook, Book!Spec

---------------------------------------------------------------------------
(* Deliveries credit what they deliver.  A transaction that has marked the  *)
(* lines of an order has written its customer too, once it is past the      *)
(* statements between the two, and the row it has written is ahead of the   *)
(* committed one by these lines.                                            *)

OrderedBy(rows, d, o, c) == \E k \in DOMAIN rows : In(k, "orders", d) /\ k[3] = o /\ rows[k].c = c

\* DeliveredTo, of any rows.
Given(rows, d, c) ==
  {l \in DOMAIN rows : /\ In(l, "order_line", d) /\ l[3] >= Oldest(d) /\ rows[l].dated
                       /\ OrderedBy(rows, d, l[3], c)}

\* The lines among the keys in K of orders of customer c.
Marks(K, rows, d, c) ==
  {l \in DOMAIN rows : l \in K /\ In(l, "order_line", d) /\ OrderedBy(rows, d, l[3], c)}

Crediting == {"update_order", "update_lines", "read_order", "sum_amounts", "credit_customer"}

\* The lines that the transaction of w has marked and credited.
Due(w, d, c) == IF Busy(w, d, Crediting) THEN {} ELSE Marks(wrote[w], db, d, c)

OrdersOf(L) == {l[3] : l \in L}

\* Row `new` of a customer is ahead of `old` by the lines in L, payments aside.
Plus(new, old, rows, L) ==
  /\ new.balance + new.ytd = old.balance + old.ytd + SumOfAmounts(rows, L)
  /\ new.deliveries = old.deliveries + Cardinality(OrdersOf(L))

Credited(w, d, c) ==
  LET k == CustomerKey(d, c)
  IN  /\ k \notin wrote[w] => Due(w, d, c) = {}
      /\ k \in wrote[w] => Plus(view[w][k], db[k], db, Due(w, d, c))

LinesOf(rows, d, o) == OfOrder(rows, "order_line", d, o)

\* What a Delivery knows of the order whose customer it is to credit.
Knows(w) ==
  /\ at[w] \in {"read_order", "sum_amounts", "credit_customer"} =>
       \E t \in Takes(w, my[w].d) : t[3] = my[w].o
  /\ at[w] \in {"sum_amounts", "credit_customer"} => OrderedBy(db, my[w].d, my[w].o, my[w].c)
  /\ at[w] = "credit_customer" => my[w].seen = SumOfAmounts(db, LinesOf(db, my[w].d, my[w].o))

Owes(rows, d, c) == Plus(rows[CustomerKey(d, c)], NewCustomer, rows, Given(rows, d, c))

\* No order is without lines, and those that wait count as delivered since the
\* load once they are.
Begun(rows, d) ==
  /\ NextId(rows, d) > Len(Loaded)
  /\ \A k \in DOMAIN rows : /\ In(k, "new_orders", d) => k[3] >= Oldest(d)
                            /\ In(k, "orders", d) => rows[k].cnt # 0

Credits(w) == Knows(w) /\ \A d \in Districts, c \in Customers : Credited(w, d, c)

CreditIInv ==
  ~torn =>
    /\ \A d \in Districts : Begun(db, d)
    /\ \A d \in Districts, c \in Customers : Owes(db, d, c)
    /\ \A w \in Workers : Works(w) => Credits(w)

\* The committed rows stay, and w goes on to credit.
LEMMA CreditMoves ==
  ASSUME CreditIInv, NEW w \in Workers, Steps(w), torn' = torn \/ torn', db' = db,
         \A v \in Workers \ {w} : view'[v] = view[v] /\ wrote'[v] = wrote[v],
         ~torn /\ ~torn' /\ Works(w)' => Credits(w)'
  PROVE  CreditIInv'
<1> SUFFICES ASSUME ~torn'
             PROVE  /\ \A d \in Districts : Begun(db', d)
                    /\ \A d \in Districts, c \in Customers : Owes(db', d, c)
                    /\ \A v \in Workers : Works(v)' => Credits(v)'
  BY DEF CreditIInv
<1>1. ~torn
  OBVIOUS
<1>2. /\ \A d \in Districts : Begun(db, d)
      /\ \A d \in Districts, c \in Customers : Owes(db, d, c)
      /\ \A v \in Workers : Works(v) => Credits(v)
  BY <1>1 DEF CreditIInv
<1>3. ASSUME NEW v \in Workers \ {w}, Works(v)'
      PROVE  Credits(v)'
  <2>1. at'[v] = at[v] /\ my'[v] = my[v] /\ view'[v] = view[v] /\ wrote'[v] = wrote[v]
    BY DEF Steps
  <2>2. Credits(v)
    BY <1>2, <1>3, <2>1 DEF Works
  <2>3. Knows(v)'
    BY <2>1, <2>2 DEF Credits, Knows, Takes
  <2>4. ASSUME NEW d \in Districts, NEW c \in Customers
        PROVE  Credited(v, d, c)'
    <3>1. Due(v, d, c)' = Due(v, d, c)
      BY <2>1 DEF Due, Busy
    <3>2. Credited(v, d, c)
      BY <2>2 DEF Credits
    <3>3. QED
      BY <2>1, <3>1, <3>2 DEF Credited
  <2>5. QED
    BY <2>3, <2>4 DEF Credits
<1>4. QED
  BY <1>2, <1>3

\* No lines are worth nothing.
LEMMA NoLines ==
  ASSUME NEW rows, NEW new, NEW old,
         old.balance \in Int, old.ytd \in Int, old.deliveries \in Int
  PROVE  Plus(new, old, rows, {}) <=> /\ new.balance + new.ytd = old.balance + old.ytd
                                     /\ new.deliveries = old.deliveries
<1>1. IsFiniteSet({}) /\ Cardinality({}) = 0 /\ OrdersOf({}) = {}
  BY FS_EmptySet DEF OrdersOf
<1>2. SumOfAmounts(rows, {}) = 0
  BY <1>1, AmountsAre, SumOfNone
<1>3. Plus(new, old, rows, {}) <=> /\ new.balance + new.ytd = old.balance + old.ytd + 0
                                   /\ new.deliveries = old.deliveries + 0
  BY <1>1, <1>2 DEF Plus
<1>4. old.balance + old.ytd + 0 = old.balance + old.ytd /\ old.deliveries + 0 = old.deliveries
  OBVIOUS
<1>5. QED
  BY <1>3, <1>4

\* Customers have their columns.
LEMMA CustomerRow ==
  ASSUME NEW rows, Good(rows), NEW d \in Districts, NEW c \in Customers,
         NEW k, k = CustomerKey(d, c)
  PROVE  /\ k \in DOMAIN rows /\ k[1] = "customer"
         /\ rows[k] \in [balance : Int, ytd : Nat, payments : Nat, deliveries : Nat]
         /\ rows[k].balance \in Int /\ rows[k].ytd \in Int /\ rows[k].deliveries \in Int
         /\ rows[k].balance + rows[k].ytd \in Int
<1>0. k \in Fixed /\ k[1] = "customer"
  BY FixedKeys, OtherKeys
<1>1. k \in DOMAIN rows /\ k[1] = "customer"
  BY <1>0 DEF Good
<1>2. rows[k] \in [balance : Int, ytd : Nat, payments : Nat, deliveries : Nat]
  BY <1>1 DEF Good, Typed
<1>3. QED
  BY <1>1, <1>2

\* A statement that writes customers, if any, without changing what they owe.
LEMMA CreditWrite ==
  ASSUME BookIInv, RowIInv, NEW w \in Workers, open[w],
         NEW K, NEW rows, NEW place, Does(w, K, rows, place), Same(K, view[w], rows),
         NEW d \in Districts, NEW c \in Customers, Credited(w, d, c),
         Due(w, d, c)' = Due(w, d, c),
         CustomerKey(d, c) \in K =>
           /\ rows[CustomerKey(d, c)].balance + rows[CustomerKey(d, c)].ytd
                = view[w][CustomerKey(d, c)].balance + view[w][CustomerKey(d, c)].ytd
           /\ rows[CustomerKey(d, c)].deliveries = view[w][CustomerKey(d, c)].deliveries
  PROVE  Credited(w, d, c)'
<1>k. PICK k : k = CustomerKey(d, c)
  OBVIOUS
<1>1. /\ open' = open /\ db' = db /\ view'[w] = rows /\ wrote'[w] = wrote[w] \cup K
      /\ K \cap stale[w] = {}
  BY WriteSplits DEF Does
<1>2. /\ k \notin wrote[w] => Due(w, d, c) = {}
      /\ k \in wrote[w] => Plus(view[w][k], db[k], db, Due(w, d, c))
  BY <1>k DEF Credited
<1>3. k \in DOMAIN view[w] /\ k \in DOMAIN db
      /\ db[k].balance \in Int /\ db[k].ytd \in Int /\ db[k].deliveries \in Int
  BY <1>k, CustomerRow DEF RowIInv, RowShape
<1>4. /\ rows[k].balance + rows[k].ytd = view[w][k].balance + view[w][k].ytd
      /\ rows[k].deliveries = view[w][k].deliveries
  BY <1>k, <1>3 DEF Same
<1>5. k \notin wrote'[w] => Due(w, d, c)' = {}
  BY <1>1, <1>2
<1>6. ASSUME k \in wrote'[w]
      PROVE  Plus(rows[k], db[k], db, Due(w, d, c))
  <2>1. CASE k \in wrote[w]
    BY <1>2, <1>4, <2>1 DEF Plus
  <2>2. CASE k \notin wrote[w]
    <3>1. k \notin stale[w]
      BY <1>1, <1>6, <2>2
    <3>2. view[w][k] = db[k]
      BY <1>3, <2>2, <3>1 DEF BookIInv, BookShape, IsSnapshot
    <3>3. Due(w, d, c) = {}
      BY <1>2, <2>2
    <3>4. QED
      BY <1>3, <1>4, <3>2, <3>3, NoLines
  <2>3. QED
    BY <2>1, <2>2
<1>7. QED
  BY <1>1, <1>k, <1>5, <1>6 DEF Credited

\* No committed line is written, and the worker does not come to, or leave, the
\* statements that lead to the credit.
LEMMA DueSame ==
  ASSUME NEW w \in Workers, NEW d, NEW c, NEW K, db' = db, wrote'[w] = wrote[w] \cup K,
         \A k \in K : In(k, "order_line", d) => k \notin DOMAIN db,
         Busy(w, d, Crediting)' <=> Busy(w, d, Crediting)
  PROVE  Due(w, d, c)' = Due(w, d, c)
<1>1. Marks(wrote'[w], db', d, c) = Marks(wrote[w], db, d, c)
  BY DEF Marks
<1>2. QED
  BY <1>1 DEF Due

SameCredit(k, old, new) ==
  k[1] = "customer" => /\ new.balance + new.ytd = old.balance + old.ytd
                       /\ new.deliveries = old.deliveries

\* A statement of a NewOrder or a Payment.
LEMMA CreditAside ==
  ASSUME BookIInv, RowIInv, OrderIInv, CreditIInv, NEW w \in Workers,
         at[w] \in NewOrderPlaces \cup PaymentPlaces,
         at'[w] \in NewOrderPlaces \cup PaymentPlaces \cup {"commit"},
         NEW K, NEW rows, NEW place, Does(w, K, rows, place), Same(K, view[w], rows),
         \A k \in K : /\ k[1] = "order_line" => k[5] = my[w].id
                      /\ SameCredit(k, view[w][k], rows[k])
  PROVE  CreditIInv'
<1> USE DEF NewOrderPlaces, PaymentPlaces
<1>1. open[w] /\ Works(w)
  BY DEF RowIInv, RowShape, Works
<1>2. /\ db' = db /\ Steps(w) /\ torn' = torn /\ wrote'[w] = wrote[w] \cup K
      /\ \A v \in Workers \ {w} : view'[v] = view[v] /\ wrote'[v] = wrote[v]
  BY <1>1, WriteSplits DEF Does
<1>3. \A k \in K : k[1] = "order_line" => k \notin DOMAIN db
  BY <1>1 DEF OrderIInv, IdsShape
<1>4. ASSUME ~torn, NEW d \in Districts, NEW c \in Customers
      PROVE  Credited(w, d, c)'
  <2>1. Credited(w, d, c)
    BY <1>1, <1>4 DEF CreditIInv, Credits
  <2>2. ~Busy(w, d, Crediting) /\ ~Busy(w, d, Crediting)'
    BY DEF Busy, Crediting
  <2>3. Due(w, d, c)' = Due(w, d, c)
    BY <1>2, <1>3, <2>2, DueSame DEF In
  <2>4. CustomerKey(d, c)[1] = "customer"
    BY OtherKeys
  <2>5. QED
    BY <1>1, <2>1, <2>3, <2>4, CreditWrite DEF SameCredit
<1>5. Knows(w)'
  BY DEF Knows
<1>6. ~torn => Credits(w)'
  BY <1>4, <1>5 DEF Credits
<1>7. QED
  BY <1>2, <1>6, CreditMoves

LEMMA CreditPut ==
  ASSUME BookIInv, RowIInv, OrderIInv, CreditIInv, NEW w \in Workers,
         at[w] \in NewOrderPlaces \cup PaymentPlaces,
         NEW place \in NewOrderPlaces \cup PaymentPlaces \cup {"commit"},
         NEW k, NEW row, Does(w, {k}, With(Sees(w), [x \in {k} |-> row]), place),
         k[1] = "order_line" => k[5] = my[w].id,
         SameCredit(k, Sees(w)[k], row)
  PROVE  CreditIInv'
<1>1. Sees(w) = view[w] /\ at'[w] = place
  BY NewOrderKnows, PaymentKnows DEF Does
<1> DEFINE rows == With(Sees(w), [x \in {k} |-> row])
<1>2. Does(w, {k}, rows, place)
  OBVIOUS
<1>3. Same({k}, Sees(w), rows)
  BY SamePut
<1>4. rows[k] = row
  BY DEF With
<1> HIDE DEF rows
<1>5. QED
  BY <1>1, <1>2, <1>3, <1>4, CreditAside

LEMMA CreditRead ==
  ASSUME BookIInv, RowIInv, OrderIInv, CreditIInv, NEW w \in Workers,
         at[w] \in NewOrderPlaces \cup PaymentPlaces,
         NEW place \in NewOrderPlaces \cup PaymentPlaces \cup {"commit"},
         Does(w, {}, Sees(w), place)
  PROVE  CreditIInv'
<1>1. Sees(w) = view[w] /\ at'[w] = place
  BY NewOrderKnows, PaymentKnows DEF Does
<1>2. Same({}, view[w], view[w])
  BY DEF Same
<1>3. QED
  BY <1>1, <1>2, CreditAside

LEMMA NewOrderCredit ==
  ASSUME BookIInv, RowIInv, OrderIInv, CreditIInv, NEW w \in Workers,
         \/ ReadsDistrict(w) \/ TakesId(w) \/ InsertsOrder(w) \/ InsertsNewOrder(w)
         \/ ReadsStock(w) \/ UpdatesStock(w) \/ InsertsLine(w)
  PROVE  CreditIInv'
<1> USE DEF NewOrderPlaces, SameCredit
<1>1. CASE ReadsDistrict(w)
  BY <1>1, ReadsDistrictDoes, CreditRead
<1>2. CASE TakesId(w)
  <2> DEFINE k == DistrictKey(my[w].d)
             row == [Sees(w)[k] EXCEPT !.next = @ + 1]
  <2>1. /\ at[w] = "take_id"
        /\ Does(w, {k}, With(Sees(w), [x \in {k} |-> row]), "insert_order")
    BY <1>2, TakesIdDoes
  <2>2. k[1] = "district"
    BY KeyColumns
  <2> HIDE DEF k, row
  <2>3. QED
    BY <2>1, <2>2, CreditPut
<1>3. CASE InsertsOrder(w)
  <2> DEFINE k == OrderKey(my[w].d, my[w].o, my[w].id)
             row == Order(my[w].c, Len(my[w].lines), -1)
  <2>1. /\ at[w] = "insert_order"
        /\ Does(w, {k}, With(Sees(w), [x \in {k} |-> row]), "insert_new_order")
    BY <1>3, InsertsOrderDoes
  <2>2. k[5] = my[w].id /\ k[1] # "customer"
    BY KeyColumns
  <2> HIDE DEF k, row
  <2>3. QED
    BY <2>1, <2>2, CreditPut
<1>4. CASE InsertsNewOrder(w)
  <2> DEFINE k == NewOrderKey(my[w].d, my[w].o, my[w].id)
             row == [o_id |-> my[w].o]
  <2>1. /\ at[w] = "insert_new_order"
        /\ Does(w, {k}, With(Sees(w), [x \in {k} |-> row]), "read_stock")
    BY <1>4, InsertsNewOrderDoes
  <2>2. k[5] = my[w].id /\ k[1] # "customer"
    BY KeyColumns
  <2> HIDE DEF k, row
  <2>3. QED
    BY <2>1, <2>2, CreditPut
<1>5. CASE ReadsStock(w)
  BY <1>5, ReadsStockDoes, CreditRead
<1>6. CASE UpdatesStock(w)
  <2> DEFINE k == StockKey(Item(w))
             row == Restocked(my[w].seen, Quantity(w))
  <2>1. /\ at[w] = "update_stock"
        /\ Does(w, {k}, With(Sees(w), [x \in {k} |-> row]), "insert_line")
    BY <1>6, UpdatesStockDoes
  <2>2. k[1] = "stock"
    BY KeyColumns
  <2> HIDE DEF k, row
  <2>3. QED
    BY <2>1, <2>2, CreditPut
<1>7. CASE InsertsLine(w)
  <2> DEFINE k == LineKey(my[w].d, my[w].o, my[w].n, my[w].id)
             row == Line(Item(w), Quantity(w), FALSE)
             place == IF my[w].n < Len(my[w].lines) THEN "read_stock" ELSE "commit"
  <2>1. /\ at[w] = "insert_line"
        /\ Does(w, {k}, With(Sees(w), [x \in {k} |-> row]), place)
    BY <1>7, InsertsLineDoes
  <2>2. k[5] = my[w].id /\ k[1] # "customer"
    BY KeyColumns
  <2>3. place \in NewOrderPlaces \cup {"commit"}
    OBVIOUS
  <2> HIDE DEF k, row, place
  <2>4. QED
    BY <2>1, <2>2, <2>3, CreditPut
<1>8. QED
  BY <1>1, <1>2, <1>3, <1>4, <1>5, <1>6, <1>7

LEMMA PaymentCredit ==
  ASSUME BookIInv, RowIInv, OrderIInv, CreditIInv, NEW w \in Workers,
         \/ UpdatesWarehouse(w) \/ UpdatesDistrict(w) \/ ReadsCustomer(w)
         \/ UpdatesCustomer(w) \/ InsertsHistory(w)
  PROVE  CreditIInv'
<1> USE DEF PaymentPlaces, SameCredit
<1>1. CASE UpdatesWarehouse(w)
  <2> DEFINE k == WarehouseKey
             row == [Sees(w)[k] EXCEPT !.ytd = @ + my[w].amount]
  <2>1. /\ at[w] = "update_warehouse"
        /\ Does(w, {k}, With(Sees(w), [x \in {k} |-> row]), "update_district")
    BY <1>1, UpdatesWarehouseDoes
  <2>2. k[1] = "warehouse"
    BY KeyColumns
  <2> HIDE DEF k, row
  <2>3. QED
    BY <2>1, <2>2, CreditPut
<1>2. CASE UpdatesDistrict(w)
  <2> DEFINE k == DistrictKey(my[w].d)
             row == [Sees(w)[k] EXCEPT !.ytd = @ + my[w].amount]
  <2>1. /\ at[w] = "update_district"
        /\ Does(w, {k}, With(Sees(w), [x \in {k} |-> row]), "read_customer")
    BY <1>2, UpdatesDistrictDoes
  <2>2. k[1] = "district"
    BY KeyColumns
  <2> HIDE DEF k, row
  <2>3. QED
    BY <2>1, <2>2, CreditPut
<1>3. CASE ReadsCustomer(w)
  BY <1>3, ReadsCustomerDoes, CreditRead
<1>4. CASE UpdatesCustomer(w)
  <2> DEFINE k == CustomerKey(my[w].cd, my[w].c)
             row == [Sees(w)[k] EXCEPT !.balance = my[w].seen.balance - my[w].amount,
                                       !.ytd = my[w].seen.ytd + my[w].amount,
                                       !.payments = my[w].seen.payments + 1]
  <2>1. /\ at[w] = "update_customer"
        /\ Does(w, {k}, With(Sees(w), [x \in {k} |-> row]), "insert_history")
    BY <1>4, UpdatesCustomerDoes
  <2>2. k[1] = "customer" /\ k \in DOMAIN Sees(w)
        /\ Sees(w)[k] \in [balance : Int, ytd : Nat, payments : Nat, deliveries : Nat]
        /\ my[w].seen = Sees(w)[k] /\ my[w].amount \in Nat
    <3>1. /\ Good(Sees(w)) /\ my[w].cd \in Districts /\ my[w].c \in Customers
          /\ my[w].amount \in Nat /\ SeenFits(w) /\ Sees(w) = view[w]
      BY <2>1, PaymentKnows
    <3>2. my[w].seen = Sees(w)[k]
      BY <2>1, <3>1 DEF SeenFits
    <3>3. QED
      BY <3>1, <3>2, CustomerRow
  <2>3. row.balance + row.ytd = Sees(w)[k].balance + Sees(w)[k].ytd
        /\ row.deliveries = Sees(w)[k].deliveries
    BY <2>2
  <2> HIDE DEF k, row
  <2>4. QED
    BY <2>1, <2>2, <2>3, CreditPut
<1>5. CASE InsertsHistory(w)
  <2> DEFINE k == HistoryKey(my[w].cd, my[w].c, my[w].id)
             row == [d |-> my[w].d, amount |-> my[w].amount]
  <2>1. /\ at[w] = "insert_history"
        /\ Does(w, {k}, With(Sees(w), [x \in {k} |-> row]), "commit")
    BY <1>5, InsertsHistoryDoes
  <2>2. k[1] = "history"
    BY KeyColumns
  <2> HIDE DEF k, row
  <2>3. QED
    BY <2>1, <2>2, CreditPut
<1>6. QED
  BY <1>1, <1>2, <1>3, <1>4, <1>5

---------------------------------------------------------------------------
(* The statements of Delivery, and the credit. *)

LEMMA CreditDelivery ==
  ASSUME BookIInv, ServeIInv, CreditIInv, NEW w \in Workers, at[w] \in DeliveryPlaces,
         NEW K, NEW rows, NEW place, Does(w, K, rows, place),
         ~torn /\ open[w] /\ Serves(w) /\ Credits(w) => Credits(w)'
  PROVE  CreditIInv'
<1>1. Works(w) /\ Steps(w) /\ torn' = torn
  BY DEF DeliveryPlaces, Works, Does
<1>2. CASE torn
  BY <1>1, <1>2 DEF CreditIInv
<1>3. CASE ~torn
  <2>1. open[w] /\ Serves(w) /\ Credits(w)
    BY <1>1, <1>3 DEF ServeIInv, Serves, CreditIInv
  <2>2. /\ db' = db
        /\ \A v \in Workers \ {w} : view'[v] = view[v] /\ wrote'[v] = wrote[v]
    BY <2>1, WriteSplits DEF Does
  <2>3. Credits(w)'
    BY <1>3, <2>1
  <2>4. QED
    BY <1>1, <2>2, <2>3, CreditMoves
<1>4. QED
  BY <1>2, <1>3

\* A statement on another table than that of the customers.
LEMMA CreditBeside ==
  ASSUME BookIInv, RowIInv, ServeIInv, CreditIInv, NEW w \in Workers, at[w] \in DeliveryPlaces,
         NEW K, NEW rows, NEW place, Does(w, K, rows, place), Mild(K, Sees(w), rows),
         \A k \in K : k[1] # "customer",
         ~torn /\ open[w] /\ Serves(w) /\ Credits(w) =>
           /\ Knows(w)'
           /\ \A d \in Districts, c \in Customers : Due(w, d, c)' = Due(w, d, c)
  PROVE  CreditIInv'
<1>1. ASSUME ~torn, open[w], Serves(w), Credits(w)
      PROVE  Credits(w)'
  <2>1. Same(K, view[w], rows)
    BY <1>1 DEF Sees, Mild
  <2>2. ASSUME NEW d \in Districts, NEW c \in Customers
        PROVE  Credited(w, d, c)'
    <3>1. Credited(w, d, c) /\ Due(w, d, c)' = Due(w, d, c)
      BY <1>1 DEF Credits
    <3>2. CustomerKey(d, c) \notin K
      BY OtherKeys
    <3>3. QED
      BY <1>1, <2>1, <3>1, <3>2, CreditWrite
  <2>3. QED
    BY <1>1, <2>2 DEF Credits
<1>2. QED
  BY <1>1, CreditDelivery

LEMMA TakesStay ==
  ASSUME BookIInv, NEW w \in Workers, open[w],
         NEW K, NEW rows, NEW place, Does(w, K, rows, place), Same(K, view[w], rows),
         NEW d, \A k \in K : ~In(k, "new_orders", d)
  PROVE  Takes(w, d)' = Takes(w, d)
<1>1. view'[w] = rows /\ wrote'[w] = wrote[w] \cup K
  BY WriteSplits DEF Does
<1>2. \A t : In(t, "new_orders", d) => t \notin K /\ (t \in DOMAIN rows <=> t \in DOMAIN view[w])
  BY DEF Same
<1>3. QED
  BY <1>1, <1>2 DEF Takes

\* Nothing is due of a district that the Delivery comes to.
LEMMA NothingDue ==
  ASSUME NEW w, NEW d, Untouched(w, d)
  PROVE  \A c : Marks(wrote[w], db, d, c) = {} /\ Due(w, d, c) = {}
BY DEF Untouched, Marks, Due, In, OrderTables

LEMMA FindsOldestCredit ==
  ASSUME BookIInv, RowIInv, ServeIInv, CreditIInv, NEW w \in Workers, at[w] = "find_oldest",
         NEW place \in {"find_oldest", "delete_new_order", "commit"}, Does(w, {}, Sees(w), place)
  PROVE  CreditIInv'
<1>1. at[w] \in DeliveryPlaces /\ at'[w] = place /\ Mild({}, Sees(w), Sees(w))
  BY MildRead DEF DeliveryPlaces, Does
<1>2. Knows(w)'
  BY <1>1 DEF Knows
<1>3. ASSUME open[w], NEW d, NEW c
      PROVE  Due(w, d, c)' = Due(w, d, c)
  <2>1. db' = db /\ wrote'[w] = wrote[w] \cup {}
    BY <1>3, WriteSplits DEF Does
  <2>2. ~Busy(w, d, Crediting) /\ ~Busy(w, d, Crediting)'
    BY <1>1 DEF Busy, Crediting
  <2>3. QED
    BY <2>1, <2>2, DueSame
<1>4. QED
  BY <1>1, <1>2, <1>3, CreditBeside

LEMMA DeletesNewOrderCredit ==
  ASSUME BookIInv, RowIInv, ServeIInv, CreditIInv, NEW w \in Workers, DeletesNewOrder(w)
  PROVE  CreditIInv'
<1>d. PICK d : d = my[w].d
  OBVIOUS
<1> DEFINE K == OfOrder(Sees(w), "new_orders", my[w].d, my[w].o)
           rows == Restrict(Sees(w), DOMAIN Sees(w) \ K)
<1>1. at[w] = "delete_new_order" /\ Others(w, {}) /\ Does(w, K, rows, "update_order")
  BY DeletesNewOrderDoes
<1>2. /\ at[w] \in DeliveryPlaces /\ d \in Districts /\ at'[w] = "update_order"
      /\ my[w].d = d /\ my'[w].d = d
  BY <1>1, <1>d, DeliveryKnows DEF DeliveryPlaces, Does, Others
<1>3. K \subseteq DOMAIN Sees(w) /\ \A k \in K : k[1] = "new_orders"
  BY DEF OfOrder
<1>4. Mild(K, Sees(w), rows)
  BY <1>3, MildDelete
<1> HIDE DEF K, rows
<1>5. Knows(w)'
  BY <1>2 DEF Knows
<1>6. ASSUME open[w], Serves(w), NEW e, NEW c
      PROVE  Due(w, e, c)' = Due(w, e, c)
  <2>1. CASE e = d
    <3>1. Untouched(w, d)
      BY <1>1, <1>2, <1>6 DEF Serves, Sight, Busy
    <3>2. Due(w, d, c) = {}
      BY <3>1, NothingDue
    <3>3. Due(w, d, c)' = {}
      BY <1>2 DEF Due, Busy, Crediting
    <3>4. QED
      BY <2>1, <3>2, <3>3
  <2>2. CASE e # d
    <3>1. db' = db /\ wrote'[w] = wrote[w] \cup K
      BY <1>1, <1>6, WriteSplits DEF Does
    <3>2. ~Busy(w, e, Crediting) /\ ~Busy(w, e, Crediting)'
      BY <1>2, <2>2 DEF Busy
    <3>3. QED
      BY <1>3, <3>1, <3>2, DueSame DEF In
  <2>3. QED
    BY <2>1, <2>2
<1>7. QED
  BY <1>1, <1>2, <1>3, <1>4, <1>5, <1>6, CreditBeside

\* A statement between the deletion and the credit.
LEMMA CreditWithin ==
  ASSUME BookIInv, RowIInv, ServeIInv, CreditIInv, NEW w \in Workers,
         at[w] \in Crediting \ {"credit_customer"}, at'[w] \in Crediting,
         my'[w].d = my[w].d,
         NEW K, NEW rows, NEW place, Does(w, K, rows, place), Mild(K, Sees(w), rows),
         \A k \in K : k[1] # "customer" /\ (k[1] = "order_line" => k[2] = my[w].d),
         ~torn /\ open[w] /\ Serves(w) /\ Credits(w) => Knows(w)'
  PROVE  CreditIInv'
<1>d. PICK d : d = my[w].d
  OBVIOUS
<1>1. at[w] \in DeliveryPlaces
  BY DEF DeliveryPlaces, Crediting
<1>2. ASSUME open[w], NEW e, NEW c
      PROVE  Due(w, e, c)' = Due(w, e, c)
  <2>1. CASE e = d
    BY <1>d, <2>1 DEF Due, Busy
  <2>2. CASE e # d
    <3>1. db' = db /\ wrote'[w] = wrote[w] \cup K
      BY <1>2, WriteSplits DEF Does
    <3>2. ~Busy(w, e, Crediting) /\ ~Busy(w, e, Crediting)'
      BY <1>d, <2>2 DEF Busy
    <3>3. QED
      BY <1>d, <2>2, <3>1, <3>2, DueSame DEF In
  <2>3. QED
    BY <2>1, <2>2
<1>3. QED
  BY <1>1, <1>2, CreditBeside

\* The updates of the rows of an order.
LEMMA UpdatesAreMild ==
  ASSUME BookIInv, RowIInv, NEW w \in Workers, UpdatesOrder(w) \/ UpdatesLines(w)
  PROVE  \E K, rows :
           /\ Mild(K, Sees(w), rows) /\ Others(w, {})
           /\ \A k \in K : k[1] \in {"orders", "order_line"} /\ k[2] = my[w].d
           /\ \/ at[w] = "update_order" /\ Does(w, K, rows, "update_lines")
              \/ at[w] = "update_lines" /\ Does(w, K, rows, "read_order")
<1>1. CASE UpdatesOrder(w)
  <2> DEFINE K == OfOrder(Sees(w), "orders", my[w].d, my[w].o)
             new == [k \in K |-> [Sees(w)[k] EXCEPT !.carrier = 1]]
             rows == With(Sees(w), new)
  <2>1. at[w] = "update_order" /\ Others(w, {}) /\ Does(w, K, rows, "update_lines")
    BY <1>1, UpdatesOrderDoes
  <2>2. Good(Sees(w))
    BY <2>1, DeliveryKnows DEF DeliveryPlaces
  <2>3. /\ \A k \in K : k \in DOMAIN Sees(w) /\ k[1] = "orders" /\ k[2] = my[w].d
        /\ DOMAIN new = K /\ \A k \in K : new[k] = [Sees(w)[k] EXCEPT !.carrier = 1]
    BY DEF OfOrder
  <2> HIDE DEF K, new
  <2>4. \A k \in K : Sees(w)[k] \in [c : Customers, cnt : Nat, carrier : -1..10]
    BY <2>2, <2>3 DEF Good, Typed
  <2>5. \A k \in K : SameOf(k, Sees(w)[k], new[k])
    BY <2>3, <2>4 DEF SameOf, SameOrder
  <2>6. Mild(K, Sees(w), rows)
    BY <2>3, <2>5, MildUpdate
  <2> HIDE DEF rows
  <2>7. QED
    BY <2>1, <2>3, <2>6
<1>2. CASE UpdatesLines(w)
  <2> DEFINE K == OfOrder(Sees(w), "order_line", my[w].d, my[w].o)
             new == [k \in K |-> [Sees(w)[k] EXCEPT !.dated = TRUE]]
             rows == With(Sees(w), new)
  <2>1. at[w] = "update_lines" /\ Others(w, {}) /\ Does(w, K, rows, "read_order")
    BY <1>2, UpdatesLinesDoes
  <2>2. Good(Sees(w))
    BY <2>1, DeliveryKnows DEF DeliveryPlaces
  <2>3. /\ \A k \in K : k \in DOMAIN Sees(w) /\ k[1] = "order_line" /\ k[2] = my[w].d
        /\ DOMAIN new = K /\ \A k \in K : new[k] = [Sees(w)[k] EXCEPT !.dated = TRUE]
    BY DEF OfOrder
  <2> HIDE DEF K, new
  <2>4. \A k \in K : Sees(w)[k] \in [item : Items, amount : Nat, dated : BOOLEAN]
    BY <2>2, <2>3 DEF Good, Typed
  <2>5. \A k \in K : SameOf(k, Sees(w)[k], new[k])
    BY <2>3, <2>4 DEF SameOf, SameOrder
  <2>6. Mild(K, Sees(w), rows)
    BY <2>3, <2>5, MildUpdate
  <2> HIDE DEF rows
  <2>7. QED
    BY <2>1, <2>3, <2>6
<1>3. QED
  BY <1>1, <1>2

LEMMA UpdatesCredit ==
  ASSUME BookIInv, RowIInv, ServeIInv, CreditIInv, NEW w \in Workers,
         UpdatesOrder(w) \/ UpdatesLines(w)
  PROVE  CreditIInv'
<1>1. PICK K, rows :
        /\ Mild(K, Sees(w), rows) /\ Others(w, {})
        /\ \A k \in K : k[1] \in {"orders", "order_line"} /\ k[2] = my[w].d
        /\ \/ at[w] = "update_order" /\ Does(w, K, rows, "update_lines")
           \/ at[w] = "update_lines" /\ Does(w, K, rows, "read_order")
  BY UpdatesAreMild
<1>2. PICK place : Does(w, K, rows, place) /\ at'[w] = place
  BY <1>1 DEF Does
<1>3. /\ my'[w].d = my[w].d /\ my'[w].o = my[w].o
      /\ at[w] \in {"update_order", "update_lines"} /\ at'[w] \in {"update_lines", "read_order"}
  BY <1>1 DEF Others, Does
<1>4. \A k \in K : k[1] # "customer" /\ k[1] # "new_orders" /\ (k[1] = "order_line" => k[2] = my[w].d)
  BY <1>1
<1>5. ASSUME open[w], Serves(w)
      PROVE  Knows(w)'
  <2>1. PICK t \in Takes(w, my[w].d) : t[3] = my[w].o
    BY <1>3, <1>5 DEF Serves, Target, DeliveryPlaces
  <2>2. Same(K, view[w], rows)
    BY <1>1, <1>5 DEF Sees, Mild
  <2>3. t \in Takes(w, my[w].d)'
    <3>1. PICK d : d = my[w].d
      OBVIOUS
    <3>2. \A k \in K : ~In(k, "new_orders", d)
      BY <1>4 DEF In
    <3>3. Takes(w, d)' = Takes(w, d)
      BY <1>2, <1>5, <2>2, <3>2, TakesStay
    <3>4. QED
      BY <1>3, <2>1, <3>1, <3>3 DEF Takes
  <2>4. \E x \in Takes(w, my[w].d)' : x[3] = my'[w].o
    BY <1>3, <2>1, <2>3
  <2>5. QED
    BY <1>3, <2>4 DEF Knows, Takes
<1>6. QED
  BY <1>1, <1>2, <1>3, <1>4, <1>5, CreditWithin DEF Crediting

\* The lines of an order keep their amounts.
LEMMA KeptAmounts ==
  ASSUME NEW old, Good(old), NEW new, Kept(old, new),
         NEW L, \A l \in L : l \in DOMAIN old /\ l[1] = "order_line"
  PROVE  /\ IsFiniteSet(L) /\ \A l \in L : old[l].amount \in Nat
         /\ SumOfAmounts(new, L) = SumOfAmounts(old, L)
<1>1. L \in SUBSET DOMAIN old /\ IsFiniteSet(DOMAIN old)
  BY DEF Good
<1>2. IsFiniteSet(L)
  BY <1>1, FS_Subset
<1>3. [l \in L |-> new[l].amount] = [l \in L |-> old[l].amount]
  BY DEF Kept, SameOrder
<1>4. SumOfAmounts(new, L) = SumOver([l \in L |-> new[l].amount], L)
  BY <1>2, AmountsAre
<1>5. SumOfAmounts(old, L) = SumOver([l \in L |-> old[l].amount], L)
  BY <1>2, AmountsAre
<1>6. \A l \in L : old[l].amount \in Nat
  BY DEF Good, Typed
<1>7. QED
  BY <1>2, <1>3, <1>4, <1>5, <1>6

\* The Delivery of w sees the order that it has taken as it is committed, and
\* has written all of its rows and no others.
LEMMA TakenSeen ==
  ASSUME BookIInv, RowIInv, OrderIInv, NEW w \in Workers, open[w],
         at[w] \in {"read_order", "sum_amounts", "credit_customer"}, Serves(w),
         NEW d, d = my[w].d, NEW o, \E t \in Takes(w, d) : t[3] = o
  PROVE  /\ d \in Districts
         /\ \E k \in DOMAIN view[w] : In(k, "orders", d) /\ k[3] = o
         /\ LinesOf(view[w], d, o) = LinesOf(db, d, o)
         /\ SumOfAmounts(view[w], LinesOf(db, d, o)) = SumOfAmounts(db, LinesOf(db, d, o))
         /\ \A l : l \in wrote[w] /\ l \in DOMAIN db /\ In(l, "order_line", d) <=>
                     l \in LinesOf(db, d, o)
<1>1. /\ d \in Districts /\ Works(w) /\ at[w] \in DeliveryPlaces /\ Good(db) /\ WorkShape(w)
  <2>1. Works(w) /\ at[w] \in DeliveryPlaces
    BY DEF Works, DeliveryPlaces
  <2>2. QED
    BY <2>1, DeliveryKnows DEF RowIInv, OrderIInv
<1>2. Sight(w) /\ Took(w, d)
  BY <1>1 DEF Serves
<1>3. PICK t \in Takes(w, d) : t[3] = o
  OBVIOUS
<1>4. PICK n \in DOMAIN db : In(n, "orders", d) /\ n[3] = o
  BY <1>1, <1>3, TakenOrder
<1>5. ~Busy(w, d, {"update_order"}) /\ ~Busy(w, d, {"update_order", "update_lines"})
  BY DEF Busy
<1>6. n \in wrote[w]
  BY <1>2, <1>3, <1>4, <1>5 DEF Took
<1>7. n \in DOMAIN view[w]
  BY <1>1, <1>4, <1>6 DEF WorkShape, In
<1>8. Kept(view[w], db) /\ Whole(view[w])
  BY <1>2 DEF Sight
<1>9. \A rows, l : l \in LinesOf(rows, d, o) <=> l \in DOMAIN rows /\ In(l, "order_line", d) /\ l[3] = o
  BY DEF LinesOf, OfOrder, In
<1>10. \A k \in DOMAIN db : In(k, "order_line", d) /\ k[3] = o => k \in DOMAIN view[w]
  BY <1>1, <1>4, <1>7, <1>8, SeesOrder
<1>11. \A l : l \in LinesOf(view[w], d, o) <=> l \in LinesOf(db, d, o)
  BY <1>8, <1>9, <1>10 DEF Kept, In
<1>12. LinesOf(view[w], d, o) = LinesOf(db, d, o)
  BY <1>11
<1>13. \A l \in LinesOf(db, d, o) : l \in DOMAIN view[w] /\ l[1] = "order_line"
  BY <1>9, <1>10 DEF In
<1>14. SumOfAmounts(db, LinesOf(db, d, o)) = SumOfAmounts(view[w], LinesOf(db, d, o))
  <2>1. Good(view[w])
    BY DEF RowIInv, RowShape
  <2>2. QED
    BY <1>8, <1>13, <2>1, KeptAmounts
<1>15. ASSUME NEW l, l \in wrote[w], l \in DOMAIN db, In(l, "order_line", d)
       PROVE  l[3] = o
  <2>1. l \in DOMAIN view[w]
    BY <1>1, <1>15 DEF WorkShape, In
  <2>2. PICK s \in Takes(w, d) : s[3] = l[3]
    BY <1>2, <1>15, <2>1 DEF Took
  <2>3. QED
    BY <1>1, <1>2, <1>3, <2>2, TakesOne
<1>16. ASSUME NEW l \in DOMAIN db, In(l, "order_line", d), l[3] = o
       PROVE  l \in wrote[w]
  BY <1>2, <1>3, <1>5, <1>16 DEF Took
<1>17. QED
  BY <1>1, <1>4, <1>7, <1>9, <1>12, <1>14, <1>15, <1>16

LEMMA ReadsCredit ==
  ASSUME BookIInv, RowIInv, OrderIInv, ServeIInv, CreditIInv, NEW w \in Workers,
         ReadsOrder(w) \/ SumsAmounts(w)
  PROVE  CreditIInv'
<1>1. PICK place \in {"sum_amounts", "credit_customer"} :
        /\ Does(w, {}, Sees(w), place) /\ at'[w] = place
        /\ my'[w].d = my[w].d /\ my'[w].o = my[w].o
        /\ \/ /\ place = "sum_amounts" /\ at[w] = "read_order"
              /\ \E k \in OfOrder(Sees(w), "orders", my[w].d, my[w].o) : my'[w].c = Sees(w)[k].c
           \/ /\ place = "credit_customer" /\ at[w] = "sum_amounts" /\ my'[w].c = my[w].c
              /\ my'[w].seen = SumOfAmounts(Sees(w), LinesOf(Sees(w), my[w].d, my[w].o))
  BY ReadsOrderDoes, SumsAmountsDoes DEF Does, Others, LinesOf
<1>2. ASSUME open[w], Serves(w), Credits(w)
      PROVE  Knows(w)'
  <2>d. PICK d : d = my[w].d
    OBVIOUS
  <2>o. PICK o : o = my[w].o
    OBVIOUS
  <2>1. PICK t \in Takes(w, d) : t[3] = o
    BY <1>1, <1>2, <2>d, <2>o DEF Credits, Knows
  <2>2. Sees(w) = view[w] /\ Same({}, view[w], view[w]) /\ db' = db
    BY <1>1, <1>2, WriteSplits DEF Sees, Same, Does
  <2>3. Takes(w, d)' = Takes(w, d)
    BY <1>1, <1>2, <2>2, TakesStay
  <2>4. \E x \in Takes(w, my[w].d)' : x[3] = my'[w].o
    BY <1>1, <2>d, <2>o, <2>1, <2>3 DEF Takes
  <2>5. OrderedBy(db, d, o, my'[w].c)
    <3>1. CASE place = "sum_amounts"
      <4>1. PICK k \in DOMAIN view[w] : In(k, "orders", d) /\ k[3] = o /\ my'[w].c = view[w][k].c
        BY <1>1, <2>d, <2>o, <2>2, <3>1 DEF OfOrder, In
      <4>2. Kept(view[w], db)
        BY <1>1, <1>2, <3>1 DEF Serves, Sight, DeliveryPlaces
      <4>3. k \in DOMAIN db /\ db[k].c = view[w][k].c
        BY <4>1, <4>2 DEF Kept, SameOrder, In
      <4>4. QED
        BY <4>1, <4>3 DEF OrderedBy
    <3>2. CASE place = "credit_customer"
      BY <1>1, <1>2, <2>d, <2>o, <3>2 DEF Credits, Knows
    <3>3. QED
      BY <3>1, <3>2
  <2>6. place = "credit_customer" => my'[w].seen = SumOfAmounts(db, LinesOf(db, d, o))
    <3>1. SUFFICES ASSUME place = "credit_customer"
                   PROVE  my'[w].seen = SumOfAmounts(db, LinesOf(db, d, o))
      OBVIOUS
    <3>2. my'[w].seen = SumOfAmounts(view[w], LinesOf(view[w], d, o)) /\ at[w] = "sum_amounts"
      BY <1>1, <2>d, <2>o, <2>2, <3>1
    <3>3. QED
      BY <1>2, <2>d, <2>1, <3>2, TakenSeen
  <2>7. QED
    BY <1>1, <2>d, <2>o, <2>2, <2>4, <2>5, <2>6 DEF Knows, Takes
<1>3. /\ at[w] \in Crediting \ {"credit_customer"} /\ at'[w] \in Crediting
      /\ Mild({}, Sees(w), Sees(w))
  BY <1>1, MildRead DEF Crediting
<1>4. QED
  BY <1>1, <1>2, <1>3, CreditWithin

\* The order that a Delivery is at has lines, and one customer.
LEMMA OneOrder ==
  ASSUME BookIInv, RowIInv, OrderIInv, NEW d \in Districts, Begun(db, d),
         NEW o, NEW c, OrderedBy(db, d, o, c)
  PROVE  /\ LinesOf(db, d, o) # {} /\ OrdersOf(LinesOf(db, d, o)) = {o}
         /\ Cardinality(OrdersOf(LinesOf(db, d, o))) = 1
         /\ \A e : OrderedBy(db, d, o, e) => e = c
<1>1. PICK n \in DOMAIN db : In(n, "orders", d) /\ n[3] = o /\ db[n].c = c
  BY DEF OrderedBy
<1>2. Whole(db) /\ Dense(db, d)
  BY DenseMeans DEF OrderIInv, BookIInv
<1>3. \A e : OrderedBy(db, d, o, e) => e = c
  BY <1>1, <1>2 DEF Dense, In, OrderedBy
<1>4. \A l : l \in LinesOf(db, d, o) <=> l \in DOMAIN db /\ In(l, "order_line", d) /\ l[3] = o
  BY DEF LinesOf, OfOrder, In
<1>5. db[n].cnt # 0
  BY <1>1 DEF Begun
<1>6. PICK l : l \in LinesOf(db, d, o)
  <2>1. db[n].cnt \in Nat
    BY <1>1 DEF RowIInv, Good, Typed, In
  <2>2. 1 \in 1..db[n].cnt
    BY <1>5, <2>1
  <2>3. PICK l \in DOMAIN db : l[1] = "order_line" /\ l[2] = d /\ l[3] = o
    BY <1>1, <1>2, <2>2 DEF Whole, In
  <2>4. QED
    BY <1>4, <2>3 DEF In
<1>7. OrdersOf(LinesOf(db, d, o)) = {o}
  BY <1>4, <1>6 DEF OrdersOf
<1>8. QED
  BY <1>3, <1>6, <1>7, FS_Singleton

\* The customer's row as the transaction sees it, when nothing is due.
LEMMA SeesCustomer ==
  ASSUME BookIInv, RowIInv, NEW w \in Workers, open[w],
         NEW d \in Districts, NEW c \in Customers, Credited(w, d, c), Due(w, d, c) = {},
         NEW k, k = CustomerKey(d, c), k \notin stale[w]
  PROVE  /\ view[w][k].balance + view[w][k].ytd = db[k].balance + db[k].ytd
         /\ view[w][k].deliveries = db[k].deliveries
<1>1. k \in DOMAIN view[w] /\ k \in DOMAIN db
      /\ db[k].balance \in Int /\ db[k].ytd \in Int /\ db[k].deliveries \in Int
  BY CustomerRow DEF RowIInv, RowShape
<1>2. CASE k \in wrote[w]
  BY <1>1, <1>2, NoLines DEF Credited
<1>3. CASE k \notin wrote[w]
  <2>1. view[w][k] = db[k]
    BY <1>1, <1>3 DEF BookIInv, BookShape, IsSnapshot
  <2>2. QED
    BY <2>1
<1>4. QED
  BY <1>2, <1>3

LEMMA CreditsCustomerCredit ==
  ASSUME BookIInv, RowIInv, OrderIInv, ServeIInv, CreditIInv, NEW w \in Workers,
         CreditsCustomer(w)
  PROVE  CreditIInv'
<1>d. PICK d : d = my[w].d
  OBVIOUS
<1>o. PICK o : o = my[w].o
  OBVIOUS
<1>c. PICK c : c = my[w].c
  OBVIOUS
<1> DEFINE k == CustomerKey(d, c)
           row == [Sees(w)[k] EXCEPT !.balance = @ + my[w].seen, !.deliveries = @ + 1]
           rows == With(Sees(w), [x \in {k} |-> row])
           place == IF my[w].d < NumDistricts THEN "find_oldest" ELSE "commit"
<1>1. at[w] = "credit_customer" /\ Does(w, {k}, rows, place)
  BY <1>d, <1>c, CreditsCustomerDoes
<1>2. /\ at[w] \in DeliveryPlaces /\ d \in Districts /\ c \in Customers /\ my[w].seen \in Nat
      /\ Good(Sees(w)) /\ Works(w)
  <2>1. at[w] \in DeliveryPlaces /\ Works(w)
    BY <1>1 DEF DeliveryPlaces, Works
  <2>2. QED
    BY <1>1, <1>d, <1>c, <2>1, DeliveryKnows DEF SeenFits
<1>3. place \in {"find_oldest", "commit"} /\ at'[w] = place
  BY <1>1 DEF Does
<1>4. Same({k}, Sees(w), rows) /\ rows[k] = row
  <2>1. Same({k}, Sees(w), rows)
    BY SamePut
  <2>2. rows[k] = row
    BY DEF With
  <2>3. QED
    BY <2>1, <2>2
<1>5. /\ row.balance + row.ytd = Sees(w)[k].balance + Sees(w)[k].ytd + my[w].seen
      /\ row.deliveries = Sees(w)[k].deliveries + 1
  <2>1. Sees(w)[k] \in [balance : Int, ytd : Nat, payments : Nat, deliveries : Nat]
    BY <1>2, CustomerRow
  <2>2. QED
    BY <1>2, <2>1
<1> HIDE DEF k, row, rows, place
<1>6. ASSUME ~torn, open[w], Serves(w), Credits(w)
      PROVE  Credits(w)'
  <2> DEFINE L == LinesOf(db, d, o)
  <2>1. /\ Sees(w) = view[w] /\ db' = db /\ wrote'[w] = wrote[w] \cup {k} /\ view'[w] = rows
        /\ k \notin stale[w]
    BY <1>1, <1>6, WriteSplits DEF Sees, Does
  <2>2. \E t \in Takes(w, d) : t[3] = o
    BY <1>1, <1>6, <1>d, <1>o DEF Credits, Knows
  <2>3. OrderedBy(db, d, o, c) /\ my[w].seen = SumOfAmounts(db, L)
    BY <1>1, <1>6, <1>d, <1>o, <1>c DEF Credits, Knows
  <2>4. Begun(db, d)
    BY <1>2, <1>6 DEF CreditIInv
  <2>5. \A l : l \in wrote[w] /\ l \in DOMAIN db /\ In(l, "order_line", d) <=> l \in L
    BY <1>1, <1>6, <1>d, <2>2, TakenSeen
  <2>6. /\ Cardinality(OrdersOf(L)) = 1
        /\ \A e : OrderedBy(db, d, o, e) => e = c
    BY <1>2, <2>3, <2>4, OneOrder
  <2>7. \A l \in L : l[3] = o
    BY DEF LinesOf, OfOrder
  <2> HIDE DEF L
  <2>8. k[1] = "customer" /\ k[2] = d /\ k[3] = c
    BY KeyColumns DEF k
  <2>9. \A e : /\ Due(w, d, e) = {}
                /\ Due(w, d, e)' = IF e = c THEN L ELSE {}
    <3>1. SUFFICES ASSUME NEW e
                   PROVE  Due(w, d, e) = {} /\ Due(w, d, e)' = IF e = c THEN L ELSE {}
      OBVIOUS
    <3>2. Due(w, d, e) = {}
      BY <1>1, <1>d DEF Due, Busy, Crediting
    <3>3. Due(w, d, e)' = Marks(wrote'[w], db, d, e)
      BY <1>3, <2>1 DEF Due, Busy, Crediting
    <3>4. \A l : l \in Marks(wrote'[w], db, d, e) <=> l \in L /\ OrderedBy(db, d, o, e)
      BY <2>1, <2>5, <2>7, <2>8 DEF Marks, In
    <3>5. Marks(wrote'[w], db, d, e) = IF e = c THEN L ELSE {}
      BY <2>3, <2>6, <3>4
    <3>6. QED
      BY <3>2, <3>3, <3>5
  <2>10. ASSUME NEW f \in Districts, NEW e \in Customers, f # d \/ e # c
         PROVE  Credited(w, f, e)'
    <3>1. Due(w, f, e)' = Due(w, f, e)
      <4>1. CASE f = d
        BY <2>9, <2>10, <4>1
      <4>2. CASE f # d
        <5>1. ~Busy(w, f, Crediting) /\ ~Busy(w, f, Crediting)'
          BY <1>3, <1>d, <4>2 DEF Busy, Crediting
        <5>2. \A x \in {k} : In(x, "order_line", f) => x \notin DOMAIN db
          BY <2>8 DEF In
        <5>3. QED
          BY <2>1, <5>1, <5>2, DueSame
      <4>3. QED
        BY <4>1, <4>2
    <3>2. CustomerKey(f, e) \notin {k}
      BY <2>8, <2>10, KeyColumns
    <3>3. Credited(w, f, e) /\ Same({k}, view[w], rows)
      BY <1>4, <1>6, <2>1 DEF Credits
    <3>4. QED
      BY <1>1, <1>6, <3>1, <3>2, <3>3, CreditWrite
  <2>11. Credited(w, d, c)'
    <3>1. Credited(w, d, c) /\ Due(w, d, c) = {}
      BY <1>2, <1>6, <2>9 DEF Credits
    <3>2. /\ view[w][k].balance + view[w][k].ytd = db[k].balance + db[k].ytd
          /\ view[w][k].deliveries = db[k].deliveries
      BY <1>2, <1>6, <2>1, <3>1, SeesCustomer DEF k
    <3>3. Plus(row, db[k], db, L)
      BY <1>5, <2>1, <2>3, <2>6, <3>2 DEF Plus
    <3>4. k \in wrote'[w] /\ view'[w][k] = row /\ Due(w, d, c)' = L
      BY <1>4, <2>1, <2>9
    <3>5. QED
      BY <2>1, <3>3, <3>4 DEF Credited, k
  <2>12. Knows(w)'
    BY <1>3 DEF Knows
  <2>13. QED
    BY <2>10, <2>11, <2>12 DEF Credits
<1>7. QED
  BY <1>1, <1>2, <1>6, CreditDelivery

---------------------------------------------------------------------------
(* The beginning and the end of an attempt, and the credit. *)

LEMMA BeginsCredit ==
  ASSUME BookIInv, CreditIInv, NEW w \in Workers,
         BeginsNewOrder(w) \/ BeginsPayment(w) \/ BeginsDelivery(w)
  PROVE  CreditIInv'
<1>1. ASSUME NEW draw, NEW place \in {"find_oldest", "read_district", "update_warehouse"},
             Starts(w, draw, place)
      PROVE  CreditIInv'
  <2>1. /\ Steps(w) /\ at'[w] = place /\ torn' = torn /\ wrote'[w] = {} /\ db' = db
        /\ \A v \in Workers \ {w} : view'[v] = view[v] /\ wrote'[v] = wrote[v]
    BY <1>1, BeginsDoes
  <2>2. Knows(w)'
    BY <2>1 DEF Knows
  <2>3. \A d \in Districts, c \in Customers : Credited(w, d, c)'
    BY <2>1 DEF Credited, Due, Marks
  <2>4. Credits(w)'
    BY <2>2, <2>3 DEF Credits
  <2>5. QED
    BY <2>1, <2>4, CreditMoves
<1>2. QED
  BY <1>1 DEF BeginsNewOrder, BeginsPayment, BeginsDelivery

\* What a commit does to orders, in short.
Brings(old, new) ==
  /\ Kept(old, new)
  /\ \A k \in DOMAIN new : k[1] \in OrderTables /\ k \notin DOMAIN old =>
       k[3] = NextId(old, k[2])

\* The customer of an order stays.
LEMMA KeptOrdered ==
  ASSUME BookIInv, OrderIInv, NEW M, Brings(db, M), NEW d \in Districts, NEW c,
         NEW l \in DOMAIN db, l[1] \in OrderTables, l[2] = d
  PROVE  OrderedBy(M, d, l[3], c) <=> OrderedBy(db, d, l[3], c)
<1>1. l[3] # NextId(db, d)
  BY OldIds
<1>2. ASSUME NEW k \in DOMAIN db, In(k, "orders", d)
      PROVE  k \in DOMAIN M /\ M[k].c = db[k].c
  BY <1>2 DEF Brings, Kept, SameOrder, In
<1>3. ASSUME NEW k \in DOMAIN M, In(k, "orders", d), k[3] = l[3]
      PROVE  k \in DOMAIN db
  BY <1>1, <1>3 DEF Brings, In, OrderTables
<1>4. QED
  BY <1>2, <1>3 DEF OrderedBy

LEMMA MergedBegun ==
  ASSUME BookIInv, RowIInv, OrderIInv, NEW w \in Workers, open[w], at[w] = "commit",
         NEW d \in Districts, Begun(db, d), NEW M, M = Merged(w)
  PROVE  Begun(M, d)
<1>1. /\ Kept(db, M) /\ NextId(M, d) >= NextId(db, d)
      /\ \A k \in DOMAIN M : k[1] \in OrderTables /\ k[2] = d /\ k \notin DOMAIN db =>
           my[w].lines # <<>> /\ k[3] = NextId(db, d) /\ M[k] = Inserted(my[w], k)
  BY CommitBrings
<1>2. NextId(db, d) \in Nat /\ NextId(db, d) > Len(Loaded)
  BY HasDistrict DEF BookIInv, Begun
<1>3. NextId(M, d) \in Nat
  <2>1. Good(M)
    BY GoodMerged DEF RowIInv, RowShape
  <2>2. DistrictKey(d) \in DOMAIN M /\ DistrictKey(d)[1] = "district"
    BY <2>1, FixedKeys, KeyShape DEF Good
  <2>3. QED
    BY <2>1, <2>2 DEF NextId, Good, Typed
<1>4. Len(Loaded) \in Nat /\ Undelivered[d] \in 0..Len(Loaded)
  BY LoadedAssumption, UndeliveredAssumption, LenProperties
<1>5. NextId(M, d) > Len(Loaded)
  BY <1>1, <1>2, <1>3, <1>4
<1>6. NextId(db, d) >= Oldest(d)
  BY <1>2, <1>4 DEF Oldest
<1>7. ASSUME NEW k \in DOMAIN M, In(k, "new_orders", d)
      PROVE  k[3] >= Oldest(d)
  <2>1. CASE k \in DOMAIN db
    BY <1>7, <2>1 DEF Begun
  <2>2. CASE k \notin DOMAIN db
    BY <1>1, <1>6, <1>7, <2>2 DEF In, OrderTables
  <2>3. QED
    BY <2>1, <2>2
<1>8. ASSUME NEW k \in DOMAIN M, In(k, "orders", d)
      PROVE  M[k].cnt # 0
  <2>1. CASE k \in DOMAIN db
    <3>1. M[k].cnt = db[k].cnt
      BY <1>1, <1>8, <2>1 DEF Kept, SameOrder, In
    <3>2. QED
      BY <1>8, <2>1, <3>1 DEF Begun
  <2>2. CASE k \notin DOMAIN db
    <3>1. my[w].lines # <<>> /\ M[k] = Inserted(my[w], k)
      BY <1>1, <1>8, <2>2 DEF In, OrderTables
    <3>2. my[w].lines \in Lines
      BY <3>1, BasketsAssumption DEF RowIInv, RowShape, DrawTyped, IsNewOrder
    <3>3. M[k].cnt = Len(my[w].lines)
      BY <1>8, <3>1 DEF In, Inserted, Order
    <3>4. QED
      BY <3>2, <3>3, BasketShape
  <2>3. QED
    BY <2>1, <2>2
<1>9. QED
  BY <1>5, <1>7, <1>8 DEF Begun

\* The sums over lines of different orders.
LEMMA LinesAdd ==
  ASSUME NEW rows, NEW G, IsFiniteSet(G), NEW L, IsFiniteSet(L),
         \A l \in G \cup L : rows[l].amount \in Nat,
         \A g \in G, l \in L : g[3] # l[3]
  PROVE  /\ SumOfAmounts(rows, G \cup L) = SumOfAmounts(rows, G) + SumOfAmounts(rows, L)
         /\ Cardinality(OrdersOf(G \cup L)) = Cardinality(OrdersOf(G)) + Cardinality(OrdersOf(L))
         /\ SumOfAmounts(rows, G) \in Nat /\ SumOfAmounts(rows, L) \in Nat
         /\ Cardinality(OrdersOf(G)) \in Nat /\ Cardinality(OrdersOf(L)) \in Nat
<1> DEFINE T == G \cup L
           f == [l \in T |-> rows[l].amount]
<1>1. G \cap L = {} /\ IsFiniteSet(T)
  BY FS_Union
<1>2. SumOfAmounts(rows, T) = SumOver(f, T)
  BY <1>1, AmountsAre
<1>3. ASSUME NEW S \in SUBSET T, IsFiniteSet(S)
      PROVE  SumOfAmounts(rows, S) = SumOver(f, S) /\ SumOver(f, S) \in Nat
  <2> DEFINE g == [l \in S |-> rows[l].amount]
  <2>1. SumOfAmounts(rows, S) = SumOver(g, S)
    BY <1>3, AmountsAre
  <2>2. \A l \in S : g[l] = f[l] /\ f[l] \in Nat
    OBVIOUS
  <2> HIDE DEF g, f
  <2>3. QED
    BY <1>3, <2>1, <2>2, SumSame, SumOfNats
<1>4. \A l \in T : f[l] \in Int
  OBVIOUS
<1> HIDE DEF f
<1>5. SumOver(f, T) = SumOver(f, G) + SumOver(f, L)
  BY <1>1, <1>4, SumUnion
<1>6. IsFiniteSet(OrdersOf(G)) /\ IsFiniteSet(OrdersOf(L))
  <2>1. ASSUME NEW S, IsFiniteSet(S)
        PROVE  IsFiniteSet(OrdersOf(S))
    <3> DEFINE o == [l \in S |-> l[3]]
    <3>1. {o[l] : l \in S} = OrdersOf(S)
      BY DEF OrdersOf
    <3> HIDE DEF o
    <3>2. IsFiniteSet({o[l] : l \in S})
      BY <2>1, ImageFinite
    <3>3. QED
      BY <3>1, <3>2
  <2>2. QED
    BY <2>1
<1>7. OrdersOf(T) = OrdersOf(G) \cup OrdersOf(L) /\ OrdersOf(G) \cap OrdersOf(L) = {}
  BY DEF OrdersOf
<1>8. Cardinality(OrdersOf(T)) = Cardinality(OrdersOf(G)) + Cardinality(OrdersOf(L))
  BY <1>6, <1>7, DisjointCardinality
<1>9. Cardinality(OrdersOf(G)) \in Nat /\ Cardinality(OrdersOf(L)) \in Nat
  BY <1>6, FS_CardinalityType
<1>10. QED
  BY <1>2, <1>3, <1>5, <1>8, <1>9

\* A commit delivers the lines that its transaction has marked, all of orders
\* that were waiting.
LEMMA MergedGiven ==
  ASSUME BookIInv, RowIInv, OrderIInv, NEW w \in Workers, open[w], at[w] = "commit",
         NEW d \in Districts, Served(db, d), Took(w, d), Begun(db, d), NEW c,
         NEW M, M = Merged(w)
  PROVE  /\ Given(M, d, c) = Given(db, d, c) \cup Marks(wrote[w], db, d, c)
         /\ \A g \in Given(db, d, c), l \in Marks(wrote[w], db, d, c) : g[3] # l[3]
<1>1. /\ \A k : k \in DOMAIN M <=> IF k \in wrote[w] THEN k \in DOMAIN view[w] ELSE k \in DOMAIN db
      /\ \A k \in DOMAIN M : M[k] = IF k \in wrote[w] THEN view[w][k] ELSE db[k]
  BY MergedRows
<1>2. WorkShape(w) /\ Works(w)
  BY DEF OrderIInv, Works
<1>3. Brings(db, M)
  BY CommitBrings DEF Brings
<1>4. ASSUME NEW l \in DOMAIN db, l \in wrote[w], In(l, "order_line", d)
      PROVE  l \in DOMAIN M /\ M[l].dated /\ \E t \in Takes(w, d) : t[3] = l[3]
  <2>1. l \in DOMAIN view[w]
    BY <1>2, <1>4 DEF WorkShape, In
  <2>2. view[w][l].dated /\ \E t \in Takes(w, d) : t[3] = l[3]
    BY <1>4, <2>1 DEF Took
  <2>3. l \in DOMAIN M /\ M[l] = view[w][l]
    BY <1>1, <1>4, <2>1
  <2>4. QED
    BY <2>2, <2>3
<1>5. \A t \in Takes(w, d) : t[3] >= Oldest(d) /\ Waits(db, d, t[3])
  <2>1. \A t \in Takes(w, d) : t \in DOMAIN db /\ In(t, "new_orders", d)
    BY <1>2, TakenOrder
  <2>2. QED
    BY <2>1 DEF Begun, Waits
<1>6. ASSUME NEW l \in DOMAIN M, In(l, "order_line", d), M[l].dated
      PROVE  l \in DOMAIN db
  <2>1. SUFFICES ASSUME l \notin DOMAIN db PROVE FALSE
    OBVIOUS
  <2>2. M[l] = Inserted(my[w], l)
    BY <1>6, <2>1, CommitBrings DEF In, OrderTables
  <2>3. M[l].dated = FALSE
    BY <1>6, <2>2 DEF In, Inserted, Line
  <2>4. QED
    BY <1>6, <2>3
<1>7. ASSUME NEW l \in DOMAIN db, In(l, "order_line", d)
      PROVE  l \in DOMAIN M /\ (OrderedBy(M, d, l[3], c) <=> OrderedBy(db, d, l[3], c))
  <2>1. l[1] \in OrderTables /\ l[2] = d
    BY <1>7 DEF In, OrderTables
  <2>2. l \in DOMAIN M
    BY <1>3, <1>7 DEF Brings, Kept, In
  <2>3. QED
    BY <1>3, <2>1, <2>2, KeptOrdered
<1>8. ASSUME NEW l \in Given(M, d, c)
      PROVE  l \in Given(db, d, c) \cup Marks(wrote[w], db, d, c)
  <2>1. /\ l \in DOMAIN M /\ In(l, "order_line", d) /\ l[3] >= Oldest(d) /\ M[l].dated
        /\ OrderedBy(M, d, l[3], c)
    BY <1>8 DEF Given
  <2>2. l \in DOMAIN db /\ OrderedBy(db, d, l[3], c)
    BY <1>6, <1>7, <2>1
  <2>3. CASE l \in wrote[w]
    BY <2>1, <2>2, <2>3 DEF Marks
  <2>4. CASE l \notin wrote[w]
    <3>1. db[l].dated
      BY <1>1, <2>1, <2>4
    <3>2. QED
      BY <2>1, <2>2, <3>1 DEF Given
  <2>5. QED
    BY <2>3, <2>4
<1>9. ASSUME NEW l \in Given(db, d, c)
      PROVE  l \in Given(M, d, c)
  <2>1. /\ l \in DOMAIN db /\ In(l, "order_line", d) /\ l[3] >= Oldest(d) /\ db[l].dated
        /\ OrderedBy(db, d, l[3], c)
    BY <1>9 DEF Given
  <2>2. l \in DOMAIN M /\ OrderedBy(M, d, l[3], c)
    BY <1>7, <2>1
  <2>3. M[l].dated
    BY <1>1, <1>4, <2>1, <2>2
  <2>4. QED
    BY <2>1, <2>2, <2>3 DEF Given
<1>10. ASSUME NEW l \in Marks(wrote[w], db, d, c)
       PROVE  /\ l \in Given(M, d, c)
              /\ \A g \in Given(db, d, c) : g[3] # l[3]
  <2>1. l \in DOMAIN db /\ l \in wrote[w] /\ In(l, "order_line", d) /\ OrderedBy(db, d, l[3], c)
    BY <1>10 DEF Marks
  <2>2. l \in DOMAIN M /\ M[l].dated /\ OrderedBy(M, d, l[3], c)
    BY <1>4, <1>7, <2>1
  <2>3. l[3] >= Oldest(d) /\ Waits(db, d, l[3])
    BY <1>4, <1>5, <2>1
  <2>4. \A g \in Given(db, d, c) : ~Waits(db, d, g[3])
    BY DEF Given, Served
  <2>5. QED
    BY <2>1, <2>2, <2>3, <2>4 DEF Given
<1>11. QED
  BY <1>8, <1>9, <1>10

\* So it pays what it owes for them.
LEMMA MergedOwes ==
  ASSUME BookIInv, RowIInv, OrderIInv, NEW w \in Workers, open[w], at[w] = "commit",
         NEW d \in Districts, Served(db, d), Took(w, d), Begun(db, d),
         NEW c \in Customers, Owes(db, d, c), Credited(w, d, c), NEW M, M = Merged(w)
  PROVE  Owes(M, d, c)
<1>k. PICK k : k = CustomerKey(d, c)
  OBVIOUS
<1> DEFINE G == Given(db, d, c)
           L == Marks(wrote[w], db, d, c)
<1>1. /\ \A x : x \in DOMAIN M <=> IF x \in wrote[w] THEN x \in DOMAIN view[w] ELSE x \in DOMAIN db
      /\ \A x \in DOMAIN M : M[x] = IF x \in wrote[w] THEN view[w][x] ELSE db[x]
  BY MergedRows
<1>2. Good(db) /\ Good(view[w]) /\ Kept(db, M)
  BY CommitBrings DEF RowIInv, RowShape
<1>3. Given(M, d, c) = G \cup L /\ \A g \in G, l \in L : g[3] # l[3]
  BY MergedGiven
<1>4. Due(w, d, c) = L
  BY DEF Due, Busy, Crediting
<1>5. \A l \in G \cup L : l \in DOMAIN db /\ l[1] = "order_line"
  BY DEF Given, Marks, In
<1>6. /\ k \notin wrote[w] => L = {}
      /\ k \in wrote[w] => Plus(view[w][k], db[k], db, L)
  BY <1>k, <1>4 DEF Credited
<1>7. Plus(db[k], NewCustomer, db, G)
  BY <1>k DEF Owes
<1>8. /\ k \in DOMAIN db /\ k \in DOMAIN view[w]
      /\ db[k].balance + db[k].ytd \in Int /\ db[k].deliveries \in Int
      /\ db[k].balance \in Int /\ db[k].ytd \in Int
  BY <1>k, <1>2, CustomerRow
<1> HIDE DEF G, L
<1>9. /\ IsFiniteSet(G) /\ IsFiniteSet(L) /\ \A l \in G \cup L : db[l].amount \in Nat
      /\ SumOfAmounts(M, G \cup L) = SumOfAmounts(db, G \cup L)
  <2> DEFINE T == G \cup L
  <2>1. \A l \in T : l \in DOMAIN db /\ l[1] = "order_line"
    BY <1>5
  <2> HIDE DEF T
  <2>2. /\ IsFiniteSet(T) /\ \A l \in T : db[l].amount \in Nat
        /\ SumOfAmounts(M, T) = SumOfAmounts(db, T)
    BY <1>2, <2>1, KeptAmounts
  <2>3. IsFiniteSet(G) /\ IsFiniteSet(L)
    BY <2>2, FS_Subset DEF T
  <2>4. QED
    BY <2>2, <2>3 DEF T
<1>10. /\ SumOfAmounts(db, G \cup L) = SumOfAmounts(db, G) + SumOfAmounts(db, L)
       /\ Cardinality(OrdersOf(G \cup L)) = Cardinality(OrdersOf(G)) + Cardinality(OrdersOf(L))
       /\ SumOfAmounts(db, G) \in Nat /\ SumOfAmounts(db, L) \in Nat
       /\ Cardinality(OrdersOf(G)) \in Nat /\ Cardinality(OrdersOf(L)) \in Nat
  BY <1>3, <1>9, LinesAdd
<1>11. /\ M[k].balance + M[k].ytd = db[k].balance + db[k].ytd + SumOfAmounts(db, L)
       /\ M[k].deliveries = db[k].deliveries + Cardinality(OrdersOf(L))
  <2>1. CASE k \in wrote[w]
    BY <1>1, <1>6, <1>8, <2>1 DEF Plus
  <2>2. CASE k \notin wrote[w]
    <3>1. M[k] = db[k] /\ L = {}
      BY <1>1, <1>6, <1>8, <2>2
    <3>2. Plus(M[k], db[k], db, {})
      BY <1>8, <3>1, NoLines
    <3>3. QED
      BY <3>1, <3>2 DEF Plus
  <2>3. QED
    BY <2>1, <2>2
<1>12. /\ db[k].balance + db[k].ytd
            = NewCustomer.balance + NewCustomer.ytd + SumOfAmounts(db, G)
       /\ db[k].deliveries = NewCustomer.deliveries + Cardinality(OrdersOf(G))
  BY <1>7 DEF Plus
<1>13. NewCustomer.balance + NewCustomer.ytd \in Int /\ NewCustomer.deliveries \in Int
  BY DEF NewCustomer
<1>14. /\ M[k].balance + M[k].ytd
            = NewCustomer.balance + NewCustomer.ytd + SumOfAmounts(M, G \cup L)
       /\ M[k].deliveries = NewCustomer.deliveries + Cardinality(OrdersOf(G \cup L))
  <2>1. ASSUME NEW a \in Int, NEW g \in Int, NEW l \in Int, NEW b, NEW e, b = a + g, e = b + l
        PROVE  e = a + (g + l)
    BY <2>1
  <2>2. M[k].balance + M[k].ytd
          = (NewCustomer.balance + NewCustomer.ytd) + (SumOfAmounts(db, G) + SumOfAmounts(db, L))
    BY <1>10, <1>11, <1>12, <1>13, <2>1
  <2>3. M[k].deliveries
          = NewCustomer.deliveries + (Cardinality(OrdersOf(G)) + Cardinality(OrdersOf(L)))
    BY <1>10, <1>11, <1>12, <1>13, <2>1
  <2>4. QED
    BY <1>9, <1>10, <2>2, <2>3
<1>15. QED
  BY <1>3, <1>14, <1>k DEF Owes, Plus

\* The lines of an order stay.
LEMMA KeptLines ==
  ASSUME BookIInv, RowIInv, OrderIInv, NEW M, Brings(db, M), NEW d \in Districts,
         NEW t \in DOMAIN db, t[1] \in OrderTables, t[2] = d, NEW o, o = t[3]
  PROVE  /\ LinesOf(M, d, o) = LinesOf(db, d, o)
         /\ SumOfAmounts(M, LinesOf(M, d, o)) = SumOfAmounts(db, LinesOf(db, d, o))
<1>1. o # NextId(db, d)
  BY OldIds
<1>2. Good(db) /\ Kept(db, M)
  BY DEF RowIInv, Brings
<1>3. ASSUME NEW l
      PROVE  l \in LinesOf(M, d, o) <=> l \in LinesOf(db, d, o)
  <2>1. CASE l \in DOMAIN db
    <3>1. l[1] = "order_line" => l \in DOMAIN M
      BY <1>2, <2>1 DEF Kept
    <3>2. QED
      BY <2>1, <3>1 DEF LinesOf, OfOrder, OfDistrict
  <2>2. CASE l \notin DOMAIN db
    <3>1. l \in DOMAIN M /\ l[1] = "order_line" /\ l[2] = d => l[3] # o
      BY <1>1, <2>2 DEF Brings, OrderTables
    <3>2. QED
      BY <2>2, <3>1 DEF LinesOf, OfOrder, OfDistrict
  <2>3. QED
    BY <2>1, <2>2
<1>4. LinesOf(M, d, o) = LinesOf(db, d, o)
  <2> DEFINE A == LinesOf(M, d, o)
             B == LinesOf(db, d, o)
  <2>1. \A l : l \in A <=> l \in B
    BY <1>3
  <2>2. A \in SUBSET DOMAIN M /\ B \in SUBSET DOMAIN db
    BY DEF LinesOf, OfOrder, OfDistrict
  <2> HIDE DEF A, B
  <2>3. A = B
    BY <2>1
  <2>4. QED
    BY <2>3 DEF A, B
<1>5. \A l \in LinesOf(db, d, o) : l \in DOMAIN db /\ l[1] = "order_line"
  BY DEF LinesOf, OfOrder, OfDistrict
<1> DEFINE L == LinesOf(db, d, o)
<1>6. \A l \in L : l \in DOMAIN db /\ l[1] = "order_line"
  BY <1>5
<1> HIDE DEF L
<1>7. SumOfAmounts(M, L) = SumOfAmounts(db, L)
  BY <1>2, <1>6, KeptAmounts
<1>8. QED
  BY <1>4, <1>7 DEF L

\* The commit of another transaction leaves what a transaction credits alone.
LEMMA KeptCredits ==
  ASSUME BookIInv, RowIInv, OrderIInv, NEW v \in Workers, open[v], Works(v), Credits(v),
         Brings(db, db'),
         \A k \in wrote[v] : /\ k \in DOMAIN db' <=> k \in DOMAIN db
                             /\ k \in DOMAIN db => db'[k] = db[k],
         at'[v] = at[v], my'[v] = my[v], view'[v] = view[v], wrote'[v] = wrote[v],
         at[v] \in DeliveryPlaces => my[v].d \in Districts
  PROVE  Credits(v)'
<1>M. PICK M : M = db'
  OBVIOUS
<1>1. Brings(db, M) /\ Good(db)
  BY <1>M DEF RowIInv
<1>2. ASSUME NEW d \in Districts
      PROVE  Takes(v, d)' = Takes(v, d)
  BY DEF Takes
<1>3. ASSUME NEW o, NEW c, at[v] \in {"read_order", "sum_amounts", "credit_customer"},
             \E t \in Takes(v, my[v].d) : t[3] = o
      PROVE  /\ OrderedBy(M, my[v].d, o, c) <=> OrderedBy(db, my[v].d, o, c)
             /\ LinesOf(M, my[v].d, o) = LinesOf(db, my[v].d, o)
             /\ SumOfAmounts(M, LinesOf(M, my[v].d, o)) = SumOfAmounts(db, LinesOf(db, my[v].d, o))
  <2>1. PICK d : d = my[v].d
    OBVIOUS
  <2>2. d \in Districts
    BY <1>3, <2>1 DEF DeliveryPlaces
  <2>3. PICK t \in Takes(v, d) : t[3] = o
    BY <1>3, <2>1
  <2>4. t \in DOMAIN db /\ t[1] \in OrderTables /\ t[2] = d
    <3>1. t \in DOMAIN db /\ In(t, "new_orders", d)
      BY <2>2, TakenOrder
    <3>2. QED
      BY <3>1 DEF In, OrderTables
  <2>5. OrderedBy(M, d, t[3], c) <=> OrderedBy(db, d, t[3], c)
    BY <1>1, <2>2, <2>4, KeptOrdered
  <2>6. /\ LinesOf(M, d, o) = LinesOf(db, d, o)
        /\ SumOfAmounts(M, LinesOf(M, d, o)) = SumOfAmounts(db, LinesOf(db, d, o))
    BY <1>1, <2>2, <2>3, <2>4, KeptLines
  <2>7. QED
    BY <2>1, <2>3, <2>5, <2>6
<1>4. Knows(v)
  BY DEF Credits
<1>5. Takes(v, my[v].d)' = Takes(v, my[v].d)
  BY DEF Takes
<1>6. Knows(v)'
  <2>1. at[v] \in {"read_order", "sum_amounts", "credit_customer"} =>
          \E t \in Takes(v, my[v].d) : t[3] = my[v].o
    BY <1>4 DEF Knows
  <2>2. at[v] \in {"sum_amounts", "credit_customer"} =>
          OrderedBy(M, my[v].d, my[v].o, my[v].c)
    BY <1>3, <1>4, <2>1 DEF Knows
  <2>3. at[v] = "credit_customer" =>
          my[v].seen = SumOfAmounts(M, LinesOf(M, my[v].d, my[v].o))
    BY <1>3, <1>4, <2>1 DEF Knows
  <2>4. /\ at'[v] \in {"read_order", "sum_amounts", "credit_customer"} =>
             \E t \in Takes(v, my[v].d)' : t[3] = my'[v].o
        /\ at'[v] \in {"sum_amounts", "credit_customer"} =>
             OrderedBy(db', my'[v].d, my'[v].o, my'[v].c)
        /\ at'[v] = "credit_customer" =>
             my'[v].seen = SumOfAmounts(db', LinesOf(db', my'[v].d, my'[v].o))
    BY <1>5, <1>M, <2>1, <2>2, <2>3
  <2>5. QED
    BY <2>4 DEF Knows
<1>7. ASSUME NEW d \in Districts, NEW c \in Customers
      PROVE  Credited(v, d, c)'
  <2>k. PICK k : k = CustomerKey(d, c)
    OBVIOUS
  <2>1. Marks(wrote[v], M, d, c) = Marks(wrote[v], db, d, c)
    <3>1. ASSUME NEW l \in wrote[v], l \in DOMAIN db, In(l, "order_line", d)
          PROVE  OrderedBy(M, d, l[3], c) <=> OrderedBy(db, d, l[3], c)
      <4>1. l[1] \in OrderTables /\ l[2] = d
        BY <3>1 DEF In, OrderTables
      <4>2. QED
        BY <1>1, <3>1, <4>1, KeptOrdered
    <3>2. \A l \in wrote[v] : l \in DOMAIN M <=> l \in DOMAIN db
      BY <1>M
    <3>3. QED
      BY <3>1, <3>2 DEF Marks
  <2>2. Due(v, d, c)' = Due(v, d, c)
    <3>1. Busy(v, d, Crediting)' <=> Busy(v, d, Crediting)
      BY DEF Busy
    <3>2. Marks(wrote'[v], db', d, c) = Marks(wrote[v], db, d, c)
      BY <1>M, <2>1
    <3>3. QED
      BY <3>1, <3>2 DEF Due
  <2> DEFINE L == Due(v, d, c)
  <2>3. \A l \in L : l \in DOMAIN db /\ l[1] = "order_line"
    BY DEF Due, Marks, In
  <2>4. /\ k \notin wrote[v] => L = {}
        /\ k \in wrote[v] => Plus(view[v][k], db[k], db, L)
    BY <2>k DEF Credits, Credited
  <2> HIDE DEF L
  <2>5. SumOfAmounts(M, L) = SumOfAmounts(db, L)
    BY <1>1, <2>3, KeptAmounts DEF Brings
  <2>6. k \in DOMAIN db
    BY <1>1, <2>k, CustomerRow
  <2>7. k \in wrote[v] => Plus(view[v][k], M[k], M, L)
    <3>1. k \in wrote[v] => M[k] = db[k]
      BY <1>M, <2>6
    <3>2. QED
      BY <2>4, <2>5, <3>1 DEF Plus
  <2>8. /\ k \notin wrote'[v] => Due(v, d, c)' = {}
        /\ k \in wrote'[v] => Plus(view'[v][k], db'[k], db', Due(v, d, c)')
    BY <1>M, <2>2, <2>4, <2>7 DEF L
  <2>9. QED
    BY <2>8, <2>k DEF Credited
<1>8. QED
  BY <1>6, <1>7 DEF Credits

LEMMA CommitCredit ==
  ASSUME BookIInv, RowIInv, OrderIInv, ServeIInv, CreditIInv, NEW w \in Workers,
         CommitsWork(w), at[w] = "commit", Steps(w), torn' = torn, ~Works(w)'
  PROVE  CreditIInv'
<1> SUFFICES ASSUME ~torn
             PROVE  /\ \A d \in Districts : Begun(db', d)
                    /\ \A d \in Districts, c \in Customers : Owes(db', d, c)
                    /\ \A v \in Workers : Works(v)' => Credits(v)'
  BY DEF CreditIInv
<1>1. /\ open[w] /\ db' = Merged(w)
      /\ \A v \in Workers \ {w} :
           open'[v] = open[v] /\ view'[v] = view[v] /\ wrote'[v] = wrote[v]
  BY LeavesDoes
<1>2. /\ \A d \in Districts : Served(db, d)
      /\ \A v \in Workers : Works(v) => Serves(v)
  BY DEF ServeIInv
<1>3. /\ \A d \in Districts : Begun(db, d)
      /\ \A d \in Districts, c \in Customers : Owes(db, d, c)
      /\ \A v \in Workers : Works(v) => Credits(v)
  BY DEF CreditIInv
<1>4. Works(w)
  BY DEF Works
<1>5. \A d \in Districts : Begun(db', d)
  BY <1>1, <1>3, MergedBegun
<1>6. ASSUME NEW d \in Districts, NEW c \in Customers
      PROVE  Owes(db', d, c)
  <2>1. Served(db, d) /\ Took(w, d) /\ Begun(db, d) /\ Owes(db, d, c) /\ Credited(w, d, c)
    BY <1>2, <1>3, <1>4 DEF Serves, Credits
  <2>2. QED
    BY <1>1, <2>1, MergedOwes
<1>7. Brings(db, db')
  BY <1>1, CommitBrings DEF Brings
<1>8. Same(wrote[w], db, db')
  BY <1>1, MergedRows DEF Same
<1>9. ASSUME NEW v \in Workers, Works(v)'
      PROVE  Credits(v)'
  <2>1. v # w
    BY <1>9
  <2>2. /\ at'[v] = at[v] /\ my'[v] = my[v]
        /\ open'[v] = open[v] /\ view'[v] = view[v] /\ wrote'[v] = wrote[v]
    BY <1>1, <2>1 DEF Steps
  <2>3. Works(v) /\ open[v] /\ Credits(v)
    BY <1>2, <1>3, <1>9, <2>2 DEF Works, Serves
  <2>4. wrote[w] \cap wrote[v] = {}
    BY <1>1, <2>1, <2>3 DEF BookIInv, BookShape, IsSnapshot
  <2>5. \A k \in wrote[v] : /\ k \in DOMAIN db' <=> k \in DOMAIN db
                            /\ k \in DOMAIN db => db'[k] = db[k]
    BY <1>8, <2>4 DEF Same
  <2>6. at[v] \in DeliveryPlaces => my[v].d \in Districts
    BY DeliveryKnows
  <2>7. QED
    BY <1>7, <2>2, <2>3, <2>5, <2>6, KeptCredits
<1>10. QED
  BY <1>5, <1>6, <1>9

LEMMA DeliveryCredit ==
  ASSUME BookIInv, RowIInv, OrderIInv, ServeIInv, CreditIInv, NEW w \in Workers,
         \/ FindsOldest(w) \/ DeletesNewOrder(w) \/ UpdatesOrder(w) \/ UpdatesLines(w)
         \/ ReadsOrder(w) \/ SumsAmounts(w) \/ CreditsCustomer(w)
  PROVE  CreditIInv'
<1>1. CASE FindsOldest(w)
  <2>1. at[w] = "find_oldest"
        /\ \/ Does(w, {}, Sees(w), IF my[w].d < NumDistricts THEN "find_oldest" ELSE "commit")
           \/ Does(w, {}, Sees(w), "delete_new_order")
    BY <1>1, FindsOldestDoes
  <2>2. QED
    BY <2>1, FindsOldestCredit
<1>2. CASE DeletesNewOrder(w)
  BY <1>2, DeletesNewOrderCredit
<1>3. CASE UpdatesOrder(w) \/ UpdatesLines(w)
  BY <1>3, UpdatesCredit
<1>4. CASE ReadsOrder(w) \/ SumsAmounts(w)
  BY <1>4, ReadsCredit
<1>5. CASE CreditsCustomer(w)
  BY <1>5, CreditsCustomerCredit
<1>6. QED
  BY <1>1, <1>2, <1>3, <1>4, <1>5

LEMMA EndCredit ==
  ASSUME BookIInv, RowIInv, OrderIInv, ServeIInv, CreditIInv, NEW w \in Workers,
         SkipsDistrict(w) \/ Commits(w) \/ Refused(w) \/ RollsBack(w)
  PROVE  CreditIInv'
<1>1. ASSUME Reads
      PROVE  /\ db' = db
             /\ \A v \in Workers \ {w} : view'[v] = view[v] /\ wrote'[v] = wrote[v]
  BY <1>1 DEF Reads, serverVars
<1>2. ASSUME Ends(w)
      PROVE  /\ db' = db
             /\ \A v \in Workers \ {w} : view'[v] = view[v] /\ wrote'[v] = wrote[v]
  BY <1>2, LeavesDoes
<1>3. CASE SkipsDistrict(w)
  <2>1. at[w] = "find_oldest" /\ NextDistrict(w) /\ attempts' = attempts
    BY <1>3 DEF SkipsDistrict
  <2>2. my[w].d \in Districts
    BY <2>1, DeliveryKnows DEF DeliveryPlaces
  <2>3. /\ Steps(w)
        /\ at'[w] = IF my[w].d < NumDistricts THEN "find_oldest" ELSE "commit"
    BY <2>1, <2>2, MyShape, NextDistrictDoes
  <2>4. CASE Reads /\ torn' = torn
    <3>1. Does(w, {}, Sees(w), IF my[w].d < NumDistricts THEN "find_oldest" ELSE "commit")
      BY <2>1, <2>3, <2>4, ReadsAsWrites DEF Does
    <3>2. QED
      BY <2>1, <3>1, FindsOldestCredit
  <2>5. CASE torn' = TRUE
    <3>1. torn'
      BY <2>5
    <3>2. QED
      BY <3>1 DEF CreditIInv
  <2>6. QED
    BY <1>3, <2>4, <2>5 DEF SkipsDistrict
<1>4. CASE Commits(w)
  <2>1. /\ at[w] = "commit" /\ Idles(w) /\ torn' = torn
        /\ Reads \/ CommitsWork(w)
    BY <1>4 DEF Commits, At
  <2>2. Steps(w) /\ ~Works(w)'
    BY <2>1, MyShape, Idle DEF Works
  <2>3. CASE Reads
    BY <1>1, <2>1, <2>2, <2>3, CreditMoves
  <2>4. CASE CommitsWork(w)
    BY <2>1, <2>2, <2>4, CommitCredit
  <2>5. QED
    BY <2>1, <2>3, <2>4
<1>5. CASE Refused(w)
  <2>1. /\ at[w] # "idle" /\ KeepsAll /\ GoesTo(w, "rollback") /\ torn' = torn
        /\ Reads \/ Ends(w) \/ (at[w] = "commit" /\ CommitsWork(w))
    BY <1>5 DEF Refused
  <2>2. Steps(w) /\ ~Works(w)'
    BY <2>1, MyShape, Keeps DEF Works
  <2>3. CASE Reads \/ Ends(w)
    BY <1>1, <1>2, <2>1, <2>2, <2>3, CreditMoves
  <2>4. CASE at[w] = "commit" /\ CommitsWork(w)
    BY <2>1, <2>2, <2>4, CommitCredit
  <2>5. QED
    BY <2>1, <2>3, <2>4
<1>6. CASE RollsBack(w)
  <2>1. at[w] = "rollback" /\ Ends(w) /\ Idles(w) /\ torn' = torn
    BY <1>6 DEF RollsBack, At
  <2>2. Steps(w) /\ ~Works(w)'
    BY <2>1, MyShape, Idle DEF Works
  <2>3. QED
    BY <1>2, <2>1, <2>2, CreditMoves
<1>7. QED
  BY <1>3, <1>4, <1>5, <1>6

LEMMA CreditStep ==
  BookIInv /\ RowIInv /\ OrderIInv /\ ServeIInv /\ CreditIInv /\ [Next]_vars => CreditIInv'
<1> SUFFICES ASSUME BookIInv, RowIInv, OrderIInv, ServeIInv, CreditIInv, [Next]_vars
             PROVE  CreditIInv'
  OBVIOUS
<1>1. ASSUME NEW w \in Workers, Step(w)
      PROVE  CreditIInv'
  <2>1. CASE BeginsNewOrder(w) \/ BeginsPayment(w) \/ BeginsDelivery(w)
    BY <2>1, BeginsCredit
  <2>2. CASE \/ ReadsDistrict(w) \/ TakesId(w) \/ InsertsOrder(w) \/ InsertsNewOrder(w)
             \/ ReadsStock(w) \/ UpdatesStock(w) \/ InsertsLine(w)
    BY <2>2, NewOrderCredit
  <2>3. CASE \/ UpdatesWarehouse(w) \/ UpdatesDistrict(w) \/ ReadsCustomer(w)
             \/ UpdatesCustomer(w) \/ InsertsHistory(w)
    BY <2>3, PaymentCredit
  <2>4. CASE \/ FindsOldest(w) \/ DeletesNewOrder(w) \/ UpdatesOrder(w) \/ UpdatesLines(w)
             \/ ReadsOrder(w) \/ SumsAmounts(w) \/ CreditsCustomer(w)
    BY <2>4, DeliveryCredit
  <2>5. CASE SkipsDistrict(w) \/ Commits(w) \/ Refused(w) \/ RollsBack(w)
    BY <2>5, EndCredit
  <2>6. QED
    BY <1>1, <2>1, <2>2, <2>3, <2>4, <2>5 DEF Step
<1>2. CASE UNCHANGED vars
  <2>1. /\ db' = db /\ view' = view /\ wrote' = wrote
        /\ at' = at /\ my' = my /\ torn' = torn
    BY <1>2 DEF vars, serverVars
  <2>2. \A w \in Workers : Knows(w)' <=> Knows(w)
    BY <2>1 DEF Knows, Takes
  <2>3. \A w \in Workers, d \in Districts, c \in Customers : Due(w, d, c)' = Due(w, d, c)
    BY <2>1 DEF Due, Busy
  <2>4. \A w \in Workers, d \in Districts, c \in Customers : Credited(w, d, c)' <=> Credited(w, d, c)
    BY <2>1, <2>3 DEF Credited
  <2>5. \A w \in Workers : Credits(w)' <=> Credits(w)
    BY <2>2, <2>4 DEF Credits
  <2>6. QED
    BY <2>1, <2>5 DEF CreditIInv, Works
<1>3. CASE Stops
  BY <1>2, <1>3 DEF Stops
<1>4. QED
  BY <1>1, <1>2, <1>3 DEF Next

LEMMA CreditInit == Init => CreditIInv
<1> SUFFICES ASSUME Init
             PROVE  CreditIInv
  OBVIOUS
<1>1. db = InitRows /\ \A w \in Workers : at[w] = "idle"
  BY DEF Init
<1>2. DOMAIN InitRows = InitKeys /\ \A k \in InitKeys : InitRows[k] = InitRow(k)
  BY DEF InitRows
<1>3. ASSUME NEW d \in Districts
      PROVE  Begun(InitRows, d)
  <2>1. NextId(InitRows, d) > Len(Loaded)
    BY LoadedRows, LoadedShape
  <2>2. ASSUME NEW k \in DOMAIN InitRows, In(k, "new_orders", d)
        PROVE  k[3] >= Oldest(d)
    <3>1. k[3] \in Oldest(d)..Len(Loaded)
      BY <2>2, InitWaits DEF Waits
    <3>2. QED
      BY <3>1
  <2>3. ASSUME NEW k \in DOMAIN InitRows, In(k, "orders", d)
        PROVE  InitRows[k].cnt # 0
    <3>1. PICK o \in 1..Len(Loaded) : \E carrier :
                 InitRows[k] = Order(Loaded[o].c, Len(Loaded[o].lines), carrier)
      <4>1. PICK o \in 1..Len(Loaded) : k = OrderKey(d, o, 0)
        BY <2>3, LoadedRows
      <4>2. InitRows[k] = Order(Loaded[o].c, Len(Loaded[o].lines), IF o < Oldest(d) THEN 1 ELSE 0)
        BY <4>1, LoadedRows
      <4>3. QED
        BY <4>2
    <3>2. InitRows[k].cnt = Len(Loaded[o].lines)
      BY <3>1 DEF Order
    <3>3. Len(Loaded[o].lines) \in Nat \ {0}
      BY LoadedShape
    <3>4. QED
      BY <3>2, <3>3
  <2>4. QED
    BY <2>1, <2>2, <2>3 DEF Begun
<1>4. ASSUME NEW d \in Districts, NEW c \in Customers
      PROVE  Owes(InitRows, d, c)
  <2>1. Oldest(d) \in Int
    BY LoadedShape
  <2>2. ASSUME NEW l \in InitKeys, In(l, "order_line", d), l[3] >= Oldest(d)
        PROVE  ~InitRows[l].dated
    <3>1. PICK e \in Districts, o \in 1..Len(Loaded) :
                 \E n \in DOMAIN Loaded[o].lines : l = LineKey(e, o, n, 0)
      BY <2>2, InitColumns DEF In
    <3>2. l[1] = "order_line" /\ l[2] = d /\ l[3] = o
      BY <2>2, <3>1, KeyColumns DEF In
    <3>3. InitRow(l) = Line(Loaded[l[3]].lines[l[4]][1], Loaded[l[3]].lines[l[4]][2],
                            l[3] < Oldest(l[2]))
      BY <3>2 DEF InitRow
    <3>4. InitRows[l].dated = (l[3] < Oldest(d))
      BY <1>2, <3>2, <3>3 DEF Line
    <3>5. ~(l[3] < Oldest(d))
      BY <2>1, <2>2, <3>2
    <3>6. QED
      BY <3>4, <3>5
  <2>3. Given(InitRows, d, c) = {}
    BY <1>2, <2>2 DEF Given
  <2>4. PICK k : k = CustomerKey(d, c)
    OBVIOUS
  <2>5. k \in InitKeys /\ k[1] = "customer"
    <3>1. k \in InitKeys
      BY <2>4 DEF InitKeys
    <3>2. k[1] = "customer"
      BY <2>4, OtherKeys
    <3>3. QED
      BY <3>1, <3>2
  <2>6. InitRows[k] = NewCustomer
    BY <1>2, <2>5 DEF InitRow
  <2>7. Plus(NewCustomer, NewCustomer, InitRows, {})
    <3>1. NewCustomer.balance = 0 /\ NewCustomer.ytd = 0 /\ NewCustomer.deliveries = 0
      BY DEF NewCustomer
    <3>2. QED
      BY <3>1, NoLines
  <2>8. QED
    BY <2>3, <2>4, <2>6, <2>7 DEF Owes
<1>5. QED
  BY <1>1, <1>3, <1>4 DEF CreditIInv, Works

LEMMA CreditInvariant == Spec => [](BookIInv /\ RowIInv /\ OrderIInv /\ ServeIInv /\ CreditIInv)
<1>1. Init => BookIInv /\ RowIInv /\ OrderIInv /\ ServeIInv /\ CreditIInv
  BY BookInit, RowInit, OrderInit, ServeInit, CreditInit
<1>2. BookIInv /\ RowIInv /\ OrderIInv /\ ServeIInv /\ CreditIInv /\ [Next]_vars
        => (BookIInv /\ RowIInv /\ OrderIInv /\ ServeIInv /\ CreditIInv)'
  BY BookStep, RowStep, OrderStep, ServeStep, CreditStep
<1>3. QED
  BY <1>1, <1>2, PTL DEF Spec

LEMMA BalancesMean == RowIInv /\ CreditIInv /\ CustomersPaid => BalancesAddUp
<1> SUFFICES ASSUME RowIInv, CreditIInv, CustomersPaid, NEW d \in Districts, NEW c \in Customers
             PROVE  LET row == db[CustomerKey(d, c)]
                    IN  /\ row.ytd = SumOfAmounts(db, PaymentsOf(d, c))
                        /\ row.payments = Cardinality(PaymentsOf(d, c))
                        /\ ~torn =>
                             /\ row.balance = SumOfAmounts(db, DeliveredTo(d, c)) - row.ytd
                             /\ row.deliveries = Cardinality({l[3] : l \in DeliveredTo(d, c)})
  BY DEF BalancesAddUp
<1>1. PICK row : row = db[CustomerKey(d, c)]
  OBVIOUS
<1>2. row.ytd = SumOfAmounts(db, PaymentsOf(d, c)) /\ row.payments = Cardinality(PaymentsOf(d, c))
  BY <1>1 DEF CustomersPaid
<1>3. ASSUME ~torn
      PROVE  /\ row.balance = SumOfAmounts(db, DeliveredTo(d, c)) - row.ytd
             /\ row.deliveries = Cardinality({l[3] : l \in DeliveredTo(d, c)})
  <2>1. DeliveredTo(d, c) = Given(db, d, c)
    BY DEF DeliveredTo, Given, OrderedBy, OfDistrict, OfOrder, In
  <2>2. Plus(row, NewCustomer, db, Given(db, d, c))
    BY <1>1, <1>3 DEF CreditIInv, Owes
  <2> DEFINE G == Given(db, d, c)
  <2>3. G \subseteq DOMAIN db /\ \A l \in G : l \in DOMAIN db /\ l[1] = "order_line"
    BY DEF Given, In
  <2> HIDE DEF G
  <2>4. SumOfAmounts(db, G) \in Nat /\ Cardinality(OrdersOf(G)) \in Nat
    <3>1. Good(db) /\ Kept(db, db)
      BY DEF RowIInv, Kept, SameOrder, Good
    <3>2. IsFiniteSet(G) /\ \A l \in G : db[l].amount \in Nat
      BY <2>3, <3>1, KeptAmounts
    <3>3. IsFiniteSet({}) /\ \A l \in G \cup {} : db[l].amount \in Nat
      BY <3>2, FS_EmptySet
    <3>4. \A g \in G, l \in {} : g[3] # l[3]
      OBVIOUS
    <3>5. QED
      BY <3>2, <3>3, <3>4, LinesAdd
  <2>5. row.balance \in Int /\ row.ytd \in Int /\ row.deliveries \in Int
    BY <1>1, CustomerRow DEF RowIInv
  <2>6. NewCustomer.balance + NewCustomer.ytd = 0 /\ NewCustomer.deliveries = 0
    BY DEF NewCustomer
  <2>7. row.balance + row.ytd = 0 + SumOfAmounts(db, G) /\ row.deliveries = 0 + Cardinality(OrdersOf(G))
    BY <2>2, <2>6 DEF Plus, G
  <2>8. row.balance = SumOfAmounts(db, G) - row.ytd /\ row.deliveries = Cardinality(OrdersOf(G))
    BY <2>4, <2>5, <2>7
  <2>9. QED
    BY <2>1, <2>8 DEF G, OrdersOf
<1>4. QED
  BY <1>1, <1>2, <1>3

\* No update of a customer is lost, though Payment writes values computed from
\* what it read and Delivery adds to the same balance: sum and number of payments
\* are those of the rows of history and, while no Delivery goes on outside of its
\* transaction, the balance is what the customer's delivered lines cost, less what
\* it paid, and every order delivered to it is counted once.
THEOREM BalancesAddUpHolds == Spec => []BalancesAddUp
BY CreditInvariant, BalancesMean, CustomersPaidHolds, PTL

=============================================================================
