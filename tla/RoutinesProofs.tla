--------------------------- MODULE RoutinesProofs ---------------------------
(***************************************************************************)
(* What the pure functions compute, for every input: percentiles, the mix,  *)
(* the numbers of the files of --init, the customers of Payment, and what   *)
(* the server reads in a statement.                                         *)
(***************************************************************************)
EXTENDS Routines, Sums, SequenceTheorems

---------------------------------------------------------------------------
(* Percentiles. *)

\* The smaller of two numbers.
LEMMA MinOfTwo ==
  ASSUME NEW a \in Int, NEW b \in Int
  PROVE  Min({a, b}) = IF a <= b THEN a ELSE b
<1>1. \A x \in {a, b} : (\A y \in {a, b} : x <= y) <=> x = IF a <= b THEN a ELSE b
  OBVIOUS
<1>2. (CHOOSE x \in {a, b} : \A y \in {a, b} : x <= y) = IF a <= b THEN a ELSE b
  BY <1>1
<1>3. QED
  BY <1>2 DEF Min

LEMMA RankIs ==
  ASSUME NEW n \in Nat \ {0}, NEW pct \in {50, 99},
         input.n = n
  PROVE  /\ Rank(pct) \in 1..n
         /\ Rank(pct) = 1 + ((2 * pct * (n - 1) + 100) \div 200)
<1> DEFINE s == [k \in 1..n |-> k]
           idx == (2 * pct * (n - 1) + 100) \div 200
<1>1. s \in Seq(Nat) /\ Len(s) = n /\ s # <<>>
  OBVIOUS
<1>2. idx \in Nat /\ idx <= n - 1
  <2>1. CASE pct = 50
    BY <2>1
  <2>2. CASE pct = 99
    BY <2>2
  <2>3. QED
    BY <2>1, <2>2
<1>3. Rank(pct) = s[1 + Min({idx, n - 1})]
  BY <1>1 DEF Rank, percentile
<1> HIDE DEF idx
<1>4. Min({idx, n - 1}) = idx
  BY <1>2, MinOfTwo
<1>5. 1 + idx \in 1..n
  BY <1>2
<1>6. QED
  BY <1>3, <1>4, <1>5 DEF idx

LEMMA PercentilesMean == input \in Inputs => PercentilesAreClose
<1> SUFFICES ASSUME input \in Inputs, input.of = "samples"
             PROVE  /\ 2 * Rank(50) >= input.n /\ 2 * (input.n - Rank(50) + 1) >= input.n
                    /\ 100 * (Rank(99) + 1) >= 99 * input.n
                    /\ 100 * (Rank(99) - 1) <= 99 * input.n
                    /\ Rank(50) <= Rank(99)
  BY DEF PercentilesAreClose
<1>1. input \in SampleInputs
  BY DEF Inputs, MixInputs, SampleInputs, LoadInputs, PayInputs, SqlInputs, TableInputs
<1>2. PICK n \in Nat \ {0} : input.n = n
  BY <1>1, MaxSamplesAssumption DEF SampleInputs
<1>3. Rank(50) = 1 + ((2 * 50 * (n - 1) + 100) \div 200)
  BY <1>2, RankIs
<1>4. Rank(99) = 1 + ((2 * 99 * (n - 1) + 100) \div 200)
  BY <1>2, RankIs
<1>5. QED
  BY <1>2, <1>3, <1>4

---------------------------------------------------------------------------
(* The customer of a Payment. *)

\* Ids in a row are as many as the distance says.
LEMMA HowMany ==
  ASSUME NEW a \in Int, NEW b \in Int, a <= b + 1, NEW S, S = a..b
  PROVE  IsFiniteSet(S) /\ Cardinality(S) = b - a + 1
<1>1. Cardinality(a..b) = IF a > b THEN 0 ELSE b - a + 1
  BY FS_Interval
<1>2. QED
  BY <1>1, FS_Interval

LEMMA RemoteMeans == input \in Inputs => RemoteIsElsewhere
<1> DEFINE sf == input.sf
           w == input.w
           d == input.d
           payer(dice, position) == PaymentCustomer(sf, w, d, <<dice, 50>>, position, 3)
           remote(dice, position) == payer(dice, position)[1] # w
           Positions == 1..(sf - 1)
           other(position) == IF position < w THEN position ELSE position + 1
<1> SUFFICES ASSUME input \in Inputs, input.of = "pay", input.w <= input.sf
             PROVE  /\ \A dice \in {1, 85, 86, 100}, position \in Positions \cup {1} :
                         payer(dice, position) \in (1..sf) \X (1..DISTRICTS_PER_WAREHOUSE)
                    /\ \A position \in Positions \cup {1} :
                         Share(1..100, LAMBDA dice : remote(dice, position))
                           = IF sf > 1 THEN 15 ELSE 0
                    /\ {payer(100, position)[1] : position \in Positions} = (1..sf) \ {w}
  BY DEF RemoteIsElsewhere
<1>1. sf \in Nat \ {0} /\ w \in 1..sf /\ d \in {1, 10}
  <2>1. input \in PayInputs
    BY DEF Inputs, MixInputs, SampleInputs, LoadInputs, PayInputs, SqlInputs, TableInputs
  <2>2. sf \in Nat \ {0} /\ d \in {1, 10}
    BY <2>1, ScalesAssumption DEF PayInputs
  <2>3. w \in 1..Max(Scales) /\ w <= sf
    BY <2>1 DEF PayInputs
  <2> HIDE DEF sf, w, d
  <2>4. QED
    BY <2>2, <2>3
<1> HIDE DEF sf, w, d
<1>2. ASSUME NEW dice \in Int, NEW position \in Int
      PROVE  payer(dice, position) = IF sf = 1 \/ dice <= 85 THEN <<w, d>> ELSE <<other(position), 3>>
  BY <1>1 DEF PaymentCustomer
<1> HIDE DEF payer
<1>3. sf = 1 => Positions \cup {1} = {1}
  BY <1>1
<1>4. sf > 1 => Positions \cup {1} = Positions
  BY <1>1
<1>5. \A position \in Positions : other(position) \in (1..sf) \ {w}
  BY <1>1
<1>6. ASSUME NEW dice \in {1, 85, 86, 100}, NEW position \in Positions \cup {1}
      PROVE  payer(dice, position) \in (1..sf) \X (1..DISTRICTS_PER_WAREHOUSE)
  <2>1. CASE sf = 1 \/ dice <= 85
    BY <1>1, <1>2, <2>1 DEF DISTRICTS_PER_WAREHOUSE
  <2>2. CASE ~(sf = 1 \/ dice <= 85)
    <3>1. other(position) \in 1..sf
      BY <1>1, <1>4, <1>5, <2>2
    <3>2. payer(dice, position) = <<other(position), 3>>
      BY <1>1, <1>2, <2>2
    <3> HIDE DEF other
    <3>3. QED
      BY <3>1, <3>2 DEF DISTRICTS_PER_WAREHOUSE
  <2>3. QED
    BY <2>1, <2>2
<1>7. ASSUME NEW position \in Positions \cup {1}
      PROVE  Share(1..100, LAMBDA dice : remote(dice, position)) = IF sf > 1 THEN 15 ELSE 0
  <2> DEFINE S == {dice \in 1..100 : remote(dice, position)}
  <2>1. CASE sf > 1
    <3>1. other(position) # w
      BY <1>1, <1>4, <1>5, <2>1
    <3>2. \A dice \in 1..100 : remote(dice, position) <=> dice > 85
      BY <1>1, <1>2, <2>1, <3>1
    <3>3. S = 86..100
      BY <1>1, <3>2
    <3> HIDE DEF S
    <3>4. Cardinality(S) = 15
      <4>1. PICK low, high : low = 86 /\ high = 100
        OBVIOUS
      <4>2. low \in Int /\ high \in Int /\ low <= high + 1 /\ S = low..high
        BY <3>3, <4>1
      <4>3. Cardinality(S) = high - low + 1
        BY <4>2, HowMany
      <4>4. QED
        BY <4>1, <4>3
    <3>5. QED
      BY <2>1, <3>4 DEF Share, S
  <2>2. CASE ~(sf > 1)
    <3>1. \A dice \in 1..100 : ~remote(dice, position)
      BY <1>1, <1>2, <2>2
    <3>2. S = {}
      BY <1>1, <3>1
    <3> HIDE DEF S
    <3>3. Cardinality(S) = 0
      BY <3>2, FS_EmptySet
    <3>4. QED
      BY <2>2, <3>3 DEF Share, S
  <2>3. QED
    BY <2>1, <2>2
<1>8. {payer(100, position)[1] : position \in Positions} = (1..sf) \ {w}
  <2>1. \A position \in Positions : payer(100, position)[1] = other(position)
    BY <1>1, <1>2
  <2>2. ASSUME NEW v \in (1..sf) \ {w}
        PROVE  \E position \in Positions : other(position) = v
    <3>1. CASE v < w
      <4>1. v \in Positions /\ other(v) = v
        BY <1>1, <3>1
      <4>2. QED
        BY <4>1
    <3>2. CASE v > w
      <4>1. v - 1 \in Positions /\ other(v - 1) = v
        BY <1>1, <3>2
      <4>2. QED
        BY <4>1
    <3>3. QED
      BY <1>1, <3>1, <3>2
  <2> HIDE DEF other
  <2>3. QED
    BY <1>5, <2>1, <2>2
<1>9. QED
  BY <1>6, <1>7, <1>8 DEF payer

---------------------------------------------------------------------------
(* The files of --init. *)

\* As many rows as ids.
LEMMA RowsPerId ==
  ASSUME NEW n \in Nat, NEW f, \A i, j \in 1..n : f[i] = f[j] => i = j, f = [i \in 1..n |-> f[i]],
         NEW S, S = {f[i] : i \in 1..n}
  PROVE  IsFiniteSet(S) /\ Cardinality(S) = n
<1>1. f \in Bijection(1..n, S)
  BY DEF Bijection, Injection, Surjection, IsInjective
<1>2. ExistsBijection(1..n, S)
  BY <1>1 DEF ExistsBijection
<1>3. IsFiniteSet(S)
  BY <1>2, FS_NatBijection
<1>4. Cardinality(S) = n
  BY <1>2, FS_CountingElements
<1>5. QED
  BY <1>3, <1>4

LEMMA LoadMeans == input \in Inputs => LoadIsConsistent
<1> DEFINE carrier == input.carrier
           sf == input.sf
           orders == Orders(carrier)
           ids == {o.o_id : o \in orders}
           count(t, perDistrict) ==
             Expected(t, sf) = sf * DISTRICTS_PER_WAREHOUSE * perDistrict
<1> SUFFICES ASSUME input \in Inputs, input.of = "load"
             PROVE  /\ ids = 1..(District.d_next_o_id - 1)
                    /\ NewOrders = {o.o_id : o \in {x \in orders : x.o_carrier_id = 0}}
                    /\ Max(NewOrders) = District.d_next_o_id - 1
                    /\ \A o \in orders :
                         /\ {l.ol_number : l \in OrderLines(o.o_id)} = 1..o.o_ol_cnt
                         /\ \A l \in OrderLines(o.o_id) : l.dated <=> o.o_id \notin NewOrders
                    /\ District.d_ytd = CUSTOMERS_PER_DISTRICT * History.h_amount
                    /\ Warehouse.w_ytd = DISTRICTS_PER_WAREHOUSE * District.d_ytd
                    /\ count("orders", Cardinality(orders))
                    /\ count("new_orders", Cardinality(NewOrders))
                    /\ count("order_line", ORDERS_PER_DISTRICT * Cardinality(OrderLines(1)))
                    /\ count("history", CUSTOMERS_PER_DISTRICT)
                    /\ count("customer", CUSTOMERS_PER_DISTRICT)
  BY DEF LoadIsConsistent
<1>1. sf \in Nat /\ carrier \in {1, 10}
  <2>1. input \in LoadInputs
    BY DEF Inputs, MixInputs, SampleInputs, LoadInputs, PayInputs, SqlInputs, TableInputs
  <2>2. QED
    BY <2>1, ScalesAssumption DEF LoadInputs
<1> HIDE DEF sf, carrier
<1>2. District.d_next_o_id = 3001 /\ District.d_ytd = 30000 /\ ORDERS_PER_DISTRICT = 3000
      /\ Warehouse.w_ytd = 300000 /\ History.h_amount = 10
      /\ CUSTOMERS_PER_DISTRICT = 3000 /\ DISTRICTS_PER_WAREHOUSE = 10
  BY DEF District, Warehouse, History, ORDERS_PER_DISTRICT, CUSTOMERS_PER_DISTRICT,
         DISTRICTS_PER_WAREHOUSE
<1>3. NewOrders = 2101..3000
  BY DEF NewOrders, NEW_ORDERS_PER_DISTRICT
<1>4. ASSUME NEW o_id
      PROVE  /\ Order(o_id, carrier).o_id = o_id /\ Order(o_id, carrier).o_ol_cnt = 10
             /\ Order(o_id, carrier).o_carrier_id = IF o_id > 2100 THEN 0 ELSE carrier
  BY DEF Order
<1>5. orders = {Order(o_id, carrier) : o_id \in 1..3000}
  BY <1>2 DEF Orders
<1> HIDE DEF orders
<1>6. ids = 1..3000
  <2>1. \A o \in orders : o.o_id \in 1..3000
    <3>1. SUFFICES ASSUME NEW o \in orders PROVE o.o_id \in 1..3000
      OBVIOUS
    <3>2. PICK o_id \in 1..3000 : o = Order(o_id, carrier)
      BY <1>5
    <3>3. o.o_id = o_id
      BY <1>4, <3>2
    <3>4. QED
      BY <3>2, <3>3
  <2>2. ASSUME NEW o_id \in 1..3000 PROVE \E o \in orders : o.o_id = o_id
    <3>1. Order(o_id, carrier) \in orders
      BY <1>5
    <3>2. Order(o_id, carrier).o_id = o_id
      BY <1>4
    <3>3. QED
      BY <3>1, <3>2
  <2> DEFINE N == 1..3000
  <2> HIDE DEF N
  <2>3. (\A o \in orders : o.o_id \in N) /\ \A o_id \in N : \E o \in orders : o.o_id = o_id
    BY <2>1, <2>2 DEF N
  <2>4. ids = N
    BY <2>3
  <2> HIDE DEF ids
  <2>5. QED
    BY <2>4 DEF N
<1> HIDE DEF ids
<1>7. NewOrders = {o.o_id : o \in {x \in orders : x.o_carrier_id = 0}}
  <2> DEFINE waiting == {x \in orders : x.o_carrier_id = 0}
  <2>1. \A o_id \in 1..3000 : o_id > 2100 <=> o_id \in NewOrders
    BY <1>3
  <2>2. \A o_id \in NewOrders : o_id \in 1..3000
    BY <1>3
  <2>3. ASSUME NEW o \in waiting PROVE o.o_id \in NewOrders
    <3>1. o \in orders /\ o.o_carrier_id = 0
      OBVIOUS
    <3>2. PICK o_id \in 1..3000 : o = Order(o_id, carrier)
      BY <1>5, <3>1
    <3>3. o.o_id = o_id /\ o.o_carrier_id = IF o_id > 2100 THEN 0 ELSE carrier
      BY <1>4, <3>2
    <3>4. o_id > 2100
      BY <1>1, <3>1, <3>3
    <3>5. QED
      BY <2>1, <3>3, <3>4
  <2>4. ASSUME NEW o_id \in NewOrders PROVE \E o \in waiting : o.o_id = o_id
    <3>1. o_id \in 1..3000 /\ o_id > 2100
      BY <2>1, <2>2
    <3>2. Order(o_id, carrier).o_id = o_id /\ Order(o_id, carrier).o_carrier_id = 0
      BY <1>4, <3>1
    <3>3. Order(o_id, carrier) \in orders
      BY <1>5, <3>1
    <3>4. QED
      BY <3>2, <3>3
  <2> HIDE DEF waiting
  <2>5. NewOrders = {o.o_id : o \in waiting}
    BY <2>3, <2>4
  <2>6. QED
    BY <2>5 DEF waiting
<1>8. Max(NewOrders) = 3000
  <2>1. \A x \in NewOrders : (\A y \in NewOrders : x >= y) <=> x = 3000
    BY <1>3
  <2>2. 3000 \in NewOrders
    BY <1>3
  <2>3. (CHOOSE x \in NewOrders : \A y \in NewOrders : x >= y) = 3000
    BY <2>1, <2>2
  <2>4. QED
    BY <2>3 DEF Max
<1>9. ASSUME NEW o \in orders
      PROVE  /\ {l.ol_number : l \in OrderLines(o.o_id)} = 1..o.o_ol_cnt
             /\ \A l \in OrderLines(o.o_id) : l.dated <=> o.o_id \notin NewOrders
  <2>1. PICK o_id \in 1..3000 : o = Order(o_id, carrier)
    BY <1>5
  <2>2. o.o_id = o_id /\ o.o_ol_cnt = 10
    BY <1>4, <2>1
  <2>3. PICK early \in BOOLEAN : early <=> o_id <= 2100
    <3> DEFINE delivered == o_id <= 2100
    <3>1. delivered \in BOOLEAN /\ (delivered <=> o_id <= 2100)
      OBVIOUS
    <3> HIDE DEF delivered
    <3>2. QED
      BY <3>1
  <2>4. early <=> o_id \notin NewOrders
    BY <1>3, <2>3
  <2>5. \A n : OrderLine(o_id, n).ol_number = n /\ OrderLine(o_id, n).dated = early
    BY <2>3 DEF OrderLine
  <2>6. \A l \in OrderLines(o_id) : l.dated = early
    BY <2>5 DEF OrderLines
  <2>7. \A l \in OrderLines(o_id) : l.dated <=> o_id \notin NewOrders
    BY <2>4, <2>6
  <2>8. {l.ol_number : l \in OrderLines(o_id)} = 1..10
    BY <2>5 DEF OrderLines
  <2>9. QED
    BY <2>2, <2>7, <2>8
<1>10. Cardinality(orders) = 3000
  <2>1. PICK n : n = 3000
    OBVIOUS
  <2> DEFINE f == [i \in 1..n |-> Order(i, carrier)]
  <2>2. n \in Nat
    BY <2>1
  <2>3. orders = {Order(i, carrier) : i \in 1..n}
    BY <1>5, <2>1
  <2>4. orders = {f[i] : i \in 1..n}
    BY <2>3
  <2>5. \A i \in 1..n : f[i].o_id = i
    BY <1>4
  <2>6. f = [i \in 1..n |-> f[i]]
    OBVIOUS
  <2> HIDE DEF f
  <2>7. \A i, j \in 1..n : f[i] = f[j] => i = j
    BY <2>5
  <2>8. Cardinality(orders) = n
    BY <2>2, <2>4, <2>6, <2>7, RowsPerId
  <2>9. QED
    BY <2>1, <2>8
<1>11. Cardinality(OrderLines(1)) = 10
  <2>1. PICK n : n = 10
    OBVIOUS
  <2> DEFINE f == [i \in 1..n |-> OrderLine(1, i)]
  <2>2. n \in Nat
    BY <2>1
  <2>3. OrderLines(1) = {OrderLine(1, i) : i \in 1..n}
    BY <2>1 DEF OrderLines
  <2>4. OrderLines(1) = {f[i] : i \in 1..n}
    BY <2>3
  <2>5. \A i \in 1..n : f[i].ol_number = i
    BY DEF OrderLine
  <2>6. f = [i \in 1..n |-> f[i]]
    OBVIOUS
  <2> HIDE DEF f
  <2>7. \A i, j \in 1..n : f[i] = f[j] => i = j
    BY <2>5
  <2>8. Cardinality(OrderLines(1)) = n
    BY <2>2, <2>4, <2>6, <2>7, RowsPerId
  <2>9. QED
    BY <2>1, <2>8
<1>12. Cardinality(NewOrders) = 900
  <2>1. PICK low, high : low = 2101 /\ high = 3000
    OBVIOUS
  <2>2. low \in Int /\ high \in Int /\ low <= high + 1 /\ NewOrders = low..high
    BY <1>3, <2>1
  <2>3. Cardinality(NewOrders) = high - low + 1
    BY <2>2, HowMany
  <2>4. QED
    BY <2>1, <2>3
<1>13. /\ count("orders", Cardinality(orders))
       /\ count("new_orders", Cardinality(NewOrders))
       /\ count("order_line", ORDERS_PER_DISTRICT * Cardinality(OrderLines(1)))
       /\ count("history", CUSTOMERS_PER_DISTRICT)
       /\ count("customer", CUSTOMERS_PER_DISTRICT)
  <2>1. /\ Expected("orders", sf) = sf * 10 * 3000
        /\ Expected("new_orders", sf) = sf * 10 * 900
        /\ Expected("order_line", sf) = sf * 10 * 3000 * 10
        /\ Expected("history", sf) = sf * 10 * 3000
        /\ Expected("customer", sf) = sf * 10 * 3000
    BY DEF Expected
  <2>2. sf * 10 * 3000 * 10 = sf * 10 * (3000 * 10)
    BY <1>1
  <2>3. QED
    BY <1>2, <1>10, <1>11, <1>12, <2>1, <2>2
<1>14. /\ ids = 1..(District.d_next_o_id - 1)
       /\ Max(NewOrders) = District.d_next_o_id - 1
       /\ District.d_ytd = CUSTOMERS_PER_DISTRICT * History.h_amount
       /\ Warehouse.w_ytd = DISTRICTS_PER_WAREHOUSE * District.d_ytd
  <2>1. 3001 - 1 = 3000 /\ 3000 * 10 = 30000 /\ 10 * 30000 = 300000
    OBVIOUS
  <2>2. ids = 1..(District.d_next_o_id - 1) /\ Max(NewOrders) = District.d_next_o_id - 1
    <3>1. District.d_next_o_id - 1 = 3000
      BY <1>2, <2>1
    <3> DEFINE m == District.d_next_o_id - 1
    <3> HIDE DEF m
    <3>2. m = 3000
      BY <3>1 DEF m
    <3>3. ids = 1..m /\ Max(NewOrders) = m
      BY <1>6, <1>8, <3>2
    <3>4. QED
      BY <3>3 DEF m
  <2>3. District.d_ytd = CUSTOMERS_PER_DISTRICT * History.h_amount
    BY <1>2, <2>1
  <2>4. Warehouse.w_ytd = DISTRICTS_PER_WAREHOUSE * District.d_ytd
    BY <1>2, <2>1
  <2>5. QED
    BY <2>2, <2>3, <2>4
<1>15. QED
  BY <1>7, <1>9, <1>13, <1>14 DEF orders, ids

---------------------------------------------------------------------------
(* The mix. *)

\* Products keep the order of their factors.
LEMMA Monotone ==
  ASSUME NEW a \in Nat, NEW b \in Nat, NEW c \in Nat
  PROVE  (a <= b => a * c <= b * c) /\ (a * c < b * c => a < b)
  OBVIOUS

\* A sum over ids in a row, by its last id.
LEMMA SumInRow ==
  ASSUME NEW f, NEW a \in Int, NEW b \in Int, a <= b, \A k \in a..b : f[k] \in Nat
  PROVE  SumOver(f, a..b) = SumOver(f, a..(b - 1)) + f[b]
<1>1. IsFiniteSet(a..(b - 1))
  BY FS_Interval
<1>2. a..b = (a..(b - 1)) \cup {b}
  OBVIOUS
<1>3. b \notin a..(b - 1)
  OBVIOUS
<1> DEFINE S == a..(b - 1)
<1>4. \A k \in S \cup {b} : f[k] \in Int
  BY <1>2
<1> HIDE DEF S
<1>5. SumOver(f, S \cup {b}) = SumOver(f, S) + f[b]
  BY <1>1, <1>3, <1>4, SumAdds DEF S
<1>6. QED
  BY <1>2, <1>5 DEF S

\* SumTo adds the weights up.
LEMMA SumToIs ==
  ASSUME NEW W, \A k \in 1..5 : W[k] \in Nat
  PROVE  /\ SumTo(W, 0) = 0
         /\ \A i \in 1..5 : SumTo(W, i) = SumTo(W, i - 1) + W[i]
         /\ \A i \in 0..5 : SumTo(W, i) \in Nat
<1>1. \A i : SumTo(W, i) = SumOver(W, 1..i)
  BY DEF SumTo, MapThenSumSet, MapThenFoldSet, SumOver, Acc, Chosen
<1>2. SumTo(W, 0) = 0
  <2>1. 1..0 = {}
    OBVIOUS
  <2>2. QED
    BY <1>1, <2>1, SumOfNone
<1>3. \A i \in 1..5 : SumTo(W, i) = SumTo(W, i - 1) + W[i]
  <2>1. SUFFICES ASSUME NEW i \in 1..5 PROVE SumOver(W, 1..i) = SumOver(W, 1..(i - 1)) + W[i]
    BY <1>1
  <2>2. \A k \in 1..i : W[k] \in Nat
    OBVIOUS
  <2>3. QED
    BY <2>2, SumInRow
<1>4. \A i \in 0..5 : SumTo(W, i) \in Nat
  <2> DEFINE s(i) == SumTo(W, i)
  <2>1. s(0) = 0
    BY <1>2
  <2>2. \A i \in 1..5 : s(i) = s(i - 1) + W[i]
    BY <1>3
  <2> HIDE DEF s
  <2>3. s(1) = s(0) + W[1] /\ s(2) = s(1) + W[2] /\ s(3) = s(2) + W[3] /\ s(4) = s(3) + W[4]
        /\ s(5) = s(4) + W[5]
    BY <2>2
  <2>4. s(0) \in Nat /\ s(1) \in Nat /\ s(2) \in Nat /\ s(3) \in Nat /\ s(4) \in Nat /\ s(5) \in Nat
    BY <2>1, <2>3
  <2>5. \A i \in 0..5 : s(i) \in Nat
    BY <2>4
  <2>6. QED
    BY <2>5 DEF s
<1>5. QED
  BY <1>2, <1>3, <1>4

\* The multiples of T above A and up to B are (B - A) / T, but for one.
LEMMA Multiples ==
  ASSUME NEW T \in Nat \ {0}, NEW G \in Nat \ {0}, NEW A \in Nat, NEW B \in Nat,
         A <= B, B <= T * G, NEW S, S = {u \in 1..(G - 1) : A < u * T /\ u * T <= B}
  PROVE  /\ Cardinality(S) \in Nat
         /\ Cardinality(S) * T <= (B - A) + T
         /\ Cardinality(S) * T >= (B - A) - T
<1> DEFINE a == A \div T
           b == B \div T
<1>1. a \in Nat /\ a * T <= A /\ A < a * T + T
  OBVIOUS
<1>2. b \in Nat /\ b * T <= B /\ B < b * T + T
  OBVIOUS
<1> HIDE DEF a, b
<1>3. ASSUME NEW u \in Nat PROVE (A < u * T <=> a < u) /\ (u * T <= B <=> u <= b)
  <2>1. a < u => a * T + T <= u * T
    <3>1. a + 1 <= u => (a + 1) * T <= u * T
      BY <1>1, Monotone
    <3>2. (a + 1) * T = a * T + T
      BY <1>1
    <3>3. QED
      BY <1>1, <3>1, <3>2
  <2>2. u <= a => u * T <= a * T
    BY <1>1, Monotone
  <2>3. u <= b => u * T <= b * T
    BY <1>2, Monotone
  <2>4. b < u => b * T + T <= u * T
    <3>1. b + 1 <= u => (b + 1) * T <= u * T
      BY <1>2, Monotone
    <3>2. (b + 1) * T = b * T + T
      BY <1>2
    <3>3. QED
      BY <1>2, <3>1, <3>2
  <2>5. u * T \in Nat /\ a * T \in Nat /\ b * T \in Nat
    BY <1>1, <1>2
  <2>6. A < u * T <=> a < u
    BY <1>1, <2>1, <2>2, <2>5
  <2>7. u * T <= B <=> u <= b
    BY <1>2, <2>3, <2>4, <2>5
  <2>8. QED
    BY <2>6, <2>7
<1>4. a <= b /\ b <= G
  <2>1. b * T < b * T + T /\ a * T <= B /\ b * T <= G * T
    BY <1>1, <1>2
  <2>2. b < a => b * T + T <= a * T
    <3>1. b + 1 <= a => (b + 1) * T <= a * T
      BY <1>1, <1>2, Monotone
    <3>2. (b + 1) * T = b * T + T
      BY <1>2
    <3>3. QED
      BY <1>1, <1>2, <3>1, <3>2
  <2>3. G < b => G * T + T <= b * T
    <3>1. G + 1 <= b => (G + 1) * T <= b * T
      BY <1>2, Monotone
    <3>2. (G + 1) * T = G * T + T
      OBVIOUS
    <3>3. QED
      BY <1>2, <3>1, <3>2
  <2>4. a * T \in Nat /\ b * T \in Nat /\ G * T \in Nat
    BY <1>1, <1>2
  <2>5. a <= b
    BY <1>1, <1>2, <2>1, <2>2, <2>4
  <2>6. b <= G
    BY <1>2, <2>1, <2>3, <2>4
  <2>7. QED
    BY <2>5, <2>6
<1>5. CASE b < G
  <2>1. S = (a + 1)..b
    BY <1>1, <1>2, <1>3, <1>5
  <2>2. a + 1 \in Int /\ b \in Int /\ a + 1 <= b + 1
    BY <1>1, <1>2, <1>4
  <2>3. Cardinality(S) = b - a
    <3>1. PICK low, high : low = a + 1 /\ high = b
      OBVIOUS
    <3>2. low \in Int /\ high \in Int /\ low <= high + 1 /\ S = low..high
      BY <2>1, <2>2, <3>1
    <3>3. Cardinality(S) = high - low + 1
      BY <3>2, HowMany
    <3>4. QED
      BY <1>1, <1>2, <3>1, <3>3
  <2>4. (b - a) * T = b * T - a * T
    BY <1>1, <1>2
  <2>5. b - a \in Nat
    BY <1>1, <1>2, <1>4
  <2>6. a * T \in Nat /\ b * T \in Nat
    BY <1>1, <1>2
  <2>7. QED
    BY <1>1, <1>2, <2>3, <2>4, <2>5, <2>6
<1>6. CASE b = G /\ a < G
  <2>1. S = (a + 1)..(G - 1)
    BY <1>1, <1>2, <1>3, <1>6
  <2>2. Cardinality(S) = G - 1 - a
    <3>1. PICK low, high : low = a + 1 /\ high = G - 1
      OBVIOUS
    <3>2. low \in Int /\ high \in Int /\ low <= high + 1 /\ S = low..high
      BY <1>1, <1>6, <2>1, <3>1
    <3>3. Cardinality(S) = high - low + 1
      BY <3>2, HowMany
    <3>4. QED
      BY <1>1, <3>1, <3>3
  <2>3. (G - 1 - a) * T = G * T - T - a * T
    BY <1>1
  <2>4. B = G * T
    BY <1>2, <1>6
  <2>5. G - 1 - a \in Nat
    BY <1>1, <1>6
  <2>6. a * T \in Nat /\ G * T \in Nat
    BY <1>1
  <2>7. QED
    BY <1>1, <2>2, <2>3, <2>4, <2>5, <2>6
<1>7. CASE b = G /\ a = G
  <2>1. S = {}
    BY <1>3, <1>7
  <2>2. Cardinality(S) = 0
    BY <2>1, FS_EmptySet
  <2>3. A = B
    BY <1>1, <1>2, <1>7
  <2>4. QED
    BY <2>2, <2>3
<1>8. QED
  BY <1>1, <1>2, <1>4, <1>5, <1>6, <1>7

\* Five weights that are not all 0 make a choice: that of the share which
\* u * T falls in, T being their sum.
LEMMA Picks ==
  ASSUME NEW W, DOMAIN W = 1..5, Len(W) = 5, \A k \in 1..5 : W[k] \in Nat, SumTo(W, 5) > 0,
         NEW u \in 1..(Grain - 1)
  PROVE  \E m \in 1..5 :
            /\ weighted_choice(W, u) = all[m]
            /\ \A i \in 1..5 : (/\ SumTo(W, i - 1) * Grain < u * SumTo(W, 5)
                                /\ u * SumTo(W, 5) <= SumTo(W, i) * Grain) <=> i = m
<1> DEFINE s(i) == SumTo(W, i)
           y(i) == s(i) * Grain
           x == u * s(5)
           hits == {i \in 1..5 : x <= y(i)}
<1>1. Grain \in Nat /\ u \in Nat /\ 0 < u /\ u < Grain
  BY GrainAssumption
<1>2. \A i \in 0..5 : s(i) \in Nat
  BY SumToIs
<1>3. s(0) = 0 /\ \A i \in 1..5 : s(i - 1) <= s(i)
  <2>1. s(0) = 0 /\ \A i \in 1..5 : s(i) = s(i - 1) + W[i]
    BY SumToIs
  <2>2. \A i \in 1..5 : s(i - 1) \in Nat
    BY <1>2
  <2> HIDE DEF s
  <2>3. QED
    BY <2>1, <2>2
<1>4. s(5) > 0
  OBVIOUS
<1>5. weighted_choice(W, u) = IF hits = {} THEN all[1] ELSE all[Min(hits)]
  BY <1>2, <1>4 DEF weighted_choice
<1> HIDE DEF s
<1>6. \A i \in 0..5 : y(i) \in Nat
  BY <1>1, <1>2
<1>7. x \in Nat /\ 0 < x /\ x <= y(5)
  <2>1. s(5) \in Nat /\ s(5) > 0
    BY <1>2, <1>4
  <2>2. u * s(5) <= Grain * s(5)
    BY <1>1, <2>1, Monotone
  <2>3. Grain * s(5) = s(5) * Grain
    BY <1>1, <2>1
  <2>4. u * s(5) > 0
    BY <1>1, <2>1
  <2>5. QED
    BY <1>1, <2>1, <2>2, <2>3, <2>4
<1>8. y(0) = 0 /\ \A i \in 1..5 : y(i - 1) <= y(i)
  <2>1. y(0) = 0
    BY <1>1, <1>3
  <2>2. ASSUME NEW i \in 1..5 PROVE y(i - 1) <= y(i)
    <3>1. s(i - 1) \in Nat /\ s(i) \in Nat /\ s(i - 1) <= s(i)
      BY <1>2, <1>3
    <3>2. QED
      BY <1>1, <3>1, Monotone
  <2>3. QED
    BY <2>1, <2>2
<1> HIDE DEF x, y
<1>9. PICK m \in 1..5 : y(m - 1) < x /\ x <= y(m)
  <2>1. y(0) < x /\ x <= y(5)
    BY <1>7, <1>8
  <2>2. y(0) \in Nat /\ y(1) \in Nat /\ y(2) \in Nat /\ y(3) \in Nat /\ y(4) \in Nat /\ y(5) \in Nat
    BY <1>6
  <2>3. (y(1 - 1) < x /\ x <= y(1)) \/ (y(2 - 1) < x /\ x <= y(2)) \/ (y(3 - 1) < x /\ x <= y(3))
        \/ (y(4 - 1) < x /\ x <= y(4)) \/ (y(5 - 1) < x /\ x <= y(5))
    BY <1>7, <2>1, <2>2
  <2>4. QED
    BY <2>3
<1>10. \A i, j \in 0..5 : i <= j => y(i) <= y(j)
  <2>1. y(0) <= y(1) /\ y(1) <= y(2) /\ y(2) <= y(3) /\ y(3) <= y(4) /\ y(4) <= y(5)
    BY <1>8
  <2>2. QED
    BY <1>6, <2>1
<1>11. \A i \in 1..5 : (y(i - 1) < x /\ x <= y(i)) <=> i = m
  <2>1. SUFFICES ASSUME NEW i \in 1..5, y(i - 1) < x, x <= y(i) PROVE i = m
    BY <1>9
  <2>2. ~(i <= m - 1)
    <3>1. i <= m - 1 => y(i) <= y(m - 1)
      BY <1>10
    <3>2. y(i) \in Nat /\ y(m - 1) \in Nat
      BY <1>6
    <3>3. QED
      BY <1>7, <1>9, <2>1, <3>1, <3>2
  <2>3. ~(m <= i - 1)
    <3>1. m <= i - 1 => y(m) <= y(i - 1)
      BY <1>10
    <3>2. y(m) \in Nat /\ y(i - 1) \in Nat
      BY <1>6
    <3>3. QED
      BY <1>7, <1>9, <2>1, <3>1, <3>2
  <2>4. QED
    BY <2>2, <2>3
<1>12. \A i \in 1..5 : i \in hits <=> m <= i
  <2>1. SUFFICES ASSUME NEW i \in 1..5 PROVE x <= y(i) <=> m <= i
    OBVIOUS
  <2>2. m <= i => y(m) <= y(i)
    BY <1>10
  <2>3. i <= m - 1 => y(i) <= y(m - 1)
    BY <1>10
  <2>4. y(m) \in Nat /\ y(m - 1) \in Nat /\ y(i) \in Nat
    BY <1>6
  <2>5. QED
    BY <1>7, <1>9, <2>2, <2>3, <2>4
<1>13. hits \subseteq 1..5
  OBVIOUS
<1> HIDE DEF hits
<1>14. Min(hits) = m
  <2>1. \A i \in hits : (\A j \in hits : i <= j) <=> i = m
    BY <1>12, <1>13
  <2>2. m \in hits
    BY <1>12
  <2>3. (CHOOSE i \in hits : \A j \in hits : i <= j) = m
    BY <2>1, <2>2
  <2>4. QED
    BY <2>3 DEF Min
<1>15. weighted_choice(W, u) = all[m]
  <2>1. hits # {}
    BY <1>12
  <2>2. QED
    BY <1>5, <1>14, <2>1
<1>16. QED
  BY <1>11, <1>15 DEF x, y, s

LEMMA Distinct == \A i, j \in 1..5 : all[i] = all[j] => i = j
  BY DEF all

\* Every weight gets its share of the draws.
LEMMA SharesOfWeights ==
  ASSUME NEW W, DOMAIN W = 1..5, Len(W) = 5, \A k \in 1..5 : W[k] \in Nat,
         NEW T, T = SumTo(W, 5), T > 0
  PROVE  /\ \A u \in 1..(Grain - 1) :
              \E i \in 1..5 : weighted_choice(W, u) = all[i] /\ W[i] > 0
         /\ \A i \in 1..5, S \in SUBSET (1..(Grain - 1)) :
              S = {u \in 1..(Grain - 1) : weighted_choice(W, u) = all[i]} =>
                /\ Cardinality(S) * T <= Grain * W[i] + T
                /\ Cardinality(S) * T >= Grain * W[i] - T
<1>1. Grain \in Nat \ {0}
  BY GrainAssumption
<1>2. /\ \A i \in 1..5 : SumTo(W, i) = SumTo(W, i - 1) + W[i]
      /\ \A i \in 0..5 : SumTo(W, i) \in Nat
  BY SumToIs
<1>3. T \in Nat \ {0}
  BY <1>2
<1>4. ASSUME NEW u \in 1..(Grain - 1)
      PROVE  \E i \in 1..5 : weighted_choice(W, u) = all[i] /\ W[i] > 0
  <2>1. PICK m \in 1..5 :
          /\ weighted_choice(W, u) = all[m]
          /\ \A i \in 1..5 : (/\ SumTo(W, i - 1) * Grain < u * SumTo(W, 5)
                              /\ u * SumTo(W, 5) <= SumTo(W, i) * Grain) <=> i = m
    BY Picks
  <2> DEFINE a == SumTo(W, m - 1)
             b == SumTo(W, m)
  <2>2. a \in Nat /\ b \in Nat /\ b = a + W[m] /\ W[m] \in Nat
    BY <1>2
  <2>3. a * Grain < u * T /\ u * T <= b * Grain
    BY <2>1
  <2> HIDE DEF a, b
  <2>4. a * Grain < b * Grain
    BY <1>1, <1>3, <2>2, <2>3
  <2>5. a < b
    BY <1>1, <2>2, <2>4, Monotone
  <2>6. W[m] > 0
    BY <2>2, <2>5
  <2>7. QED
    BY <2>1, <2>6
<1>5. ASSUME NEW i \in 1..5, NEW S, S = {u \in 1..(Grain - 1) : weighted_choice(W, u) = all[i]}
      PROVE  /\ Cardinality(S) * T <= Grain * W[i] + T
             /\ Cardinality(S) * T >= Grain * W[i] - T
  <2> DEFINE a == SumTo(W, i - 1)
             b == SumTo(W, i)
             A == a * Grain
             B == b * Grain
  <2>1. a \in Nat /\ b \in Nat /\ b = a + W[i] /\ W[i] \in Nat
    BY <1>2
  <2>2. b <= T
    <3>1. /\ \A k \in 1..5 : SumTo(W, k - 1) <= SumTo(W, k)
      <4>1. SUFFICES ASSUME NEW k \in 1..5 PROVE SumTo(W, k - 1) <= SumTo(W, k)
        OBVIOUS
      <4>2. SumTo(W, k - 1) \in Nat /\ W[k] \in Nat /\ SumTo(W, k) = SumTo(W, k - 1) + W[k]
        BY <1>2
      <4>3. QED
        BY <4>2
    <3>2. SumTo(W, 1) <= SumTo(W, 2) /\ SumTo(W, 2) <= SumTo(W, 3) /\ SumTo(W, 3) <= SumTo(W, 4)
          /\ SumTo(W, 4) <= SumTo(W, 5)
      BY <3>1
    <3>3. SumTo(W, 1) \in Nat /\ SumTo(W, 2) \in Nat /\ SumTo(W, 3) \in Nat /\ SumTo(W, 4) \in Nat
          /\ SumTo(W, 5) \in Nat
      BY <1>2
    <3>4. i = 1 \/ i = 2 \/ i = 3 \/ i = 4 \/ i = 5
      OBVIOUS
    <3>5. QED
      BY <3>2, <3>3, <3>4
  <2>3. ASSUME NEW u \in 1..(Grain - 1)
        PROVE  weighted_choice(W, u) = all[i] <=> A < u * T /\ u * T <= B
    <3>1. PICK m \in 1..5 :
            /\ weighted_choice(W, u) = all[m]
            /\ \A j \in 1..5 : (/\ SumTo(W, j - 1) * Grain < u * SumTo(W, 5)
                                /\ u * SumTo(W, 5) <= SumTo(W, j) * Grain) <=> j = m
      BY Picks
    <3>2. (A < u * T /\ u * T <= B) <=> i = m
      BY <3>1
    <3>3. all[i] = all[m] <=> i = m
      BY Distinct
    <3>4. QED
      BY <3>1, <3>2, <3>3
  <2> HIDE DEF a, b
  <2>4. A \in Nat /\ B \in Nat /\ A <= B /\ B <= T * Grain
    <3>1. A \in Nat /\ B \in Nat
      BY <1>1, <2>1
    <3>2. A <= B
      BY <1>1, <2>1, Monotone
    <3>3. b * Grain <= T * Grain
      BY <1>1, <1>3, <2>1, <2>2, Monotone
    <3>4. QED
      BY <3>1, <3>2, <3>3
  <2>5. B - A = Grain * W[i]
    BY <1>1, <2>1
  <2>6. S = {u \in 1..(Grain - 1) : A < u * T /\ u * T <= B}
    BY <1>5, <2>3
  <2> HIDE DEF A, B
  <2>7. /\ Cardinality(S) * T <= (B - A) + T
        /\ Cardinality(S) * T >= (B - A) - T
    BY <1>1, <1>3, <2>4, <2>6, Multiples
  <2>8. QED
    BY <2>5, <2>7
<1>6. QED
  BY <1>4, <1>5

LEMMA MixMeans == input \in Inputs => MixIsAsAsked
<1> DEFINE probs == input.probs
           ratio == input.ratio
           choice(v, u) == select_transaction_type(ratio, probs, v, u)
           Kinds == <<1..3, 4..5>>
           weight(K) == MapThenSumSet(LAMBDA i : probs[i], K)
           Fair(v, K) ==
             /\ \A u \in 1..(Grain - 1) :
                  \E i \in K : choice(v, u) = all[i] /\ probs[i] > 0
             /\ \A i \in K :
                  LET got == Share(1..(Grain - 1), LAMBDA u : choice(v, u) = all[i])
                  IN  /\ got * weight(K) <= Grain * probs[i] + weight(K)
                      /\ got * weight(K) >= Grain * probs[i] - weight(K)
<1> SUFFICES ASSUME input \in Inputs, input.of = "mix",
                    NEW v \in 0..(Grain - 1),
                    weight(Kinds[IF v < ratio THEN 1 ELSE 2]) > 0
             PROVE  Fair(v, Kinds[IF v < ratio THEN 1 ELSE 2])
  BY DEF MixIsAsAsked
<1> DEFINE K == Kinds[IF v < ratio THEN 1 ELSE 2]
           W == IF v < ratio THEN <<probs[1], probs[2], probs[3], 0, 0>>
                             ELSE <<0, 0, 0, probs[4], probs[5]>>
<1>1. input \in MixInputs
  BY DEF Inputs, MixInputs, SampleInputs, LoadInputs, PayInputs, SqlInputs, TableInputs
<1>2. \A i \in 1..5 : probs[i] \in Nat
  BY <1>1, WeightsAssumption DEF MixInputs
<1>3. weight(K) > 0
  OBVIOUS
<1> HIDE DEF ratio
<1>4. \A u : choice(v, u) = weighted_choice(W, u)
  BY DEF select_transaction_type
<1>5. K = IF v < ratio THEN 1..3 ELSE 4..5
  OBVIOUS
<1>6. \A k : weight(k) = SumOver(probs, k)
  BY DEF MapThenSumSet, MapThenFoldSet, SumOver, Acc, Chosen
<1> HIDE DEF probs, weight
<1>7. DOMAIN W = 1..5 /\ Len(W) = 5 /\ \A i \in 1..5 : W[i] = IF i \in K THEN probs[i] ELSE 0
  <2>1. CASE v < ratio
    BY <1>2, <1>5, <2>1
  <2>2. CASE ~(v < ratio)
    BY <1>2, <1>5, <2>2
  <2>3. QED
    BY <2>1, <2>2
<1> HIDE DEF K, W, choice
<1>8. \A i \in 1..5 : W[i] \in Nat
  BY <1>2, <1>7
<1>9. K \subseteq 1..5
  BY <1>5
<1>10. SumTo(W, 5) = weight(K)
  <2>1. SumTo(W, 0) = 0 /\ \A i \in 1..5 : SumTo(W, i) = SumTo(W, i - 1) + W[i]
    BY <1>8, SumToIs
  <2>2. SumTo(W, 5) = W[1] + W[2] + W[3] + W[4] + W[5]
    <3> DEFINE s(i) == SumTo(W, i)
    <3>1. s(0) = 0 /\ \A i \in 1..5 : s(i) = s(i - 1) + W[i]
      BY <2>1
    <3> HIDE DEF s
    <3>2. s(1) = s(0) + W[1] /\ s(2) = s(1) + W[2] /\ s(3) = s(2) + W[3]
          /\ s(4) = s(3) + W[4] /\ s(5) = s(4) + W[5]
      BY <3>1
    <3>3. s(5) = W[1] + W[2] + W[3] + W[4] + W[5]
      BY <1>8, <3>1, <3>2
    <3>4. QED
      BY <3>3 DEF s
  <2>3. CASE v < ratio
    <3>1. \A b \in 1..3 : SumOver(probs, 1..b) = SumOver(probs, 1..(b - 1)) + probs[b]
      <4>1. SUFFICES ASSUME NEW b \in 1..3
                     PROVE  SumOver(probs, 1..b) = SumOver(probs, 1..(b - 1)) + probs[b]
        OBVIOUS
      <4>2. \A k \in 1..b : probs[k] \in Nat
        BY <1>2
      <4>3. QED
        BY <4>2, SumInRow
    <3>2. SumOver(probs, 1..0) = 0
      <4>1. 1..0 = {}
        OBVIOUS
      <4>2. QED
        BY <4>1, SumOfNone
    <3> DEFINE t(b) == SumOver(probs, 1..b)
    <3>3. t(0) = 0 /\ \A b \in 1..3 : t(b) = t(b - 1) + probs[b]
      BY <3>1, <3>2
    <3> HIDE DEF t
    <3>4. t(1) = t(0) + probs[1] /\ t(2) = t(1) + probs[2] /\ t(3) = t(2) + probs[3]
      BY <3>3
    <3>5. t(3) = probs[1] + probs[2] + probs[3]
      BY <1>2, <3>3, <3>4
    <3>6. weight(K) = t(3)
      BY <1>5, <1>6, <2>3 DEF t
    <3>7. W[1] = probs[1] /\ W[2] = probs[2] /\ W[3] = probs[3] /\ W[4] = 0 /\ W[5] = 0
      BY <1>5, <1>7, <2>3
    <3>8. QED
      BY <1>2, <2>2, <3>5, <3>6, <3>7
  <2>4. CASE ~(v < ratio)
    <3>1. SumOver(probs, 4..5) = SumOver(probs, 4..4) + probs[5]
          /\ SumOver(probs, 4..4) = SumOver(probs, 4..3) + probs[4]
      <4>1. \A b \in 4..5 : SumOver(probs, 4..b) = SumOver(probs, 4..(b - 1)) + probs[b]
        <5>1. SUFFICES ASSUME NEW b \in 4..5
                       PROVE  SumOver(probs, 4..b) = SumOver(probs, 4..(b - 1)) + probs[b]
          OBVIOUS
        <5>2. \A k \in 4..b : probs[k] \in Nat
          BY <1>2
        <5>3. QED
          BY <5>2, SumInRow
      <4> DEFINE t(b) == SumOver(probs, 4..b)
      <4>2. \A b \in 4..5 : t(b) = t(b - 1) + probs[b]
        BY <4>1
      <4> HIDE DEF t
      <4>3. t(5) = t(4) + probs[5] /\ t(4) = t(3) + probs[4]
        BY <4>2
      <4>4. QED
        BY <4>3 DEF t
    <3>2. SumOver(probs, 4..3) = 0
      <4>1. 4..3 = {}
        OBVIOUS
      <4>2. QED
        BY <4>1, SumOfNone
    <3>3. weight(K) = SumOver(probs, 4..5)
      BY <1>5, <1>6, <2>4
    <3>4. weight(K) = probs[4] + probs[5]
      BY <1>2, <3>1, <3>2, <3>3
    <3>5. W[1] = 0 /\ W[2] = 0 /\ W[3] = 0 /\ W[4] = probs[4] /\ W[5] = probs[5]
      BY <1>5, <1>7, <2>4
    <3>6. QED
      BY <1>2, <2>2, <3>4, <3>5
  <2>5. QED
    BY <2>3, <2>4
<1> DEFINE T == weight(K)
<1>11. T = SumTo(W, 5) /\ T > 0
  BY <1>3, <1>10
<1> HIDE DEF T
<1>12. \A u \in 1..(Grain - 1) : \E i \in 1..5 : weighted_choice(W, u) = all[i] /\ W[i] > 0
  BY <1>7, <1>8, <1>11, SharesOfWeights
<1>13. ASSUME NEW u \in 1..(Grain - 1)
       PROVE  \E i \in K : choice(v, u) = all[i] /\ probs[i] > 0
  <2>1. PICK i \in 1..5 : weighted_choice(W, u) = all[i] /\ W[i] > 0
    BY <1>12
  <2>2. i \in K /\ probs[i] > 0
    BY <1>7, <2>1
  <2>3. QED
    BY <1>4, <2>1, <2>2
<1>14. ASSUME NEW i \in K
       PROVE  LET got == Share(1..(Grain - 1), LAMBDA u : choice(v, u) = all[i])
              IN  /\ got * T <= Grain * probs[i] + T
                  /\ got * T >= Grain * probs[i] - T
  <2> DEFINE S == {u \in 1..(Grain - 1) : choice(v, u) = all[i]}
  <2>1. i \in 1..5 /\ W[i] = probs[i]
    BY <1>7, <1>9
  <2>2. S = {u \in 1..(Grain - 1) : weighted_choice(W, u) = all[i]}
    BY <1>4
  <2>3. S \in SUBSET (1..(Grain - 1))
    OBVIOUS
  <2> HIDE DEF S
  <2>4. /\ Cardinality(S) * T <= Grain * W[i] + T
        /\ Cardinality(S) * T >= Grain * W[i] - T
    BY <1>7, <1>8, <1>11, <2>1, <2>2, <2>3, SharesOfWeights
  <2>5. QED
    BY <2>1, <2>4 DEF Share, S
<1>15. Fair(v, K)
  BY <1>13, <1>14 DEF T
<1>16. QED
  BY <1>15 DEF K

---------------------------------------------------------------------------
(* Induction, and what FoldLeft and FlattenSeq compute. *)

LEMMA InductionTo ==
  ASSUME NEW n \in Nat, NEW T, 0 \in T, \A i \in 1..n : i - 1 \in T => i \in T
  PROVE  \A i \in 0..n : i \in T
<1> DEFINE Bad == {i \in 0..n : i \notin T}
<1>1. SUFFICES ASSUME Bad # {} PROVE FALSE
  OBVIOUS
<1>2. PICK i \in Bad : \A j \in Bad : i <= j
  <2>1. Bad \subseteq Nat
    OBVIOUS
  <2> HIDE DEF Bad
  <2>2. QED
    BY <1>1, <2>1, LeastNat
<1>3. i \in 1..n /\ i - 1 \in 0..n /\ ~(i <= i - 1)
  BY <1>2
<1>4. i - 1 \in T
  BY <1>2, <1>3
<1>5. QED
  BY <1>2, <1>3, <1>4

LEMMA LastIs ==
  ASSUME NEW n \in Nat \ {0}, NEW s, s \subseteq 1..n, n \in s
  PROVE  Max(s) = n
<1>1. \A x \in s : (\A y \in s : x >= y) <=> x = n
  OBVIOUS
<1>2. (CHOOSE x \in s : \A y \in s : x >= y) = n
  BY <1>1
<1>3. QED
  BY <1>2 DEF Max

\* g has the value of a fold from the left of 1..n in it, for every part of 1..n.
Folds(g, n, A, base, op) ==
  /\ g \in [SUBSET (1..n) -> A]
  /\ \A s \in SUBSET (1..n) :
       g[s] = IF s = {} THEN base ELSE op[<<g[s \ {Max(s)}], Max(s)>>]

\* A fold from the left has a value, and it is of the type of its steps.
LEMMA FoldExists ==
  ASSUME NEW n \in Nat, NEW A, NEW base \in A, NEW op \in [A \X (1..n) -> A]
  PROVE  \E g : Folds(g, n, A, base, op)
<1> DEFINE Solves(g, m) ==
             /\ g \in [SUBSET (1..m) -> A]
             /\ \A s \in SUBSET (1..m) :
                  g[s] = IF s = {} THEN base ELSE op[<<g[s \ {Max(s)}], Max(s)>>]
           T == {m \in 0..n : \E g : Solves(g, m)}
<1>1. 0 \in T
  <2> DEFINE g == [s \in SUBSET (1..0) |-> base]
  <2>1. \A s \in SUBSET (1..0) : s = {}
    OBVIOUS
  <2>2. Solves(g, 0)
    BY <2>1
  <2> HIDE DEF Solves
  <2>3. QED
    BY <2>2
<1>2. ASSUME NEW m \in 1..n, m - 1 \in T
      PROVE  m \in T
  <2>1. PICK h : Solves(h, m - 1)
    BY <1>2
  <2> DEFINE g == [s \in SUBSET (1..m) |-> IF m \in s THEN op[<<h[s \ {m}], m>>] ELSE h[s]]
  <2>2. ASSUME NEW s \in SUBSET (1..m), m \in s
        PROVE  s \ {m} \in SUBSET (1..(m - 1)) /\ s \ {m} \in SUBSET (1..m) /\ m \notin s \ {m}
    OBVIOUS
  <2>3. ASSUME NEW s \in SUBSET (1..m), m \notin s
        PROVE  s \in SUBSET (1..(m - 1))
    <3>1. \A x \in s : x \in 1..m /\ x # m
      BY <2>3
    <3>2. QED
      BY <3>1
  <2>4. ASSUME NEW s \in SUBSET (1..m)
        PROVE  g[s] \in A
    <3>1. CASE m \in s
      <4>1. h[s \ {m}] \in A
        BY <2>1, <2>2, <3>1
      <4>2. QED
        BY <3>1, <4>1
    <3>2. CASE m \notin s
      BY <2>1, <2>3, <3>2
    <3>3. QED
      BY <3>1, <3>2
  <2>5. ASSUME NEW s \in SUBSET (1..(m - 1))
        PROVE  s \in SUBSET (1..m) /\ m \notin s /\ g[s] = h[s]
    <3>1. \A x \in 1..(m - 1) : x \in 1..m /\ x # m
      OBVIOUS
    <3>2. s \in SUBSET (1..m) /\ m \notin s
      BY <3>1
    <3>3. QED
      BY <3>2
  <2>6. ASSUME NEW s \in SUBSET (1..m)
        PROVE  g[s] = IF s = {} THEN base ELSE op[<<g[s \ {Max(s)}], Max(s)>>]
    <3>1. CASE m \in s
      <4>1. Max(s) = m
        <5>1. s \subseteq 1..m /\ m \in Nat \ {0}
          OBVIOUS
        <5>2. QED
          BY <3>1, <5>1, LastIs
      <4>2. g[s \ {m}] = h[s \ {m}]
        BY <2>2, <2>5, <3>1
      <4>3. g[s] = op[<<h[s \ {m}], m>>]
        BY <3>1
      <4> HIDE DEF g
      <4>4. QED
        BY <3>1, <4>1, <4>2, <4>3
    <3>2. CASE m \notin s
      <4>1. s \in SUBSET (1..(m - 1)) /\ s \ {Max(s)} \in SUBSET (1..(m - 1))
        BY <2>3, <3>2
      <4>2. g[s] = h[s] /\ g[s \ {Max(s)}] = h[s \ {Max(s)}]
        BY <2>5, <4>1
      <4>3. h[s] = IF s = {} THEN base ELSE op[<<h[s \ {Max(s)}], Max(s)>>]
        BY <2>1, <4>1
      <4> HIDE DEF g
      <4>4. QED
        BY <4>2, <4>3
    <3>3. QED
      BY <3>1, <3>2
  <2>7. g \in [SUBSET (1..m) -> A]
    <3>1. g = [s \in SUBSET (1..m) |-> g[s]]
      OBVIOUS
    <3> HIDE DEF g
    <3>2. QED
      BY <2>4, <3>1
  <2>8. Solves(g, m)
    <3> HIDE DEF g
    <3>1. QED
      BY <2>6, <2>7
  <2> HIDE DEF Solves
  <2>9. QED
    BY <2>8
<1> HIDE DEF T
<1>3. \A m \in 0..n : m \in T
  BY <1>1, <1>2, InductionTo
<1>4. n \in T
  BY <1>3
<1>5. PICK g : Solves(g, n)
  BY <1>4 DEF T
<1>6. Folds(g, n, A, base, op)
  BY <1>5 DEF Folds
<1>7. QED
  BY <1>6

\* What FlattenSeq computes, from the first of the sequences on.
LEMMA FlattenIs ==
  ASSUME NEW C, NEW seqs \in Seq(Seq(C)), Len(seqs) > 0
  PROVE  \E f \in [0..Len(seqs) -> Seq(C)] :
           /\ f[0] = <<>>
           /\ \A i \in 1..Len(seqs) : f[i] = f[i - 1] \o seqs[i]
           /\ FlattenSeq(seqs) = f[Len(seqs)]
<1> DEFINE n == Len(seqs)
           Solves(f, m) ==
             f = [i \in 1..m |-> IF i = 1 THEN seqs[i] ELSE f[i - 1] \o seqs[i]]
           h == CHOOSE f : Solves(f, n)
           T == {m \in 0..n : \E f : Solves(f, m)}
<1>1. n \in Nat /\ n >= 1 /\ \A i \in 1..n : seqs[i] \in Seq(C)
  OBVIOUS
<1>2. FlattenSeq(seqs) = h[n]
  BY <1>1 DEF FlattenSeq
<1> HIDE DEF n
<1>3. 0 \in T
  <2> DEFINE f == [i \in 1..0 |-> <<>>]
  <2>1. Solves(f, 0)
    OBVIOUS
  <2>2. 0 \in 0..n
    BY <1>1
  <2> HIDE DEF Solves
  <2>3. QED
    BY <2>1, <2>2
<1>4. ASSUME NEW m \in 1..n, m - 1 \in T
      PROVE  m \in T
  <2>1. PICK f : Solves(f, m - 1)
    BY <1>4
  <2> DEFINE g == [i \in 1..m |-> IF i = m THEN IF i = 1 THEN seqs[i] ELSE f[i - 1] \o seqs[i]
                                  ELSE f[i]]
  <2>2. \A i \in 1..(m - 1) : i \in 1..m /\ i # m
    BY <1>1
  <2>3. \A i \in 1..(m - 1) : g[i] = f[i]
    BY <2>2
  <2>4. ASSUME NEW i \in 1..m
        PROVE  g[i] = IF i = 1 THEN seqs[i] ELSE g[i - 1] \o seqs[i]
    <3>1. i # 1 => i - 1 \in 1..(m - 1)
      BY <1>1
    <3>2. i # m => i \in 1..(m - 1)
      BY <1>1
    <3>3. i # 1 => g[i - 1] = f[i - 1]
      BY <2>3, <3>1
    <3>4. i # m => f[i] = IF i = 1 THEN seqs[i] ELSE f[i - 1] \o seqs[i]
      BY <2>1, <3>2
    <3>5. g[i] = IF i = m THEN IF i = 1 THEN seqs[i] ELSE f[i - 1] \o seqs[i] ELSE f[i]
      OBVIOUS
    <3> HIDE DEF g
    <3>6. QED
      BY <3>3, <3>4, <3>5
  <2>5. g = [i \in 1..m |-> g[i]]
    OBVIOUS
  <2>6. Solves(g, m)
    <3> HIDE DEF g
    <3>1. QED
      BY <2>4, <2>5
  <2> HIDE DEF Solves
  <2>7. QED
    BY <2>6
<1> HIDE DEF T
<1>5. \A m \in 0..n : m \in T
  BY <1>1, <1>3, <1>4, InductionTo
<1>6. n \in T
  BY <1>1, <1>5
<1>7. Solves(h, n)
  <2>1. \E f : Solves(f, n)
    BY <1>6 DEF T
  <2> HIDE DEF Solves
  <2>2. QED
    BY <2>1
<1> HIDE DEF h
<1> DEFINE f == [i \in 0..n |-> IF i = 0 THEN <<>> ELSE h[i]]
<1>8. \A i \in 1..n : h[i] = IF i = 1 THEN seqs[i] ELSE h[i - 1] \o seqs[i]
  BY <1>7
<1>9. ASSUME NEW i \in 1..n PROVE f[i] = f[i - 1] \o seqs[i]
  <2>1. CASE i = 1
    <3>1. f[i] = seqs[i]
      BY <1>8, <2>1
    <3>2. f[i - 1] = <<>>
      <4>1. i - 1 = 0 /\ f[0] = <<>>
        BY <1>1, <2>1
      <4> HIDE DEF f
      <4>2. QED
        BY <4>1
    <3> HIDE DEF f
    <3>3. QED
      BY <1>1, <3>1, <3>2
  <2>2. CASE i # 1
    <3>1. i - 1 \in 1..n
      BY <1>1, <2>2
    <3>2. f[i] = h[i] /\ f[i - 1] = h[i - 1]
      BY <1>1, <3>1
    <3> HIDE DEF f
    <3>3. QED
      BY <1>8, <2>2, <3>2
  <2>3. QED
    BY <2>1, <2>2
<1>10. f[0] = <<>> /\ f[n] = h[n] /\ f = [i \in 0..n |-> f[i]]
  BY <1>1
<1> HIDE DEF f
<1>11. \A i \in 0..n : f[i] \in Seq(C)
  <2> DEFINE U == {i \in 0..n : f[i] \in Seq(C)}
  <2>1. 0 \in U
    <3>1. <<>> \in Seq(C) /\ 0 \in 0..n
      BY <1>1
    <3>2. QED
      BY <1>10, <3>1
  <2>2. ASSUME NEW i \in 1..n, i - 1 \in U
        PROVE  i \in U
    <3>1. f[i - 1] \in Seq(C) /\ i \in 0..n
      BY <1>1, <2>2
    <3>2. f[i - 1] \o seqs[i] \in Seq(C)
      BY <1>1, <3>1
    <3>3. QED
      BY <1>9, <3>1, <3>2
  <2> HIDE DEF U
  <2>3. \A i \in 0..n : i \in U
    BY <1>1, <2>1, <2>2, InductionTo
  <2>4. QED
    BY <2>3 DEF U
<1>12. f \in [0..n -> Seq(C)]
  BY <1>10, <1>11
<1>13. QED
  BY <1>2, <1>9, <1>10, <1>12 DEF n

LEMMA LastIn ==
  ASSUME NEW n \in Nat, NEW s, s \subseteq 1..n, s # {}
  PROVE  Max(s) \in s
<1> DEFINE T == {n - x : x \in s}
<1>1. T \subseteq Nat /\ T # {}
  <2>1. \A x \in s : n - x \in Nat
    OBVIOUS
  <2>2. PICK x \in s : TRUE
    OBVIOUS
  <2>3. n - x \in T
    OBVIOUS
  <2>4. QED
    BY <2>1, <2>3
<1>2. PICK t \in T : \A m \in T : t <= m
  <2> HIDE DEF T
  <2>1. QED
    BY <1>1, LeastNat
<1>3. PICK x \in s : t = n - x
  BY <1>2
<1>4. ASSUME NEW y \in s PROVE x >= y
  <2>1. n - y \in T
    OBVIOUS
  <2>2. t <= n - y
    BY <1>2, <2>1
  <2>3. x \in Int /\ y \in Int
    OBVIOUS
  <2>4. QED
    BY <1>3, <2>2, <2>3
<1>5. (CHOOSE z \in s : \A y \in s : z >= y) \in s
  BY <1>4
<1>6. QED
  BY <1>5 DEF Max

LEMMA Rows1To ==
  ASSUME NEW n \in Nat, NEW i \in 1..n
  PROVE  /\ 1..i \in SUBSET (1..n) /\ 1..i # {} /\ Max(1..i) = i
         /\ (1..i) \ {i} = 1..(i - 1)
<1>1. 1..i \in SUBSET (1..n) /\ 1..i # {} /\ (1..i) \ {i} = 1..(i - 1)
  OBVIOUS
<1>2. i \in Nat \ {0} /\ 1..i \subseteq 1..i /\ i \in 1..i
  OBVIOUS
<1>3. Max(1..i) = i
  BY <1>2, LastIs
<1>4. QED
  BY <1>1, <1>3

LEMMA ChainTyped ==
  ASSUME NEW n \in Nat, NEW A, NEW c, c = [i \in 0..n |-> c[i]], c[0] \in A,
         \A i \in 1..n : c[i - 1] \in A => c[i] \in A
  PROVE  c \in [0..n -> A]
<1> DEFINE T == {i \in 0..n : c[i] \in A}
<1>1. 0 \in T
  OBVIOUS
<1>2. \A i \in 1..n : i - 1 \in T => i \in T
  OBVIOUS
<1> HIDE DEF T
<1>3. \A i \in 0..n : i \in T
  BY <1>1, <1>2, InductionTo
<1>4. \A i \in 0..n : c[i] \in A
  BY <1>3 DEF T
<1>5. QED
  BY <1>4

---------------------------------------------------------------------------
(* Statements. *)

Start == [at |-> "plain", text |-> <<>>, out |-> <<>>]

States == [at : {"plain", "string", "quote"}, text : Seq(Chars),
           out : Seq([str : BOOLEAN, text : Seq(Chars)])]

\* Where the server is after a text.
Reading(query) == FoldLeft(Scans, Start, query)

LEMMA ScansTyped ==
  ASSUME NEW state \in States, NEW c \in Chars
  PROVE  Scans(state, c) \in States
<1>1. state.at \in {"plain", "string", "quote"} /\ state.text \in Seq(Chars)
      /\ state.out \in Seq([str : BOOLEAN, text : Seq(Chars)])
  BY DEF States
<1>2. <<c>> \in Seq(Chars) /\ Append(state.text, c) \in Seq(Chars) /\ <<>> \in Seq(Chars)
  BY <1>1
<1> DEFINE Tokens == [str : BOOLEAN, text : Seq(Chars)]
<1>3. Token(FALSE, <<c>>) \in Tokens /\ Token(TRUE, state.text) \in Tokens
  BY <1>1, <1>2 DEF Token
<1> HIDE DEF Tokens
<1>4. state.out \in Seq(Tokens)
  BY <1>1 DEF Tokens
<1>5. /\ Append(state.out, Token(FALSE, <<c>>)) \in Seq(Tokens)
      /\ state.out \o <<Token(TRUE, state.text), Token(FALSE, <<c>>)>> \in Seq(Tokens)
  <2> DEFINE a == Token(FALSE, <<c>>)
             b == Token(TRUE, state.text)
             out == state.out
  <2>1. a \in Tokens /\ b \in Tokens /\ out \in Seq(Tokens)
    BY <1>3, <1>4
  <2> HIDE DEF a, b, out
  <2>2. Append(out, a) \in Seq(Tokens) /\ <<b, a>> \in Seq(Tokens)
    BY <2>1
  <2>3. out \o <<b, a>> \in Seq(Tokens)
    BY <2>1, <2>2
  <2>4. QED
    BY <2>2, <2>3 DEF a, b, out
<1>6. CASE state.at = "plain" /\ c = "'"
  <2>1. Scans(state, c) = [state EXCEPT !.at = "string", !.text = <<>>]
    BY <1>6 DEF Scans
  <2>2. QED
    BY <1>1, <1>2, <2>1 DEF States
<1>7. CASE state.at = "plain" /\ c # "'"
  <2>1. Scans(state, c) = [state EXCEPT !.out = Append(state.out, Token(FALSE, <<c>>))]
    BY <1>7 DEF Scans
  <2>2. QED
    BY <1>1, <1>5, <2>1 DEF States, Tokens
<1>8. CASE state.at = "string" /\ c = "'"
  <2>1. Scans(state, c) = [state EXCEPT !.at = "quote"]
    BY <1>8 DEF Scans
  <2>2. QED
    BY <1>1, <2>1 DEF States
<1>9. CASE state.at = "string" /\ c # "'"
  <2>1. Scans(state, c) = [state EXCEPT !.text = Append(state.text, c)]
    BY <1>9 DEF Scans
  <2>2. QED
    BY <1>1, <1>2, <2>1 DEF States
<1>10. CASE state.at = "quote" /\ c = "'"
  <2>1. Scans(state, c) = [state EXCEPT !.at = "string", !.text = Append(state.text, c)]
    BY <1>10 DEF Scans
  <2>2. QED
    BY <1>1, <1>2, <2>1 DEF States
<1>11. CASE state.at = "quote" /\ c # "'"
  <2>1. Scans(state, c) =
          [state EXCEPT !.at = "plain",
                        !.out = state.out \o <<Token(TRUE, state.text), Token(FALSE, <<c>>)>>]
    BY <1>11 DEF Scans
  <2>2. QED
    BY <1>1, <1>5, <2>1 DEF States, Tokens
<1>12. QED
  BY <1>1, <1>6, <1>7, <1>8, <1>9, <1>10, <1>11

LEMMA ReadingIs ==
  ASSUME NEW query \in Seq(Chars)
  PROVE  \E c \in [0..Len(query) -> States] :
           /\ c[0] = Start /\ c[Len(query)] = Reading(query)
           /\ \A i \in 1..Len(query) : c[i] = Scans(c[i - 1], query[i])
<1> DEFINE n == Len(query)
           op == [p \in States \X (1..n) |-> Scans(p[1], query[p[2]])]
           Solves(g) ==
             g = [s \in SUBSET DOMAIN query |->
                    IF s = {} THEN Start ELSE Scans(g[s \ {Max(s)}], query[Max(s)])]
           h == CHOOSE g : Solves(g)
<1>1. n \in Nat /\ DOMAIN query = 1..n /\ \A i \in 1..n : query[i] \in Chars
  OBVIOUS
<1>2. Start \in States
  BY DEF Start, States
<1>3. op \in [States \X (1..n) -> States]
  BY <1>1, ScansTyped
<1>4. \A a \in States, i \in 1..n : op[<<a, i>>] = Scans(a, query[i])
  OBVIOUS
<1>5. Reading(query) = h[DOMAIN query]
  BY DEF Reading, FoldLeft, MapThenFoldSet
<1> HIDE DEF n, op
<1>6. PICK g : Folds(g, n, States, Start, op)
  BY <1>1, <1>2, <1>3, FoldExists
<1>7. Solves(g)
  <2>1. ASSUME NEW s \in SUBSET (1..n)
        PROVE  g[s] = IF s = {} THEN Start ELSE Scans(g[s \ {Max(s)}], query[Max(s)])
    <3>1. CASE s = {}
      BY <1>6, <3>1 DEF Folds
    <3>2. CASE s # {}
      <4>1. Max(s) \in 1..n
        BY <1>1, <3>2, LastIn
      <4>2. g[s \ {Max(s)}] \in States
        BY <1>6 DEF Folds
      <4>3. g[s] = op[<<g[s \ {Max(s)}], Max(s)>>]
        BY <1>6, <3>2 DEF Folds
      <4>4. QED
        BY <1>4, <3>2, <4>1, <4>2, <4>3
    <3>3. QED
      BY <3>1, <3>2
  <2>2. g = [s \in SUBSET (1..n) |-> g[s]]
    BY <1>6 DEF Folds
  <2>3. QED
    BY <1>1, <2>1, <2>2
<1>8. Solves(h)
  <2> HIDE DEF Solves
  <2>1. QED
    BY <1>7
<1> HIDE DEF h
<1> DEFINE c == [i \in 0..n |-> h[1..i]]
<1>9. \A s \in SUBSET (1..n) :
        h[s] = IF s = {} THEN Start ELSE Scans(h[s \ {Max(s)}], query[Max(s)])
  BY <1>1, <1>8
<1> HIDE DEF Solves
<1>10. c[0] = Start
  <2>1. 1..0 = {} /\ 0 \in 0..n /\ {} \in SUBSET (1..n)
    BY <1>1
  <2>2. h[1..0] = Start
    BY <1>9, <2>1
  <2>3. QED
    BY <2>1, <2>2
<1>11. ASSUME NEW i \in 1..n PROVE c[i] = Scans(c[i - 1], query[i])
  <2>1. 1..i \in SUBSET (1..n) /\ 1..i # {} /\ Max(1..i) = i /\ (1..i) \ {i} = 1..(i - 1)
    BY <1>1, Rows1To
  <2>2. h[1..i] = Scans(h[1..(i - 1)], query[i])
    BY <1>9, <2>1
  <2>3. i \in 0..n /\ i - 1 \in 0..n
    BY <1>1
  <2>4. c[i] = h[1..i] /\ c[i - 1] = h[1..(i - 1)]
    BY <2>3
  <2> HIDE DEF c
  <2>5. QED
    BY <2>2, <2>4
<1>12. c = [i \in 0..n |-> c[i]] /\ c[n] = h[1..n]
  BY <1>1
<1> HIDE DEF c
<1>13. \A i \in 1..n : c[i - 1] \in States => c[i] \in States
  BY <1>1, <1>11, ScansTyped
<1>14. c \in [0..n -> States]
  BY <1>1, <1>2, <1>10, <1>12, <1>13, ChainTyped
<1>15. QED
  BY <1>1, <1>5, <1>10, <1>11, <1>12, <1>14 DEF n

LEMMA OneLong ==
  ASSUME NEW C, NEW x \in C
  PROVE  <<x>> \in Seq(C) /\ Len(<<x>>) = 1 /\ <<x>>[1] = x
  OBVIOUS

LEMMA SeqElements ==
  ASSUME NEW C, NEW s \in Seq(C)
  PROVE  Len(s) \in Nat /\ DOMAIN s = 1..Len(s) /\ \A j \in 1..Len(s) : s[j] \in C
  OBVIOUS

LEMMA PutFirstIs ==
  ASSUME NEW q \in Seq(Chars), NEW l, NEW i \in 1..Len(q), q[i] = "?",
         \A j \in 1..(i - 1) : q[j] # "?"
  PROVE  PutFirst(q, l) = SubSeq(q, 1, i - 1) \o l \o SubSeq(q, i + 1, Len(q))
<1> DEFINE I == {j \in 1..Len(q) : q[j] = "?"}
<1>1. \A x \in I : (\A y \in I : x <= y) <=> x = i
  OBVIOUS
<1>2. i \in I /\ I # {}
  OBVIOUS
<1>3. (CHOOSE x \in I : \A y \in I : x <= y) = i
  <2> HIDE DEF I
  <2>1. QED
    BY <1>1, <1>2
<1>4. "?" \in Range(q)
  BY DEF Range
<1>5. SelectInSeq(q, LAMBDA c : c = "?") = i
  BY <1>2, <1>3 DEF SelectInSeq, Min
<1>6. QED
  BY <1>4, <1>5 DEF PutFirst

LEMMA FirstMark ==
  ASSUME NEW q \in Seq(Chars), "?" \in Range(q)
  PROVE  \E i \in 1..Len(q) : q[i] = "?" /\ \A j \in 1..(i - 1) : q[j] # "?"
<1> DEFINE I == {j \in 1..Len(q) : q[j] = "?"}
<1>1. I \subseteq Nat /\ I # {}
  BY DEF Range
<1>2. PICK i \in I : \A j \in I : i <= j
  <2> HIDE DEF I
  <2>1. QED
    BY <1>1, LeastNat
<1>3. i \in 1..Len(q) /\ q[i] = "?"
  OBVIOUS
<1>4. ASSUME NEW j \in 1..(i - 1) PROVE q[j] # "?"
  <2>1. j \in 1..Len(q) /\ ~(i <= j)
    BY <1>3
  <2>2. QED
    BY <1>2, <2>1
<1>5. QED
  BY <1>3, <1>4

LEMMA PutFirstTyped ==
  ASSUME NEW q \in Seq(Chars), NEW l \in Seq(Chars)
  PROVE  PutFirst(q, l) \in Seq(Chars)
<1>1. CASE "?" \notin Range(q)
  BY <1>1 DEF PutFirst
<1>2. CASE "?" \in Range(q)
  <2>1. PICK i \in 1..Len(q) : q[i] = "?" /\ \A j \in 1..(i - 1) : q[j] # "?"
    BY <1>2, FirstMark
  <2>2. PutFirst(q, l) = SubSeq(q, 1, i - 1) \o l \o SubSeq(q, i + 1, Len(q))
    BY <2>1, PutFirstIs
  <2> DEFINE a == SubSeq(q, 1, i - 1)
             b == SubSeq(q, i + 1, Len(q))
  <2>3. a \in Seq(Chars) /\ b \in Seq(Chars)
    OBVIOUS
  <2> HIDE DEF a, b
  <2>4. a \o l \o b \in Seq(Chars)
    BY <2>3
  <2>5. QED
    BY <2>2, <2>4 DEF a, b
<1>3. QED
  BY <1>1, <1>2

LEMMA ChainTwo ==
  ASSUME NEW C, NEW a \in Seq(C), NEW b \in Seq(C)
  PROVE  /\ a \o b \in Seq(C) /\ Len(a \o b) = Len(a) + Len(b)
         /\ \A j \in 1..Len(a) : (a \o b)[j] = a[j]
         /\ \A j \in (Len(a) + 1)..(Len(a) + Len(b)) : (a \o b)[j] = b[j - Len(a)]
  OBVIOUS

Mark == <<"?">>
Unmarked(text) == \A j \in 1..Len(text) : text[j] # "?"

\* The first "?" of a text gives way to a literal.
LEMMA PutFirstAt ==
  ASSUME NEW a \in Seq(Chars), NEW b \in Seq(Chars), NEW l \in Seq(Chars), Unmarked(a),
         NEW q, q = (a \o Mark) \o b
  PROVE  PutFirst(q, l) = (a \o l) \o b
<1> DEFINE i == Len(a) + 1
<1>1. Mark \in Seq(Chars) /\ Len(Mark) = 1
  <2>1. "?" \in Chars
    BY SqlsAssumption
  <2>2. QED
    BY <2>1, OneLong DEF Mark
<1>2. a \o Mark \in Seq(Chars) /\ Len(a \o Mark) = Len(a) + 1
  <2>1. Mark \in Seq(Chars)
    BY <1>1
  <2>2. a \o Mark \in Seq(Chars) /\ Len(a \o Mark) = Len(a) + Len(Mark)
    BY <2>1, ChainTwo
  <2>3. QED
    BY <1>1, <2>2
<1>3. q \in Seq(Chars) /\ Len(q) = Len(a) + 1 + Len(b)
  <2>1. a \o Mark \in Seq(Chars)
    BY <1>2
  <2>2. q \in Seq(Chars) /\ Len(q) = Len(a \o Mark) + Len(b)
    BY <2>1, ChainTwo
  <2>3. QED
    BY <1>2, <2>2
<1>4. Len(a) \in Nat /\ Len(b) \in Nat
  BY SeqElements
<1>5. i \in 1..Len(q)
  BY <1>3, <1>4
<1>6. /\ q[i] = Mark[1] /\ \A j \in 1..(i - 1) : q[j] = a[j]
      /\ \A j \in 1..Len(b) : q[i + j] = b[j]
  <2> DEFINE am == a \o Mark
  <2>1. /\ am \in Seq(Chars) /\ Len(am) = Len(a) + 1 /\ am[Len(a) + 1] = Mark[1]
        /\ \A j \in 1..Len(a) : am[j] = a[j]
    BY <1>1, <1>2, <1>4
  <2> HIDE DEF am
  <2>2. q = am \o b
    BY DEF am
  <2>3. QED
    BY <1>4, <2>1, <2>2
<1>7. SubSeq(q, 1, i - 1) = a
  <2>1. SubSeq(q, 1, i - 1) \in Seq(Chars) /\ Len(SubSeq(q, 1, i - 1)) = Len(a)
    BY <1>3, <1>4
  <2>2. \A j \in 1..Len(a) : SubSeq(q, 1, i - 1)[j] = a[j]
    BY <1>3, <1>4, <1>6
  <2>3. QED
    BY <2>1, <2>2
<1>8. SubSeq(q, i + 1, Len(q)) = b
  <2>1. SubSeq(q, i + 1, Len(q)) \in Seq(Chars) /\ Len(SubSeq(q, i + 1, Len(q))) = Len(b)
    BY <1>3, <1>4
  <2>2. \A j \in 1..Len(b) : SubSeq(q, i + 1, Len(q))[j] = b[j]
    BY <1>3, <1>4, <1>6
  <2>3. QED
    BY <2>1, <2>2
<1>9. q[i] = "?" /\ \A j \in 1..(i - 1) : q[j] # "?"
  <2>1. Mark[1] = "?"
    BY DEF Mark
  <2>2. \A j \in 1..(i - 1) : a[j] # "?"
    BY <1>4 DEF Unmarked
  <2> HIDE DEF i
  <2>3. QED
    BY <1>6, <2>1, <2>2
<1>10. PutFirst(q, l) = SubSeq(q, 1, i - 1) \o l \o SubSeq(q, i + 1, Len(q))
  <2> HIDE DEF i
  <2>1. QED
    BY <1>3, <1>5, <1>9, PutFirstIs
<1>11. QED
  BY <1>7, <1>8, <1>10

LEMMA ReadingNone == Reading(<<>>) = Start
<1>1. <<>> \in Seq(Chars) /\ Len(<<>>) = 0
  OBVIOUS
<1>2. PICK c \in [0..Len(<<>>) -> States] : c[0] = Start /\ c[Len(<<>>)] = Reading(<<>>)
  BY <1>1, ReadingIs
<1>3. QED
  BY <1>1, <1>2

\* The server reads one character after the other.
LEMMA ReadingNext ==
  ASSUME NEW text \in Seq(Chars), NEW x \in Chars
  PROVE  Reading(text) \in States /\ Reading(text \o <<x>>) = Scans(Reading(text), x)
<1> DEFINE n == Len(text)
           next == text \o <<x>>
<1>1. <<x>> \in Seq(Chars) /\ Len(<<x>>) = 1 /\ <<x>>[1] = x
  BY OneLong
<1>2. next \in Seq(Chars) /\ Len(next) = n + 1 /\ n \in Nat /\ next[n + 1] = x
      /\ \A i \in 1..n : next[i] = text[i]
  BY <1>1
<1> HIDE DEF next
<1>3. PICK c \in [0..Len(text) -> States] :
        /\ c[0] = Start /\ c[Len(text)] = Reading(text)
        /\ \A i \in 1..Len(text) : c[i] = Scans(c[i - 1], text[i])
  BY ReadingIs
<1>4. PICK d \in [0..Len(next) -> States] :
        /\ d[0] = Start /\ d[Len(next)] = Reading(next)
        /\ \A i \in 1..Len(next) : d[i] = Scans(d[i - 1], next[i])
  BY <1>2, ReadingIs
<1> HIDE DEF n
<1>5. \A i \in 0..n : c[i] = d[i]
  <2> DEFINE T == {i \in 0..n : c[i] = d[i]}
  <2>1. 0 \in T
    BY <1>2, <1>3, <1>4
  <2>2. ASSUME NEW i \in 1..n, i - 1 \in T
        PROVE  i \in T
    <3>1. c[i - 1] = d[i - 1] /\ i \in 0..n /\ i \in 1..(n + 1)
      BY <1>2, <2>2
    <3>2. c[i] = Scans(c[i - 1], text[i])
      BY <1>3 DEF n
    <3>3. d[i] = Scans(d[i - 1], text[i])
      BY <1>2, <1>4, <3>1
    <3>4. QED
      BY <3>1, <3>2, <3>3
  <2> HIDE DEF T
  <2>3. \A i \in 0..n : i \in T
    BY <1>2, <2>1, <2>2, InductionTo
  <2>4. QED
    BY <2>3 DEF T
<1>6. d[n] = Reading(text)
  <2>1. c[n] = d[n]
    BY <1>2, <1>5
  <2>2. QED
    BY <1>3, <2>1 DEF n
<1>7. d[n + 1] = Scans(d[n], x)
  <2>1. n + 1 \in 1..Len(next) /\ (n + 1) - 1 = n
    BY <1>2
  <2>2. QED
    BY <1>2, <1>4, <2>1
<1>8. d[n] \in States
  BY <1>2, <1>4
<1>9. Reading(next) = d[n + 1]
  BY <1>2, <1>4
<1>10. QED
  BY <1>6, <1>7, <1>8, <1>9 DEF next

LEMMA ReadingTyped ==
  ASSUME NEW text \in Seq(Chars)
  PROVE  Reading(text) \in States
<1>1. "?" \in Chars
  BY SqlsAssumption
<1>2. QED
  BY <1>1, ReadingNext

\* A quoted literal, character by character.
LEMMA LiteralIs ==
  ASSUME NEW C, "'" \in C, NEW param, param.text \in Seq(C), param.str
  PROVE  \E f \in [0..Len(param.text) -> Seq(C)] :
           /\ f[0] = <<"'">>
           /\ \A i \in 1..Len(param.text) :
                f[i] = f[i - 1] \o IF param.text[i] = "'" THEN <<"'", "'">> ELSE <<param.text[i]>>
           /\ to_sql_literal(param) = f[Len(param.text)] \o <<"'">>
<1> DEFINE text == param.text
           n == Len(text)
           quoted(i) == IF text[i] = "'" THEN <<"'", "'">> ELSE <<text[i]>>
           seqs == [j \in DOMAIN text |-> quoted(j)]
           mark == <<"'">>
<1>1. text \in Seq(C) /\ n \in Nat /\ DOMAIN text = 1..n /\ \A i \in 1..n : text[i] \in C
  OBVIOUS
<1>2. to_sql_literal(param) = mark \o FlattenSeq(seqs) \o mark
  BY DEF to_sql_literal
<1> HIDE DEF text, n
<1>3. mark \in Seq(C)
  BY OneLong
<1>4. ASSUME NEW i \in 1..n PROVE quoted(i) \in Seq(C)
  <2>1. text[i] \in C /\ "'" \in C
    BY <1>1
  <2>2. <<"'", "'">> \in Seq(C) /\ <<text[i]>> \in Seq(C)
    BY <2>1
  <2>3. QED
    BY <2>2
<1> HIDE DEF quoted
<1>5. seqs = [i \in 1..n |-> quoted(i)]
  BY <1>1
<1>6. seqs \in Seq(Seq(C)) /\ Len(seqs) = n
  BY <1>1, <1>4, <1>5
<1> HIDE DEF seqs, mark
<1>7. PICK F : /\ F \in [0..n -> Seq(C)] /\ F[0] = <<>>
               /\ \A i \in 1..n : F[i] = F[i - 1] \o quoted(i)
               /\ FlattenSeq(seqs) = F[n]
  <2>1. CASE n = 0
    <3> DEFINE F == [i \in 0..n |-> <<>>]
    <3>1. FlattenSeq(seqs) = seqs
      BY <1>6, <2>1 DEF FlattenSeq
    <3>2. seqs = <<>>
      BY <1>6, <2>1
    <3>3. F \in [0..n -> Seq(C)] /\ F[0] = <<>> /\ F[n] = <<>>
      BY <2>1
    <3>4. \A i \in 1..n : F[i] = F[i - 1] \o quoted(i)
      BY <2>1
    <3> HIDE DEF F
    <3>5. QED
      BY <3>1, <3>2, <3>3, <3>4
  <2>2. CASE n # 0
    <3>1. Len(seqs) > 0
      BY <1>1, <1>6, <2>2
    <3>2. PICK F \in [0..Len(seqs) -> Seq(C)] :
            /\ F[0] = <<>>
            /\ \A i \in 1..Len(seqs) : F[i] = F[i - 1] \o seqs[i]
            /\ FlattenSeq(seqs) = F[Len(seqs)]
      BY <1>6, <3>1, FlattenIs
    <3>3. \A i \in 1..n : seqs[i] = quoted(i)
      BY <1>5
    <3>4. QED
      BY <1>6, <3>2, <3>3
  <2>3. QED
    BY <2>1, <2>2
<1> DEFINE f == [i \in 0..n |-> mark \o F[i]]
<1>8. \A i \in 0..n : f[i] = mark \o F[i] /\ F[i] \in Seq(C)
  BY <1>7
<1>9. f \in [0..n -> Seq(C)]
  <2>1. \A i \in 0..n : mark \o F[i] \in Seq(C)
    BY <1>3, <1>8
  <2>2. QED
    BY <2>1
<1> HIDE DEF f
<1>10. f[0] = mark
  <2>1. f[0] = mark \o F[0]
    BY <1>1, <1>8
  <2>2. \A e : e = <<>> => mark \o e = mark
    BY <1>3, ConcatEmptySeq
  <2>3. QED
    BY <1>7, <2>1, <2>2
<1>11. ASSUME NEW i \in 1..n PROVE f[i] = f[i - 1] \o quoted(i)
  <2>1. i \in 0..n /\ i - 1 \in 0..n
    BY <1>1
  <2>2. f[i] = mark \o (F[i - 1] \o quoted(i)) /\ f[i - 1] = mark \o F[i - 1]
        /\ F[i - 1] \in Seq(C)
    BY <1>7, <1>8, <2>1
  <2>3. (mark \o F[i - 1]) \o quoted(i) = mark \o (F[i - 1] \o quoted(i))
    <3> DEFINE a == F[i - 1]
               b == quoted(i)
    <3>1. a \in Seq(C) /\ b \in Seq(C) /\ mark \in Seq(C)
      BY <1>3, <1>4, <2>2
    <3> HIDE DEF a, b
    <3>2. (mark \o a) \o b = mark \o (a \o b)
      BY <3>1, ConcatAssociative
    <3>3. QED
      BY <3>2 DEF a, b
  <2>4. QED
    BY <2>2, <2>3
<1>12. to_sql_literal(param) = f[n] \o mark
  <2>1. f[n] = mark \o F[n]
    BY <1>1, <1>8
  <2> DEFINE flat == FlattenSeq(seqs)
  <2>2. to_sql_literal(param) = mark \o flat \o mark /\ flat = F[n]
    BY <1>2, <1>7
  <2> HIDE DEF flat
  <2>3. QED
    BY <2>1, <2>2
<1>13. QED
  BY <1>9, <1>10, <1>11, <1>12 DEF n, text, quoted, mark

LEMMA LiteralTyped ==
  ASSUME NEW C, "'" \in C, NEW param, param.text \in Seq(C)
  PROVE  to_sql_literal(param) \in Seq(C)
<1>1. CASE param.str
  <2>1. PICK f \in [0..Len(param.text) -> Seq(C)] :
          to_sql_literal(param) = f[Len(param.text)] \o <<"'">>
    BY <1>1, LiteralIs
  <2>2. f[Len(param.text)] \in Seq(C) /\ <<"'">> \in Seq(C)
    BY <2>1, OneLong
  <2>3. QED
    BY <2>1, <2>2
<1>2. CASE ~param.str
  BY <1>2 DEF to_sql_literal
<1>3. QED
  BY <1>1, <1>2

LEMMA Glue ==
  \A a, b, c \in Seq(Chars) : a \o (b \o c) = (a \o b) \o c /\ a \o b \in Seq(Chars)
  BY ConcatAssociative

\* The parameters take their places one after the other.
LEMMA QueryIs ==
  ASSUME NEW sql \in Seq(Chars), NEW params, NEW n \in Nat, DOMAIN params = 1..n,
         \A k \in 1..n : to_sql_literal(params[k]) \in Seq(Chars)
  PROVE  \E c \in [0..n -> Seq(Chars)] :
           /\ c[0] = Append(sql, ";") /\ c[n] = build_query(sql, params)
           /\ \A k \in 1..n : c[k] = PutFirst(c[k - 1], to_sql_literal(params[k]))
<1> DEFINE A == Seq(Chars)
           base == Append(sql, ";")
           lit(k) == to_sql_literal(params[k])
           op == [p \in A \X (1..n) |-> PutFirst(p[1], lit(p[2]))]
           Solves(g) ==
             g = [s \in SUBSET DOMAIN params |->
                    IF s = {} THEN base
                    ELSE PutFirst(g[s \ {Max(s)}], to_sql_literal(params[Max(s)]))]
           h == CHOOSE g : Solves(g)
<1>1. base \in A
  <2>1. ";" \in Chars
    BY SqlsAssumption
  <2>2. \A x \in Chars : Append(sql, x) \in Seq(Chars)
    OBVIOUS
  <2>3. QED
    BY <2>1, <2>2
<1>2. build_query(sql, params) = h[DOMAIN params]
  BY DEF build_query, FoldLeft, MapThenFoldSet
<1>3. \A k \in 1..n : lit(k) \in A
  OBVIOUS
<1> HIDE DEF lit
<1>4. op \in [A \X (1..n) -> A]
  BY <1>3, PutFirstTyped
<1>5. \A a \in A, k \in 1..n : op[<<a, k>>] = PutFirst(a, lit(k))
  OBVIOUS
<1> HIDE DEF op, A, base
<1>6. PICK g : Folds(g, n, A, base, op)
  BY <1>1, <1>4, FoldExists
<1>7. Solves(g)
  <2>1. ASSUME NEW s \in SUBSET (1..n)
        PROVE  g[s] = IF s = {} THEN base ELSE PutFirst(g[s \ {Max(s)}], lit(Max(s)))
    <3>1. CASE s = {}
      BY <1>6, <3>1 DEF Folds
    <3>2. CASE s # {}
      <4>1. Max(s) \in 1..n
        BY <3>2, LastIn
      <4>2. g[s \ {Max(s)}] \in A
        BY <1>6 DEF Folds
      <4>3. g[s] = op[<<g[s \ {Max(s)}], Max(s)>>]
        BY <1>6, <3>2 DEF Folds
      <4>4. QED
        BY <1>5, <3>2, <4>1, <4>2, <4>3
    <3>3. QED
      BY <3>1, <3>2
  <2>2. g = [s \in SUBSET (1..n) |-> g[s]]
    BY <1>6 DEF Folds
  <2>3. QED
    BY <2>1, <2>2 DEF lit
<1>8. Solves(h)
  <2> HIDE DEF Solves
  <2>1. QED
    BY <1>7
<1> HIDE DEF h
<1>9. \A s \in SUBSET (1..n) :
        h[s] = IF s = {} THEN base ELSE PutFirst(h[s \ {Max(s)}], lit(Max(s)))
  BY <1>8 DEF lit
<1> HIDE DEF Solves
<1> DEFINE c == [i \in 0..n |-> h[1..i]]
<1>10. c[0] = base
  <2>1. 1..0 = {} /\ 0 \in 0..n /\ {} \in SUBSET (1..n)
    OBVIOUS
  <2>2. h[1..0] = base
    BY <1>9, <2>1
  <2>3. QED
    BY <2>1, <2>2
<1>11. ASSUME NEW i \in 1..n PROVE c[i] = PutFirst(c[i - 1], lit(i))
  <2>1. 1..i \in SUBSET (1..n) /\ 1..i # {} /\ Max(1..i) = i /\ (1..i) \ {i} = 1..(i - 1)
    BY Rows1To
  <2>2. h[1..i] = PutFirst(h[1..(i - 1)], lit(i))
    BY <1>9, <2>1
  <2>3. i \in 0..n /\ i - 1 \in 0..n
    OBVIOUS
  <2>4. c[i] = h[1..i] /\ c[i - 1] = h[1..(i - 1)]
    BY <2>3
  <2> HIDE DEF c
  <2>5. QED
    BY <2>2, <2>4
<1>12. c = [i \in 0..n |-> c[i]] /\ c[n] = h[1..n]
  OBVIOUS
<1> HIDE DEF c
<1>13. \A i \in 1..n : c[i - 1] \in A => c[i] \in A
  BY <1>3, <1>11, PutFirstTyped DEF A
<1>14. c \in [0..n -> A]
  BY <1>1, <1>10, <1>12, <1>13, ChainTyped
<1>15. QED
  BY <1>2, <1>10, <1>11, <1>12, <1>14 DEF A, base, lit

\* Where a string parameter is put the server reads it, and waits for what is
\* behind its closing quote.
LEMMA ReadsString ==
  ASSUME NEW start \in Seq(Chars), NEW param, param.text \in Seq(Chars), param.str,
         Reading(start).at = "plain"
  PROVE  Reading(start \o to_sql_literal(param)) =
           [at |-> "quote", text |-> param.text, out |-> Reading(start).out]
<1> DEFINE text == param.text
           n == Len(text)
           out == Reading(start).out
           read(i) == [at |-> "string", text |-> SubSeq(text, 1, i), out |-> out]
           Quoted(x) == IF x = "'" THEN <<"'", "'">> ELSE <<x>>
           mark == <<"'">>
<1>1. "'" \in Chars
  BY SqlsAssumption
<1>2. PICK f \in [0..n -> Seq(Chars)] :
        /\ f[0] = mark
        /\ \A i \in 1..n : f[i] = f[i - 1] \o Quoted(text[i])
        /\ to_sql_literal(param) = f[n] \o mark
  BY <1>1, LiteralIs
<1>3. text \in Seq(Chars) /\ n \in Nat /\ \A i \in 1..n : text[i] \in Chars
  OBVIOUS
<1>4. mark \in Seq(Chars)
  BY <1>1, OneLong
<1>5. Reading(start) \in States /\ Reading(start).at = "plain"
  BY ReadingTyped
<1> HIDE DEF text, n
<1>6. Reading(start \o mark) = read(0)
  <2>1. Reading(start \o mark) = Scans(Reading(start), "'")
    BY <1>1, ReadingNext
  <2>2. Scans(Reading(start), "'") = [Reading(start) EXCEPT !.at = "string", !.text = <<>>]
    BY <1>5 DEF Scans
  <2>3. SubSeq(text, 1, 0) = <<>>
    BY SubSeqEmpty
  <2>4. QED
    BY <1>5, <2>1, <2>2, <2>3 DEF States
<1>7. ASSUME NEW i \in 1..n, Reading(start \o f[i - 1]) = read(i - 1)
      PROVE  Reading(start \o f[i]) = read(i)
  <2> DEFINE x == text[i]
             before == start \o f[i - 1]
  <2>1. x \in Chars /\ f[i - 1] \in Seq(Chars)
    BY <1>2, <1>3
  <2>2. before \in Seq(Chars) /\ Reading(before) = read(i - 1)
    BY <1>7, <2>1
  <2>3. SubSeq(text, 1, i) = Append(SubSeq(text, 1, i - 1), x)
    BY <1>3 DEF n
  <2>4. ASSUME NEW q, q \in Seq(Chars) PROVE start \o (f[i - 1] \o q) = before \o q
    BY <2>1, <2>4, Glue
  <2>5. Quoted(x) \in Seq(Chars)
    BY <1>1, <2>1
  <2>6. start \o f[i] = before \o Quoted(x)
    BY <1>2, <2>4, <2>5
  <2> HIDE DEF before
  <2>7. CASE x = "'"
    <3>1. before \o Quoted(x) = (before \o mark) \o mark
      <4>1. Quoted(x) = mark \o mark
        BY <2>7
      <4> HIDE DEF mark, Quoted
      <4>2. before \o (mark \o mark) = (before \o mark) \o mark
        BY <1>4, <2>2, Glue
      <4>3. QED
        BY <4>1, <4>2
    <3>2. before \o mark \in Seq(Chars)
      BY <1>4, <2>2
    <3>3. Reading(before \o mark) = Scans(read(i - 1), "'")
      BY <1>1, <2>2, ReadingNext
    <3>4. Scans(read(i - 1), "'") = [read(i - 1) EXCEPT !.at = "quote"]
      BY DEF Scans
    <3>5. Reading((before \o mark) \o mark) = Scans([read(i - 1) EXCEPT !.at = "quote"], "'")
      <4> DEFINE half == before \o mark
      <4>1. half \in Seq(Chars) /\ Reading(half) = [read(i - 1) EXCEPT !.at = "quote"]
        BY <3>2, <3>3, <3>4
      <4> HIDE DEF half, read
      <4>2. Reading(half \o <<"'">>) = Scans(Reading(half), "'")
        BY <1>1, <4>1, ReadingNext
      <4>3. QED
        BY <4>1, <4>2 DEF half
    <3>6. Scans([read(i - 1) EXCEPT !.at = "quote"], "'") = read(i)
      BY <2>3, <2>7 DEF Scans
    <3>7. QED
      BY <2>6, <3>1, <3>5, <3>6
  <2>8. CASE x # "'"
    <3>1. Reading(before \o <<x>>) = Scans(read(i - 1), x)
      BY <2>1, <2>2, ReadingNext
    <3>2. Scans(read(i - 1), x) = read(i)
      BY <2>3, <2>8 DEF Scans
    <3>3. QED
      BY <2>6, <2>8, <3>1, <3>2
  <2>9. QED
    BY <2>7, <2>8
<1>8. Reading(start \o f[n]) = read(n)
  <2> DEFINE T == {i \in 0..n : Reading(start \o f[i]) = read(i)}
  <2>1. 0 \in T
    <3> HIDE DEF read, mark
    <3>1. 0 \in 0..n /\ Reading(start \o f[0]) = read(0)
      BY <1>2, <1>3, <1>6
    <3>2. QED
      BY <3>1
  <2>2. ASSUME NEW i \in 1..n, i - 1 \in T
        PROVE  i \in T
    <3>1. Reading(start \o f[i - 1]) = read(i - 1)
      BY <2>2
    <3>2. Reading(start \o f[i]) = read(i)
      BY <1>7, <3>1
    <3>3. i \in 0..n
      BY <1>3
    <3> HIDE DEF read
    <3>4. QED
      BY <3>2, <3>3
  <2> HIDE DEF T
  <2>3. \A i \in 0..n : i \in T
    BY <1>3, <2>1, <2>2, InductionTo
  <2>4. n \in T
    BY <1>3, <2>3
  <2>5. QED
    BY <2>4 DEF T
<1>9. start \o to_sql_literal(param) = (start \o f[n]) \o mark /\ start \o f[n] \in Seq(Chars)
  <2>1. f[n] \in Seq(Chars)
    BY <1>2, <1>3
  <2> HIDE DEF mark
  <2> DEFINE most == f[n]
  <2>2. to_sql_literal(param) = most \o mark /\ most \in Seq(Chars)
    BY <1>2, <2>1
  <2> HIDE DEF most
  <2>3. start \o (most \o mark) = (start \o most) \o mark /\ start \o most \in Seq(Chars)
    BY <1>4, <2>2, Glue
  <2>4. QED
    BY <2>2, <2>3 DEF most
<1>10. Reading((start \o f[n]) \o mark) = Scans(read(n), "'")
  BY <1>1, <1>8, <1>9, ReadingNext
<1>11. Scans(read(n), "'") = [read(n) EXCEPT !.at = "quote"]
  BY DEF Scans
<1>12. SubSeq(text, 1, n) = text
  BY <1>3, SubSeqFull DEF n
<1>13. QED
  BY <1>9, <1>10, <1>11, <1>12 DEF text

\* How many placeholders are among the first j characters.
Marks(text, j) == Cardinality({k \in 1..j : text[k] = "?"})

LEMMA MarksAre ==
  ASSUME NEW text
  PROVE  /\ Marks(text, 0) = 0
         /\ \A j \in Nat : Marks(text, j) \in Nat
         /\ \A j \in Nat \ {0} : Marks(text, j) = Marks(text, j - 1) + IF text[j] = "?" THEN 1 ELSE 0
<1> DEFINE S(j) == {k \in 1..j : text[k] = "?"}
<1>1. \A j \in Nat : IsFiniteSet(S(j)) /\ Cardinality(S(j)) \in Nat
  <2>1. SUFFICES ASSUME NEW j \in Nat PROVE IsFiniteSet(S(j)) /\ Cardinality(S(j)) \in Nat
    OBVIOUS
  <2>2. IsFiniteSet(1..j) /\ S(j) \subseteq 1..j
    BY FS_Interval
  <2>3. IsFiniteSet(S(j))
    BY <2>2, FS_Subset
  <2>4. QED
    BY <2>3, FS_CardinalityType
<1>2. Marks(text, 0) = 0
  <2>1. S(0) = {}
    OBVIOUS
  <2>2. QED
    BY <2>1, FS_EmptySet DEF Marks
<1>3. ASSUME NEW j \in Nat \ {0}
      PROVE  Marks(text, j) = Marks(text, j - 1) + IF text[j] = "?" THEN 1 ELSE 0
  <2>1. j - 1 \in Nat /\ j \notin S(j - 1)
    OBVIOUS
  <2>2. IsFiniteSet(S(j - 1)) /\ Cardinality(S(j - 1)) \in Nat
    BY <1>1, <2>1
  <2>3. CASE text[j] = "?"
    <3>1. S(j) = S(j - 1) \cup {j}
      BY <2>3
    <3>2. Cardinality(S(j - 1) \cup {j}) = Cardinality(S(j - 1)) + 1
      <4> DEFINE R == S(j - 1)
      <4>1. IsFiniteSet(R) /\ j \notin R
        BY <2>1, <2>2
      <4> HIDE DEF R
      <4>2. Cardinality(R \cup {j}) = Cardinality(R) + 1
        BY <4>1, FS_AddElement
      <4>3. QED
        BY <4>2 DEF R
    <3>3. QED
      BY <2>3, <3>1, <3>2 DEF Marks
  <2>4. CASE text[j] # "?"
    <3>1. S(j) = S(j - 1)
      BY <2>4
    <3> DEFINE c == Cardinality(S(j - 1))
    <3>2. Marks(text, j) = c /\ Marks(text, j - 1) = c /\ c \in Nat
      BY <2>2, <3>1 DEF Marks
    <3> HIDE DEF c
    <3>3. QED
      BY <2>4, <3>2
  <2>5. QED
    BY <2>3, <2>4
<1>4. QED
  BY <1>1, <1>2, <1>3 DEF Marks

\* The server has read what the first p of the tokens say.
Stands(state, tokens, p) ==
  \/ state.at = "plain" /\ state.out = SubSeq(tokens, 1, p)
  \/ state.at = "quote" /\ Append(state.out, Token(TRUE, state.text)) = SubSeq(tokens, 1, p)

LEMMA OneMore ==
  ASSUME NEW S, NEW tokens \in Seq(S), NEW p \in 1..Len(tokens)
  PROVE  SubSeq(tokens, 1, p) = Append(SubSeq(tokens, 1, p - 1), tokens[p])
  OBVIOUS

LEMMA StandsNext ==
  ASSUME NEW S, NEW tokens \in Seq(S), NEW p \in 1..Len(tokens), NEW state \in States,
         Stands(state, tokens, p - 1), NEW x \in Chars \ {"'"}, tokens[p] = Token(FALSE, <<x>>)
  PROVE  Scans(state, x).at = "plain" /\ Scans(state, x).out = SubSeq(tokens, 1, p)
<1>1. SubSeq(tokens, 1, p) = Append(SubSeq(tokens, 1, p - 1), tokens[p])
  BY OneMore
<1>2. CASE state.at = "plain"
  <2>1. state.out = SubSeq(tokens, 1, p - 1)
    BY <1>2 DEF Stands
  <2>2. Scans(state, x) = [state EXCEPT !.out = Append(state.out, Token(FALSE, <<x>>))]
    BY <1>2 DEF Scans
  <2>3. QED
    BY <1>1, <1>2, <2>1, <2>2 DEF States
<1>3. CASE state.at = "quote"
  <2> DEFINE a == Token(TRUE, state.text)
             b == Token(FALSE, <<x>>)
             Tokens == [str : BOOLEAN, text : Seq(Chars)]
  <2>1. Append(state.out, a) = SubSeq(tokens, 1, p - 1)
    BY <1>3 DEF Stands
  <2>2. Scans(state, x) = [state EXCEPT !.at = "plain", !.out = state.out \o <<a, b>>]
    BY <1>3 DEF Scans
  <2>3. state.out \in Seq(Tokens) /\ state.text \in Seq(Chars)
    BY DEF States
  <2>4. a \in Tokens /\ b \in Tokens
    <3>1. <<x>> \in Seq(Chars)
      BY OneLong
    <3>2. QED
      BY <2>3, <3>1 DEF Token
  <2> HIDE DEF a, b, Tokens
  <2> DEFINE out == state.out
  <2>5. out \in Seq(Tokens)
    BY <2>3
  <2> HIDE DEF out
  <2>6. out \o <<a, b>> = Append(Append(out, a), b)
    BY <2>4, <2>5
  <2>7. QED
    BY <1>1, <2>1, <2>2, <2>6 DEF out, b, States
<1>4. QED
  BY <1>2, <1>3 DEF Stands

\* Between two parameters the server reads characters.
LEMMA StandsRest ==
  ASSUME NEW S, NEW tokens \in Seq(S), NEW text \in Seq(Chars \ {"'"}), Len(text) = Len(tokens),
         NEW p \in 0..Len(tokens), NEW m \in p..Len(tokens), NEW start \in Seq(Chars),
         Stands(Reading(start), tokens, p),
         \A j \in (p + 1)..m : tokens[j] = Token(FALSE, <<text[j]>>)
  PROVE  /\ Stands(Reading(start \o SubSeq(text, p + 1, m)), tokens, m)
         /\ m > p => Reading(start \o SubSeq(text, p + 1, m)).at = "plain"
<1> DEFINE n == m - p
           Upto(i) == start \o SubSeq(text, p + 1, p + i)
           T == {i \in 0..n : /\ Stands(Reading(Upto(i)), tokens, p + i)
                              /\ i > 0 => Reading(Upto(i)).at = "plain"}
<1>1. n \in Nat /\ m = p + n
  OBVIOUS
<1>2. text \in Seq(Chars) /\ Len(text) \in Nat /\ Len(text) = Len(tokens)
      /\ \A j \in 1..Len(text) : text[j] \in Chars \ {"'"}
  OBVIOUS
<1>3. \A i \in 0..n : SubSeq(text, p + 1, p + i) \in Seq(Chars)
  BY <1>2
<1>4. 0 \in T
  <2>1. SubSeq(text, p + 1, p + 0) = <<>>
    BY SubSeqEmpty
  <2>2. \A e : e = <<>> => start \o e = start
    BY ConcatEmptySeq
  <2>3. Upto(0) = start
    BY <2>1, <2>2
  <2> HIDE DEF Upto
  <2>4. QED
    BY <1>1, <2>3
<1>5. ASSUME NEW i \in 1..n, i - 1 \in T
      PROVE  i \in T
  <2> DEFINE x == text[p + i]
             before == Upto(i - 1)
             done == SubSeq(text, p + 1, p + (i - 1))
             next == SubSeq(text, p + 1, p + i)
  <2>1. p + i \in 1..Len(tokens) /\ p + i \in (p + 1)..m /\ i - 1 \in 0..n
    BY <1>1
  <2>2. x \in Chars \ {"'"} /\ tokens[p + i] = Token(FALSE, <<x>>)
    BY <1>2, <2>1
  <2>3. next = done \o <<x>>
    <3>1. p + 1 \in 1..Len(text) /\ p + i \in (p + 1)..Len(text) /\ p + (i - 1) = (p + i) - 1
      BY <1>1, <1>2, <2>1
    <3>2. QED
      BY <1>2, <3>1, SubSeqRecursiveSecond
  <2>4. done \in Seq(Chars) /\ <<x>> \in Seq(Chars)
    BY <1>3, <2>1, <2>2, OneLong
  <2>5. before \in Seq(Chars) /\ Upto(i) = before \o <<x>>
    <3> HIDE DEF done, next, x
    <3>1. start \o (done \o <<x>>) = (start \o done) \o <<x>> /\ start \o done \in Seq(Chars)
      BY <2>4, Glue
    <3>2. QED
      BY <2>3, <3>1 DEF done, next
  <2>6. Stands(Reading(before), tokens, p + (i - 1))
    BY <1>5
  <2> HIDE DEF before, Upto, x
  <2>7. Reading(before) \in States /\ Reading(Upto(i)) = Scans(Reading(before), x)
    BY <2>2, <2>5, ReadingNext
  <2> DEFINE k == p + i
  <2>8. k \in 1..Len(tokens) /\ Stands(Reading(before), tokens, k - 1) /\ tokens[k] = Token(FALSE, <<x>>)
    <3>1. k - 1 = p + (i - 1)
      BY <1>1
    <3>2. QED
      BY <2>1, <2>2, <2>6, <3>1
  <2> HIDE DEF k
  <2>9. Scans(Reading(before), x).at = "plain" /\ Scans(Reading(before), x).out = SubSeq(tokens, 1, k)
    BY <2>2, <2>7, <2>8, StandsNext
  <2>10. Stands(Reading(Upto(i)), tokens, p + i) /\ Reading(Upto(i)).at = "plain"
    BY <2>7, <2>9 DEF Stands, k
  <2>11. i \in 0..n
    BY <1>1
  <2>12. QED
    BY <2>10, <2>11
<1> HIDE DEF T
<1>6. \A i \in 0..n : i \in T
  BY <1>1, <1>4, <1>5, InductionTo
<1>7. n \in T
  BY <1>1, <1>6
<1>8. QED
  BY <1>1, <1>7 DEF T

\* A parameter is read as its token.
LEMMA StandsLiteral ==
  ASSUME NEW S, NEW tokens \in Seq(S), NEW p \in 1..Len(tokens), NEW start \in Seq(Chars),
         Reading(start).at = "plain", Reading(start).out = SubSeq(tokens, 1, p - 1),
         NEW param \in Params, tokens[p] = Token(param.str, param.text)
  PROVE  /\ Stands(Reading(start \o to_sql_literal(param)), tokens, p)
         /\ to_sql_literal(param) \in Seq(Chars)
<1>1. SubSeq(tokens, 1, p) = Append(SubSeq(tokens, 1, p - 1), tokens[p])
  BY OneMore
<1>2. param.str \in BOOLEAN /\ param.text \in Seq(Chars)
      /\ (~param.str => Len(param.text) = 1 /\ param.text[1] # "'")
  BY ParamsAssumption
<1>3. "'" \in Chars
  BY SqlsAssumption
<1>4. to_sql_literal(param) \in Seq(Chars)
  BY <1>2, <1>3, LiteralTyped
<1>5. CASE param.str
  <2>1. Reading(start \o to_sql_literal(param)) =
          [at |-> "quote", text |-> param.text, out |-> Reading(start).out]
    BY <1>2, <1>5, ReadsString
  <2>2. Token(param.str, param.text) = Token(TRUE, param.text)
    BY <1>2, <1>5 DEF Token
  <2> DEFINE end == Reading(start \o to_sql_literal(param))
  <2>3. end.at = "quote" /\ end.text = param.text /\ end.out = SubSeq(tokens, 1, p - 1)
    BY <2>1
  <2> HIDE DEF end
  <2>4. Append(end.out, Token(TRUE, end.text)) = SubSeq(tokens, 1, p)
    BY <1>1, <2>2, <2>3
  <2>5. Stands(end, tokens, p)
    BY <2>3, <2>4 DEF Stands
  <2>6. QED
    BY <1>4, <2>5 DEF end
<1>6. CASE ~param.str
  <2> DEFINE x == param.text[1]
  <2>1. to_sql_literal(param) = param.text
    BY <1>6 DEF to_sql_literal
  <2>2. x \in Chars /\ x # "'" /\ param.text = <<x>>
    BY <1>2, <1>6
  <2> HIDE DEF x
  <2>3. Token(param.str, param.text) = Token(FALSE, <<x>>)
    BY <1>2, <1>6, <2>2 DEF Token
  <2>4. Reading(start) \in States /\ Reading(start \o <<x>>) = Scans(Reading(start), x)
    BY <2>2, ReadingNext
  <2>5. Stands(Reading(start), tokens, p - 1)
    BY DEF Stands
  <2>6. Scans(Reading(start), x).at = "plain" /\ Scans(Reading(start), x).out = SubSeq(tokens, 1, p)
    BY <2>2, <2>3, <2>4, <2>5, StandsNext
  <2>7. Stands(Reading(start \o <<x>>), tokens, p)
    BY <2>4, <2>6 DEF Stands
  <2>8. QED
    BY <1>4, <2>1, <2>2, <2>7
<1>7. QED
  BY <1>2, <1>5, <1>6

LEMMA MarksBetween ==
  ASSUME NEW text, NEW p \in Nat, NEW m \in Nat, p <= m
  PROVE  /\ Marks(text, p) <= Marks(text, m)
         /\ (\A j \in (p + 1)..m : text[j] # "?") => Marks(text, m) = Marks(text, p)
<1> DEFINE n == m - p
           M(j) == Marks(text, j)
           T == {i \in 0..n : /\ M(p) <= M(p + i)
                              /\ (\A j \in (p + 1)..(p + i) : text[j] # "?") => M(p + i) = M(p)}
<1>1. n \in Nat /\ m = p + n /\ 0 \in 0..n /\ p + 0 = p
  OBVIOUS
<1>2. \A j \in Nat : M(j) \in Nat
  BY MarksAre
<1>3. \A j \in Nat \ {0} : M(j) = M(j - 1) + IF text[j] = "?" THEN 1 ELSE 0
  BY MarksAre
<1> HIDE DEF M
<1>4. 0 \in T
  BY <1>1, <1>2
<1>5. ASSUME NEW i \in 1..n, i - 1 \in T
      PROVE  i \in T
  <2>1. p + i \in Nat \ {0} /\ p + (i - 1) \in Nat /\ (p + i) - 1 = p + (i - 1)
    OBVIOUS
  <2>2. M(p + i) = M(p + (i - 1)) + IF text[p + i] = "?" THEN 1 ELSE 0
    BY <1>3, <2>1
  <2>3. M(p + i) \in Nat /\ M(p + (i - 1)) \in Nat /\ M(p) \in Nat
    BY <1>2, <2>1
  <2>4. /\ M(p) <= M(p + (i - 1))
        /\ (\A j \in (p + 1)..(p + (i - 1)) : text[j] # "?") => M(p + (i - 1)) = M(p)
    BY <1>5
  <2>5. M(p) <= M(p + i)
    BY <2>2, <2>3, <2>4
  <2>6. ASSUME \A j \in (p + 1)..(p + i) : text[j] # "?"
        PROVE  M(p + i) = M(p)
    <3>1. text[p + i] # "?" /\ \A j \in (p + 1)..(p + (i - 1)) : text[j] # "?"
      BY <1>1, <2>6
    <3>2. QED
      BY <2>2, <2>3, <2>4, <3>1
  <2>7. i \in 0..n
    BY <1>1
  <2>8. QED
    BY <2>5, <2>6, <2>7
<1> HIDE DEF T
<1>6. \A i \in 0..n : i \in T
  BY <1>1, <1>4, <1>5, InductionTo
<1>7. n \in T
  BY <1>1, <1>6
<1>8. QED
  BY <1>1, <1>7 DEF T, M

LEMMA FunctionIsSeq ==
  ASSUME NEW C, NEW n \in Nat, NEW f, f = [j \in 1..n |-> f[j]], \A j \in 1..n : f[j] \in C
  PROVE  f \in Seq(C) /\ Len(f) = n
  OBVIOUS

LEMMA AppendIs ==
  ASSUME NEW C, NEW s \in Seq(C), NEW x \in C
  PROVE  /\ Append(s, x) \in Seq(C) /\ Len(Append(s, x)) = Len(s) + 1
         /\ Append(s, x)[Len(s) + 1] = x
         /\ \A j \in 1..Len(s) : Append(s, x)[j] = s[j]
  OBVIOUS

LEMMA Indexes ==
  ASSUME NEW N \in Nat
  PROVE  /\ \A j \in 1..N : j \in Nat \ {0} /\ j - 1 \in Nat /\ \A k \in 1..j : k \in 1..N
         /\ \A j \in 1..(N + 1) : j \in 1..N \/ j = N + 1
         /\ \A j \in 1..N : j <= N
         /\ ~(N + 1 <= N)
  OBVIOUS

\* What stands for character j: its parameter, if it is the placeholder of one.
TokenAt(sql, params, n, j) ==
  IF sql[j] = "?" /\ Marks(sql, j) <= n
  THEN Token(params[Marks(sql, j)].str, params[Marks(sql, j)].text)
  ELSE Token(FALSE, <<sql[j]>>)

\* The first N tokens are those of the first N characters.
Reads(tokens, sql, params, n, N) == \A j \in 1..N : tokens[j] = TokenAt(sql, params, n, j)

LEMMA TokenTyped ==
  ASSUME NEW sql, NEW n \in Nat, NEW params \in [1..n -> Params], NEW j \in Nat \ {0},
         sql[j] \in Chars
  PROVE  TokenAt(sql, params, n, j) \in [str : BOOLEAN, text : Seq(Chars)]
<1> DEFINE Tokens == [str : BOOLEAN, text : Seq(Chars)]
<1>1. CASE sql[j] = "?" /\ Marks(sql, j) <= n
  <2> DEFINE param == params[Marks(sql, j)]
  <2>1. Marks(sql, j - 1) \in Nat /\ Marks(sql, j) = Marks(sql, j - 1) + 1
    <3>1. j - 1 \in Nat
      OBVIOUS
    <3>2. QED
      BY <1>1, <3>1, MarksAre
  <2>2. Marks(sql, j) \in 1..n
    BY <1>1, <2>1
  <2>3. param \in Params
    BY <2>2
  <2> HIDE DEF param
  <2>4. param.str \in BOOLEAN /\ param.text \in Seq(Chars)
    BY <2>3, ParamsAssumption
  <2>5. Token(param.str, param.text) \in Tokens
    BY <2>4 DEF Token
  <2> HIDE DEF Tokens
  <2>6. QED
    BY <1>1, <2>5 DEF param, Tokens, TokenAt
<1>2. CASE ~(sql[j] = "?" /\ Marks(sql, j) <= n)
  <2>1. <<sql[j]>> \in Seq(Chars)
    BY OneLong
  <2>2. Token(FALSE, <<sql[j]>>) \in Tokens
    BY <2>1 DEF Token
  <2> HIDE DEF Tokens
  <2>3. QED
    BY <1>2, <2>2 DEF Tokens, TokenAt
<1>3. QED
  BY <1>1, <1>2

\* Alike up to character N.
Alike(N, a, b) == \A k \in 1..N : a[k] = b[k]

LEMMA SameMarks ==
  ASSUME NEW N \in Nat, NEW a, NEW b, Alike(N, a, b)
  PROVE  \A j \in 1..N : Marks(a, j) = Marks(b, j)
<1>1. SUFFICES ASSUME NEW j \in 1..N PROVE Marks(a, j) = Marks(b, j)
  OBVIOUS
<1>2. \A k \in 1..j : k \in 1..N
  BY Indexes
<1>3. {k \in 1..j : a[k] = "?"} = {k \in 1..j : b[k] = "?"}
  BY <1>2 DEF Alike
<1>4. QED
  BY <1>3 DEF Marks

\* What ends every statement.
End == ";"
LastToken == Token(FALSE, <<End>>)

\* A statement's characters with its ";" behind them, and their tokens.
LEMMA BoundIs ==
  ASSUME NEW sql \in Seq(Chars), NEW n \in Nat, NEW params \in [1..n -> Params]
  PROVE  /\ Bound(sql, params) \in Seq([str : BOOLEAN, text : Seq(Chars)])
         /\ Len(Bound(sql, params)) = Len(sql) + 1
         /\ Reads(Bound(sql, params), sql, params, n, Len(sql))
         /\ Bound(sql, params)[Len(sql) + 1] = LastToken
<1> DEFINE Tokens == [str : BOOLEAN, text : Seq(Chars)]
           N == Len(sql)
           put(j) == TokenAt(sql, params, n, j)
           most == [j \in DOMAIN sql |-> put(j)]
           last == Token(FALSE, <<";">>)
           tokens == Bound(sql, params)
<1>1. N \in Nat /\ DOMAIN sql = 1..N /\ \A j \in 1..N : sql[j] \in Chars
  BY SeqElements
<1>2. ";" \in Chars
  BY SqlsAssumption
<1>3. Len(params) = n
  <2>1. params = [j \in 1..n |-> params[j]] /\ \A j \in 1..n : params[j] \in Params
    OBVIOUS
  <2>2. QED
    BY <2>1, FunctionIsSeq
<1>4. tokens = Append(most, last)
  BY <1>3 DEF Bound, Marks, TokenAt
<1>5. \A j \in 1..N : j \in Nat \ {0}
  <2> HIDE DEF N
  <2>1. QED
    BY <1>1, Indexes
<1>6. ASSUME NEW j \in 1..N PROVE put(j) \in Tokens
  <2>1. j \in Nat \ {0} /\ sql[j] \in Chars
    BY <1>1, <1>5
  <2>2. QED
    BY <2>1, TokenTyped
<1>7. last \in Tokens
  <2>1. <<";">> \in Seq(Chars)
    BY <1>2, OneLong
  <2>2. QED
    BY <2>1 DEF Token
<1>8. most = [j \in 1..N |-> put(j)]
  BY <1>1
<1> HIDE DEF put, Tokens, last, N, tokens
<1>9. most \in Seq(Tokens) /\ Len(most) = N /\ \A j \in 1..N : most[j] = put(j)
  <2>1. most = [j \in 1..N |-> most[j]] /\ \A j \in 1..N : most[j] = put(j) /\ most[j] \in Tokens
    BY <1>6, <1>8
  <2> HIDE DEF most
  <2>2. most \in Seq(Tokens) /\ Len(most) = N
    BY <1>1, <2>1, FunctionIsSeq
  <2>3. QED
    BY <2>1, <2>2
<1> HIDE DEF most
<1>10. /\ tokens \in Seq(Tokens) /\ Len(tokens) = N + 1
       /\ tokens[N + 1] = last /\ \A j \in 1..N : tokens[j] = put(j)
  BY <1>4, <1>7, <1>9, AppendIs
<1>11. QED
  BY <1>10 DEF Tokens, N, tokens, put, last, End, LastToken, Reads

\* No two placeholders side by side.
Apart(text) == \A j \in 1..(Len(text) - 1) : text[j] = "?" => text[j + 1] # "?"

\* The tokens are those of the text, with n of the parameters in their places.
Means(text, tokens, params, n) ==
  /\ Len(text) = Len(tokens) /\ Len(text) > 0 /\ text[Len(text)] = End /\ Apart(text)
  /\ Reads(tokens, text, params, n, Len(text))

\* No parameter with another behind it has a "?".
Clear(params, n) == \A j \in 1..(n - 1) : "?" \notin Range(params[j].text)

\* No character of a is a "?".
LEMMA NoMarks ==
  ASSUME NEW a \in Seq(Chars \ {"?"}), NEW b \in Seq(Chars \ {"?"})
  PROVE  /\ a \in Seq(Chars) /\ a \o b \in Seq(Chars \ {"?"})
         /\ "?" \notin Range(a) /\ \A j \in 1..Len(a) : a[j] # "?"
<1>1. Len(a) \in Nat /\ DOMAIN a = 1..Len(a) /\ \A j \in 1..Len(a) : a[j] \in Chars \ {"?"}
  BY SeqElements
<1>2. a \o b \in Seq(Chars \ {"?"})
  BY ChainTwo
<1>3. a \in Seq(Chars)
  OBVIOUS
<1>4. QED
  BY <1>1, <1>2, <1>3 DEF Range

LEMMA Clean ==
  ASSUME NEW a \in Seq(Chars), \A j \in 1..Len(a) : a[j] # "?"
  PROVE  a \in Seq(Chars \ {"?"})
  OBVIOUS

\* What is between two characters of a text is taken from it.
LEMMA Piece ==
  ASSUME NEW C, NEW text \in Seq(C), NEW p \in 0..Len(text), NEW m \in p..Len(text)
  PROVE  /\ SubSeq(text, p + 1, m) \in Seq(C)
         /\ Len(SubSeq(text, p + 1, m)) = m - p
         /\ \A i \in 1..(m - p) : SubSeq(text, p + 1, m)[i] = text[p + i]
         /\ m = p => SubSeq(text, p + 1, m) = <<>>
<1>1. Len(text) \in Nat /\ \A j \in 1..Len(text) : text[j] \in C
  BY SeqElements
<1>2. SubSeq(text, p + 1, m) \in Seq(C)
  OBVIOUS
<1>3. Len(SubSeq(text, p + 1, m)) = m - p
  OBVIOUS
<1>4. \A i \in 1..(m - p) : SubSeq(text, p + 1, m)[i] = text[p + i]
  OBVIOUS
<1>5. m = p => SubSeq(text, p + 1, m) = <<>>
  <2>1. m = p => m < p + 1
    BY <1>1
  <2>2. p + 1 \in Int /\ m \in Int
    BY <1>1
  <2>3. QED
    BY <2>1, <2>2, SubSeqEmpty
<1>6. QED
  BY <1>2, <1>3, <1>4, <1>5

LEMMA TakeOut ==
  ASSUME NEW text \in Seq(Chars), NEW p \in 0..Len(text), NEW j \in (p + 1)..Len(text),
         NEW done \in Seq(Chars)
  PROVE  done \o SubSeq(text, p + 1, Len(text)) =
           ((done \o SubSeq(text, p + 1, j - 1)) \o <<text[j]>>) \o SubSeq(text, j + 1, Len(text))
<1> DEFINE N == Len(text)
<1>1. N \in Nat /\ \A i \in 1..N : text[i] \in Chars
  BY SeqElements
<1>2. /\ p + 1 \in 1..(N + 1) /\ j - 1 \in ((p + 1) - 1)..N /\ N \in (j - 1)..N
      /\ j \in 1..N /\ N \in j..N /\ (j - 1) + 1 = j /\ j - 1 \in p..N /\ j \in 0..N
  BY <1>1
<1>3. SubSeq(text, p + 1, j - 1) \o SubSeq(text, (j - 1) + 1, N) = SubSeq(text, p + 1, N)
  BY <1>2, ConcatAdjacentSubSeq
<1>4. SubSeq(text, j, N) = <<text[j]>> \o SubSeq(text, j + 1, N)
  BY <1>2, SubSeqRecursiveFirst
<1>5. <<text[j]>> \in Seq(Chars)
  BY <1>1, <1>2, OneLong
<1>6. SubSeq(text, p + 1, j - 1) \in Seq(Chars) /\ SubSeq(text, j + 1, N) \in Seq(Chars)
  BY <1>2, Piece
<1> DEFINE a == SubSeq(text, p + 1, j - 1)
           b == <<text[j]>>
           d == SubSeq(text, j + 1, N)
           all0 == SubSeq(text, p + 1, N)
<1>7. a \in Seq(Chars) /\ b \in Seq(Chars) /\ d \in Seq(Chars) /\ all0 = a \o (b \o d)
  BY <1>2, <1>3, <1>4, <1>5, <1>6
<1> HIDE DEF a, b, d, all0, N
<1>8. b \o d \in Seq(Chars) /\ done \o a \in Seq(Chars)
  BY <1>7, Glue
<1>9. done \o all0 = ((done \o a) \o b) \o d
  <2>1. done \o (a \o (b \o d)) = (done \o a) \o (b \o d)
    BY <1>7, <1>8, Glue
  <2>2. (done \o a) \o (b \o d) = ((done \o a) \o b) \o d
    BY <1>7, <1>8, Glue
  <2>3. QED
    BY <1>7, <2>1, <2>2
<1>10. QED
  BY <1>9 DEF a, b, d, all0, N

LEMMA NextMark ==
  ASSUME NEW text, NEW N \in Nat, NEW p \in 0..N, \E j \in (p + 1)..N : text[j] = "?"
  PROVE  \E j \in (p + 1)..N : text[j] = "?" /\ \A i \in (p + 1)..(j - 1) : text[i] # "?"
<1> DEFINE I == {j \in (p + 1)..N : text[j] = "?"}
<1>1. I \subseteq Nat /\ I # {}
  OBVIOUS
<1>2. PICK i \in I : \A j \in I : i <= j
  <2> HIDE DEF I
  <2>1. QED
    BY <1>1, LeastNat
<1>3. i \in (p + 1)..N /\ text[i] = "?"
  OBVIOUS
<1>4. ASSUME NEW j \in (p + 1)..(i - 1) PROVE text[j] # "?"
  <2>1. j \in (p + 1)..N /\ ~(i <= j)
    BY <1>3
  <2>2. QED
    BY <1>2, <2>1
<1>5. QED
  BY <1>3, <1>4

LEMMA FirstGives ==
  ASSUME NEW a \in Seq(Chars \ {"?"}), NEW b \in Seq(Chars), NEW l \in Seq(Chars)
  PROVE  PutFirst((a \o Mark) \o b, l) = (a \o l) \o b
<1>1. a \in Seq(Chars) /\ Unmarked(a)
  BY NoMarks DEF Unmarked
<1>2. QED
  BY <1>1, PutFirstAt

\* In query, done has taken the place of the first p characters: k parameters
\* are in it, and the server has read the first p tokens there.
Placed(query, done, text, tokens, n, k, p) ==
  /\ query = done \o SubSeq(text, p + 1, Len(text))
  /\ Stands(Reading(done), tokens, p)
  /\ k < n => done \in Seq(Chars \ {"?"})
  /\ Reading(done).at = "plain" \/ (p > 0 /\ text[p] = "?")
  /\ Marks(text, p) <= k
  /\ Marks(text, p) = k \/ \A j \in (p + 1)..Len(text) : text[j] # "?"

LEMMA PlacedNext ==
  ASSUME NEW S, NEW tokens \in Seq(S), NEW text \in Seq(Chars \ {"'"}), Len(text) = Len(tokens),
         NEW n \in Nat, NEW k \in 1..n,
         NEW param \in Params, k < n => "?" \notin Range(param.text),
         \A j \in 1..Len(text) :
           text[j] = "?" /\ Marks(text, j) = k => tokens[j] = Token(param.str, param.text),
         \A j \in 1..Len(text) : text[j] # "?" => tokens[j] = Token(FALSE, <<text[j]>>),
         Apart(text),
         NEW p \in 0..Len(text), NEW done \in Seq(Chars), NEW query,
         Placed(query, done, text, tokens, n, k - 1, p)
  PROVE  \E r \in 0..Len(text), more \in Seq(Chars) :
           Placed(PutFirst(query, to_sql_literal(param)), more, text, tokens, n, k, r)
<1> DEFINE N == Len(text)
           lit == to_sql_literal(param)
<1>1. N \in Nat /\ \A j \in 1..N : text[j] \in Chars
  <2>1. \A j \in 1..N : text[j] \in Chars \ {"'"}
    BY SeqElements
  <2>2. QED
    BY <2>1, SeqElements
<1>2. text \in Seq(Chars)
  OBVIOUS
<1>3. done \in Seq(Chars \ {"?"})
  BY DEF Placed
<1>4. query = done \o SubSeq(text, p + 1, N)
  BY DEF Placed
<1>5. CASE \A j \in (p + 1)..N : text[j] # "?"
  <2> DEFINE rest == SubSeq(text, p + 1, N)
  <2>1. rest \in Seq(Chars) /\ Len(rest) = N - p /\ \A i \in 1..(N - p) : rest[i] = text[p + i]
    <3>1. N \in p..Len(text)
      BY <1>1
    <3>2. QED
      BY <1>2, <3>1, Piece
  <2>2. \A i \in 1..(N - p) : p + i \in (p + 1)..N
    BY <1>1
  <2>3. \A i \in 1..Len(rest) : rest[i] # "?"
    BY <1>5, <2>1, <2>2
  <2> HIDE DEF rest
  <2>4. rest \in Seq(Chars \ {"?"})
    BY <2>1, <2>3, Clean
  <2>5. query \in Seq(Chars \ {"?"})
    BY <1>3, <1>4, <2>4, NoMarks DEF rest
  <2>6. PutFirst(query, lit) = query
    <3>1. "?" \notin Range(query)
      BY <2>5, NoMarks
    <3>2. QED
      BY <3>1 DEF PutFirst
  <2>7. Marks(text, p) \in Nat
    BY MarksAre
  <2>8. Placed(query, done, text, tokens, n, k, p)
    BY <1>3, <1>5, <2>7 DEF Placed
  <2>9. QED
    BY <2>6, <2>8
<1>6. CASE \E j \in (p + 1)..N : text[j] = "?"
  <2>1. PICK j \in (p + 1)..N : text[j] = "?" /\ \A i \in (p + 1)..(j - 1) : text[i] # "?"
    BY <1>1, <1>6, NextMark
  <2> DEFINE mid == SubSeq(text, p + 1, j - 1)
             start == done \o mid
             rest == SubSeq(text, j + 1, N)
  <2>2. /\ j \in 1..N /\ j \in 0..N /\ j - 1 \in p..N /\ j - 1 \in Nat /\ j \in Nat \ {0}
        /\ p \in Nat /\ p <= j - 1 /\ N \in j..N
    BY <1>1
  <2>3. /\ mid \in Seq(Chars) /\ Len(mid) = (j - 1) - p
        /\ \A i \in 1..((j - 1) - p) : mid[i] = text[p + i]
        /\ j - 1 = p => mid = <<>>
    BY <1>2, <2>2, Piece
  <2>4. rest \in Seq(Chars)
    BY <1>2, <2>2, Piece
  <2>5. query = (start \o Mark) \o rest
    <3>1. done \o SubSeq(text, p + 1, Len(text)) =
            ((done \o SubSeq(text, p + 1, j - 1)) \o <<text[j]>>) \o SubSeq(text, j + 1, Len(text))
      BY <1>2, TakeOut
    <3>2. <<text[j]>> = Mark
      BY <2>1 DEF Mark
    <3>3. QED
      BY <1>4, <3>1, <3>2
  <2>6. mid \in Seq(Chars \ {"?"})
    <3>1. \A i \in 1..((j - 1) - p) : p + i \in (p + 1)..(j - 1)
      BY <2>2
    <3>2. \A i \in 1..Len(mid) : mid[i] # "?"
      BY <2>1, <2>3, <3>1
    <3> HIDE DEF mid
    <3>3. QED
      BY <2>3, <3>2, Clean
  <2>7. start \in Seq(Chars \ {"?"}) /\ start \in Seq(Chars) /\ Unmarked(start)
    <3> HIDE DEF mid
    <3>1. start \in Seq(Chars \ {"?"})
      BY <1>3, <2>6, NoMarks
    <3> HIDE DEF start
    <3>2. QED
      BY <3>1, NoMarks DEF Unmarked
  <2>8. Stands(Reading(start), tokens, j - 1) /\ (j - 1 > p => Reading(start).at = "plain")
    <3>1. \A i \in (p + 1)..(j - 1) : tokens[i] = Token(FALSE, <<text[i]>>)
      <4>1. \A i \in (p + 1)..(j - 1) : i \in 1..N
        BY <2>2
      <4>2. QED
        BY <2>1, <4>1
    <3>2. p \in 0..Len(tokens) /\ j - 1 \in p..Len(tokens)
      BY <2>2
    <3>3. Stands(Reading(done), tokens, p)
      BY DEF Placed
    <3> DEFINE m == j - 1
    <3>4. m \in p..Len(tokens) /\ \A i \in (p + 1)..m : tokens[i] = Token(FALSE, <<text[i]>>)
      BY <3>1, <3>2
    <3> HIDE DEF m
    <3>5. /\ Stands(Reading(done \o SubSeq(text, p + 1, m)), tokens, m)
          /\ m > p => Reading(done \o SubSeq(text, p + 1, m)).at = "plain"
      BY <3>2, <3>3, <3>4, StandsRest
    <3>6. QED
      BY <3>5 DEF m
  <2>9. Reading(start).at = "plain"
    <3>1. CASE j - 1 > p
      BY <2>8, <3>1
    <3>2. CASE ~(j - 1 > p)
      <4>1. j - 1 = p
        BY <2>2, <3>2
      <4>2. start = done
        <5>1. \A e : e = <<>> => done \o e = done
          BY ConcatEmptySeq
        <5>2. QED
          BY <2>3, <4>1, <5>1
      <4>3. ~(p > 0 /\ text[p] = "?")
        <5>1. p > 0 => p \in 1..(N - 1) /\ p + 1 = j
          BY <2>2, <4>1
        <5>2. QED
          BY <2>1, <5>1 DEF Apart
      <4> HIDE DEF start
      <4>4. QED
        BY <4>2, <4>3 DEF Placed
    <3>3. QED
      BY <3>1, <3>2
  <2>10. Reading(start).out = SubSeq(tokens, 1, j - 1)
    BY <2>8, <2>9 DEF Stands
  <2>11. Marks(text, j) = k
    <3>1. Marks(text, p) = k - 1
      BY <2>1 DEF Placed
    <3>2. Marks(text, j - 1) = Marks(text, p)
      BY <2>1, <2>2, MarksBetween
    <3>3. Marks(text, j) = Marks(text, j - 1) + 1
      BY <2>1, <2>2, MarksAre
    <3>4. QED
      BY <3>1, <3>2, <3>3
  <2>12. tokens[j] = Token(param.str, param.text)
    BY <2>1, <2>2, <2>11
  <2> HIDE DEF start, mid, rest, lit
  <2>13. Stands(Reading(start \o lit), tokens, j) /\ lit \in Seq(Chars)
    <3>1. j \in 1..Len(tokens)
      BY <2>2
    <3>2. QED
      BY <2>7, <2>9, <2>10, <2>12, <3>1, StandsLiteral DEF lit
  <2>14. k < n => start \o lit \in Seq(Chars \ {"?"})
    <3>1. SUFFICES ASSUME k < n PROVE start \o lit \in Seq(Chars \ {"?"})
      OBVIOUS
    <3>2. param.text \in Seq(Chars)
      BY ParamsAssumption
    <3>3. param.text \in Seq(Chars \ {"?"})
      <4> DEFINE t == param.text
      <4>1. t \in Seq(Chars) /\ "?" \notin Range(t)
        BY <3>1, <3>2
      <4> HIDE DEF t
      <4>2. \A i \in 1..Len(t) : t[i] # "?"
        BY <4>1, SeqElements DEF Range
      <4>3. t \in Seq(Chars \ {"?"})
        BY <4>1, <4>2, Clean
      <4>4. QED
        BY <4>3 DEF t
    <3>4. "'" \in Chars \ {"?"}
      BY SqlsAssumption
    <3>5. lit \in Seq(Chars \ {"?"})
      BY <3>3, <3>4, LiteralTyped DEF lit
    <3>6. QED
      BY <2>7, <3>5, NoMarks
  <2>15. PutFirst(query, lit) = (start \o lit) \o rest
    BY <2>4, <2>5, <2>7, <2>13, FirstGives
  <2>16. start \o lit \in Seq(Chars)
    BY <2>7, <2>13, Glue
  <2> DEFINE more == start \o lit
  <2>17. Placed(PutFirst(query, lit), more, text, tokens, n, k, j)
    <3>1. PutFirst(query, lit) = more \o SubSeq(text, j + 1, Len(text))
      BY <2>15 DEF rest
    <3>2. Stands(Reading(more), tokens, j) /\ (k < n => more \in Seq(Chars \ {"?"}))
      BY <2>13, <2>14
    <3> HIDE DEF more
    <3>3. j > 0 /\ text[j] = "?" /\ Marks(text, j) <= k
      BY <2>1, <2>2, <2>11
    <3>4. QED
      BY <2>11, <3>1, <3>2, <3>3 DEF Placed
  <2>18. QED
    BY <2>2, <2>16, <2>17 DEF lit
<1>7. QED
  BY <1>5, <1>6

\* After the last parameter the server has read every token.
LEMMA PlacedAll ==
  ASSUME NEW S, NEW tokens \in Seq(S), NEW text \in Seq(Chars \ {"'"}),
         NEW n \in Nat, NEW params, Means(text, tokens, params, n),
         NEW p \in 0..Len(text), NEW done \in Seq(Chars), NEW query,
         Placed(query, done, text, tokens, n, n, p)
  PROVE  Reading(query).out = tokens
<1> DEFINE N == Len(text)
<1>1. N \in Nat /\ N > 0 /\ N = Len(tokens)
  BY SeqElements DEF Means
<1>2. ASSUME NEW j \in (p + 1)..N
      PROVE  tokens[j] = Token(FALSE, <<text[j]>>)
  <2>1. j \in 1..N /\ j - 1 \in Nat /\ p \in Nat /\ p <= j - 1 /\ j \in Nat \ {0}
    BY <1>1
  <2>2. CASE text[j] = "?"
    <3>1. Marks(text, p) = n
      BY <2>2 DEF Placed
    <3>2. Marks(text, p) <= Marks(text, j - 1)
      BY <2>1, MarksBetween
    <3>3. Marks(text, j) = Marks(text, j - 1) + 1 /\ Marks(text, j - 1) \in Nat
      BY <2>1, <2>2, MarksAre
    <3>4. ~(Marks(text, j) <= n)
      BY <3>1, <3>2, <3>3
    <3>5. QED
      BY <2>1, <3>4 DEF TokenAt, Means, Reads
  <2>3. CASE text[j] # "?"
    BY <2>1, <2>3 DEF TokenAt, Means, Reads
  <2>4. QED
    BY <2>2, <2>3
<1>3. Len(text) = Len(tokens)
  BY DEF Means
<1>4. query = done \o SubSeq(text, p + 1, N) /\ Stands(Reading(done), tokens, p)
  BY DEF Placed
<1>5. p \in 0..Len(tokens) /\ N \in p..Len(tokens)
  BY <1>1
<1>6. Stands(Reading(query), tokens, N) /\ (N > p => Reading(query).at = "plain")
  <2> HIDE DEF N
  <2>1. /\ Stands(Reading(done \o SubSeq(text, p + 1, N)), tokens, N)
        /\ N > p => Reading(done \o SubSeq(text, p + 1, N)).at = "plain"
    BY <1>2, <1>4, <1>5, <1>3, StandsRest
  <2>2. QED
    BY <1>4, <2>1
<1>7. Reading(query).at = "plain"
  <2>1. CASE N > p
    BY <1>6, <2>1
  <2>2. CASE ~(N > p)
    <3>1. p = N
      BY <1>1, <2>2
    <3>2. SubSeq(text, p + 1, N) = <<>>
      <4>1. N < p + 1 /\ p + 1 \in Int /\ N \in Int
        BY <1>1, <3>1
      <4>2. QED
        BY <4>1, SubSeqEmpty
    <3>3. \A e : e = <<>> => done \o e = done
      BY ConcatEmptySeq
    <3>4. query = done
      BY <1>4, <3>2, <3>3
    <3>5. ~(p > 0 /\ text[p] = "?")
      BY <3>1 DEF End, Means
    <3>6. QED
      BY <3>4, <3>5 DEF Placed
  <2>3. QED
    BY <2>1, <2>2
<1>8. Reading(query).out = SubSeq(tokens, 1, N)
  BY <1>6, <1>7 DEF Stands
<1>9. SubSeq(tokens, 1, Len(tokens)) = tokens
  BY SubSeqFull
<1>10. QED
  BY <1>1, <1>8, <1>9

\* What is behind the last character of a text.
LEMMA EndIs ==
  ASSUME NEW C, NEW sql \in Seq(C), NEW end \in C, NEW m, end # m,
         \A j \in 1..(Len(sql) - 1) : sql[j] = m => sql[j + 1] # m,
         NEW text, text = Append(sql, end)
  PROVE  /\ text \in Seq(C) /\ Len(text) = Len(sql) + 1 /\ Len(sql) \in Nat
         /\ text[Len(sql) + 1] = end /\ \A j \in 1..Len(sql) : text[j] = sql[j]
         /\ \A j \in 1..(Len(text) - 1) : text[j] = m => text[j + 1] # m
<1> DEFINE N == Len(sql)
<1>1. N \in Nat
  BY SeqElements
<1>2. /\ text \in Seq(C) /\ Len(text) = N + 1 /\ text[N + 1] = end
      /\ \A j \in 1..N : text[j] = sql[j]
  BY AppendIs
<1>3. \A j \in 1..(N - 1) : sql[j] = m => sql[j + 1] # m
  OBVIOUS
<1> HIDE DEF N
<1>4. ASSUME NEW j \in 1..N, text[j] = m PROVE text[j + 1] # m
  <2>1. CASE j = N
    BY <1>2, <2>1
  <2>2. CASE j # N
    <3>1. j \in 1..(N - 1) /\ j + 1 \in 1..N
      BY <1>1, <2>2
    <3>2. sql[j] = m
      BY <1>2, <1>4
    <3>3. QED
      BY <1>2, <1>3, <3>1, <3>2
  <2>3. QED
    BY <2>1, <2>2
<1>5. Len(text) - 1 = N
  BY <1>1, <1>2
<1>6. QED
  BY <1>1, <1>2, <1>4, <1>5 DEF N

LEMMA TokensOfText ==
  ASSUME NEW N \in Nat, NEW n, NEW params, NEW sql, NEW text, NEW tokens,
         Alike(N, text, sql), text[N + 1] = End,
         Reads(tokens, sql, params, n, N), tokens[N + 1] = LastToken
  PROVE  Reads(tokens, text, params, n, N + 1)
<1>1. SUFFICES ASSUME NEW j \in 1..(N + 1)
               PROVE  tokens[j] = TokenAt(text, params, n, j)
  BY DEF Reads
<1>2. CASE j \in 1..N
  <2>1. \A i \in 1..N : Marks(text, i) = Marks(sql, i)
    BY SameMarks
  <2>2. text[j] = sql[j] /\ Marks(text, j) = Marks(sql, j)
    BY <1>2, <2>1 DEF Alike
  <2>3. TokenAt(text, params, n, j) = TokenAt(sql, params, n, j)
    BY <2>2 DEF TokenAt
  <2>4. QED
    BY <1>2, <2>3 DEF Reads
<1>3. CASE j = N + 1
  <2>1. text[j] # "?"
    BY <1>3 DEF End
  <2>2. QED
    BY <1>3, <2>1 DEF TokenAt, LastToken
<1>4. QED
  BY <1>2, <1>3, Indexes

LEMMA TextIs ==
  ASSUME NEW sql \in Seq(Chars \ {"'"}), Apart(sql), NEW text, text = Append(sql, End)
  PROVE  /\ text \in Seq(Chars \ {"'"}) /\ Len(text) = Len(sql) + 1 /\ Len(sql) \in Nat
         /\ text[Len(sql) + 1] = End /\ Alike(Len(sql), text, sql) /\ Apart(text)
<1> DEFINE m == "?"
           C == Chars \ {"'"}
<1>1. /\ sql \in Seq(C) /\ End \in C /\ End # m
      /\ \A j \in 1..(Len(sql) - 1) : sql[j] = m => sql[j + 1] # m
  BY SqlsAssumption DEF Apart, End
<1> HIDE DEF m, C
<1>2. /\ text \in Seq(C) /\ Len(text) = Len(sql) + 1 /\ Len(sql) \in Nat
      /\ text[Len(sql) + 1] = End /\ (\A j \in 1..Len(sql) : text[j] = sql[j])
      /\ \A j \in 1..(Len(text) - 1) : text[j] = m => text[j + 1] # m
  BY <1>1, EndIs
<1>3. Apart(text)
  BY <1>2 DEF Apart, m
<1>4. QED
  BY <1>2, <1>3 DEF C, Alike

LEMMA AllPlaced ==
  ASSUME NEW S, NEW tokens \in Seq(S), NEW text \in Seq(Chars \ {"'"}),
         NEW n \in Nat, NEW params \in [1..n -> Params], Clear(params, n),
         Means(text, tokens, params, n),
         NEW c, c[0] = text, \A k \in 1..n : c[k] = PutFirst(c[k - 1], to_sql_literal(params[k]))
  PROVE  \E p \in 0..Len(text), done \in Seq(Chars) : Placed(c[n], done, text, tokens, n, n, p)
<1> DEFINE T == {k \in 0..n : \E p \in 0..Len(text), done \in Seq(Chars) :
                                 Placed(c[k], done, text, tokens, n, k, p)}
<1>1. 0 \in T
  <2> DEFINE none == <<>>
  <2>1. Reading(none) = Start /\ none \in Seq(Chars) /\ none \in Seq(Chars \ {"?"})
    BY ReadingNone
  <2>2. Stands(Start, tokens, 0)
    <3>1. SubSeq(tokens, 1, 0) = <<>>
      BY SubSeqEmpty
    <3>2. QED
      BY <3>1 DEF Stands, Start
  <2>3. \A e : e = none => e \o text = text
    BY ConcatEmptySeq
  <2>4. SubSeq(text, 0 + 1, Len(text)) = text
    <3>1. SubSeq(text, 1, Len(text)) = text
      BY SubSeqFull
    <3>2. QED
      BY <3>1
  <2>5. Marks(text, 0) = 0 /\ Start.at = "plain"
    BY MarksAre DEF Start
  <2>6. Len(text) \in Nat
    BY SeqElements
  <2> HIDE DEF none
  <2>7. c[0] = none \o SubSeq(text, 0 + 1, Len(text))
    BY <2>3, <2>4
  <2>8. Placed(c[0], none, text, tokens, n, 0, 0)
    BY <2>1, <2>2, <2>5, <2>7 DEF Placed
  <2>9. QED
    BY <2>1, <2>6, <2>8
<1>2. ASSUME NEW k \in 1..n, k - 1 \in T
      PROVE  k \in T
  <2>1. PICK p \in 0..Len(text), done \in Seq(Chars) :
          Placed(c[k - 1], done, text, tokens, n, k - 1, p)
    BY <1>2
  <2> DEFINE param == params[k]
             query == c[k - 1]
  <2>2. param \in Params /\ k \in 0..n
    OBVIOUS
  <2>3. k < n => "?" \notin Range(param.text)
    <3>1. k < n => k \in 1..(n - 1)
      OBVIOUS
    <3>2. QED
      BY <3>1 DEF Clear
  <2>4. /\ \A j \in 1..Len(text) :
             text[j] = "?" /\ Marks(text, j) = k => tokens[j] = Token(param.str, param.text)
        /\ \A j \in 1..Len(text) : text[j] # "?" => tokens[j] = Token(FALSE, <<text[j]>>)
    <3>1. k <= n
      OBVIOUS
    <3>2. QED
      BY <3>1 DEF TokenAt, Means, Reads
  <2>5. c[k] = PutFirst(query, to_sql_literal(param)) /\ Placed(query, done, text, tokens, n, k - 1, p)
    BY <2>1
  <2> HIDE DEF param, query
  <2>6. \E r \in 0..Len(text), more \in Seq(Chars) :
          Placed(PutFirst(query, to_sql_literal(param)), more, text, tokens, n, k, r)
    <3>1. Len(text) = Len(tokens) /\ Apart(text)
      BY DEF Means
    <3>2. QED
      BY <2>2, <2>3, <2>4, <2>5, <3>1, PlacedNext
  <2>7. QED
    BY <2>2, <2>5, <2>6
<1> HIDE DEF T
<1>3. \A k \in 0..n : k \in T
  BY <1>1, <1>2, InductionTo
<1>4. n \in T
  BY <1>3
<1>5. QED
  BY <1>4 DEF T

LEMMA ParametersAreRead ==
  ASSUME NEW sql \in Seq(Chars \ {"'"}), Apart(sql), NEW n \in Nat, NEW params \in [1..n -> Params],
         Clear(params, n)
  PROVE  Scanned(build_query(sql, params)) = Bound(sql, params)
<1> DEFINE text == Append(sql, End)
           tokens == Bound(sql, params)
           Tokens == [str : BOOLEAN, text : Seq(Chars)]
<1>1. sql \in Seq(Chars \ {"'"}) /\ Apart(sql)
  OBVIOUS
<1>2. "'" \in Chars
  BY SqlsAssumption
<1>3. /\ text \in Seq(Chars \ {"'"}) /\ Len(text) = Len(sql) + 1 /\ Len(sql) \in Nat
      /\ text[Len(sql) + 1] = End /\ Alike(Len(sql), text, sql) /\ Apart(text)
  BY <1>1, TextIs
<1>4. sql \in Seq(Chars)
  <2>1. \A s : s \in Seq(Chars \ {"'"}) => s \in Seq(Chars)
    OBVIOUS
  <2>2. QED
    BY <1>1, <2>1
<1>5. /\ tokens \in Seq(Tokens) /\ Len(tokens) = Len(sql) + 1
      /\ Reads(tokens, sql, params, n, Len(sql)) /\ tokens[Len(sql) + 1] = LastToken
  BY <1>4, BoundIs
<1> HIDE DEF text, tokens, Tokens
<1>6. Reads(tokens, text, params, n, Len(sql) + 1)
  <2> DEFINE N == Len(sql)
             given == params
             chars == sql
  <2>1. N \in Nat /\ Alike(N, text, chars) /\ text[N + 1] = End
    BY <1>3
  <2>2. Reads(tokens, chars, given, n, N) /\ tokens[N + 1] = LastToken
    BY <1>5
  <2> HIDE DEF N, given, chars
  <2>3. Reads(tokens, text, given, n, N + 1)
    BY <2>1, <2>2, TokensOfText
  <2>4. QED
    BY <2>3 DEF N, given
<1>7. Means(text, tokens, params, n)
  BY <1>3, <1>5, <1>6 DEF Means
<1>8. ASSUME NEW k \in 1..n PROVE to_sql_literal(params[k]) \in Seq(Chars)
  <2> DEFINE param == params[k]
  <2>1. param \in Params
    OBVIOUS
  <2> HIDE DEF param
  <2>2. param.text \in Seq(Chars)
    BY <2>1, ParamsAssumption
  <2>3. to_sql_literal(param) \in Seq(Chars)
    BY <1>2, <2>2, LiteralTyped
  <2>4. QED
    BY <2>3 DEF param
<1>9. PICK c \in [0..n -> Seq(Chars)] :
        /\ c[0] = text /\ c[n] = build_query(sql, params)
        /\ \A k \in 1..n : c[k] = PutFirst(c[k - 1], to_sql_literal(params[k]))
  <2>1. DOMAIN params = 1..n
    OBVIOUS
  <2>2. QED
    BY <1>8, <1>4, <2>1, QueryIs DEF text, End
<1>10. PICK p \in 0..Len(text), done \in Seq(Chars) : Placed(c[n], done, text, tokens, n, n, p)
  BY <1>3, <1>5, <1>7, <1>9, AllPlaced
<1>11. Reading(c[n]).out = tokens
  <2> DEFINE given == params
             query == c[n]
  <2>1. text \in Seq(Chars \ {"'"}) /\ tokens \in Seq(Tokens)
    BY <1>3, <1>5
  <2>2. Placed(query, done, text, tokens, n, n, p) /\ Means(text, tokens, given, n)
    BY <1>7, <1>10
  <2> HIDE DEF given, query
  <2>3. Reading(query).out = tokens
    BY <2>1, <2>2, PlacedAll
  <2>4. QED
    BY <2>3 DEF query
<1>12. QED
  BY <1>9, <1>11 DEF Scanned, Reading, Start, tokens

LEMMA ParametersMean ==
  ASSUME input \in Inputs
  PROVE  ParametersArrive
<1>1. SUFFICES ASSUME input.of = "sql",
                      \A j \in 1..(Len(input.params) - 1) : "?" \notin Range(input.params[j].text)
               PROVE  Scanned(build_query(input.sql, input.params)) = Bound(input.sql, input.params)
  BY DEF ParametersArrive
<1>2. input \in SqlInputs
  BY <1>1 DEF Inputs, MixInputs, SampleInputs, LoadInputs, PayInputs, TableInputs
<1> DEFINE sql == input.sql
           params == input.params
<1>3. sql \in Sqls /\ params \in BoundedSeq(Params, MaxParams)
  BY <1>2 DEF SqlInputs
<1> HIDE DEF sql, params
<1>4. PICK n \in 0..MaxParams : params \in [1..n -> Params]
  BY <1>3 DEF BoundedSeq, SeqOf
<1>5. n \in Nat /\ Len(params) = n
  <2>1. n \in Nat
    BY ParamsAssumption
  <2>2. params = [j \in 1..n |-> params[j]] /\ \A j \in 1..n : params[j] \in Params
    BY <1>4
  <2>3. QED
    BY <2>1, <2>2, FunctionIsSeq
<1>6. Clear(params, n)
  BY <1>1, <1>5 DEF params, Clear
<1>7. sql \in Seq(Chars \ {"'"}) /\ Apart(sql)
  BY <1>3, SqlsAssumption DEF Apart
<1>8. Scanned(build_query(sql, params)) = Bound(sql, params)
  BY <1>4, <1>5, <1>6, <1>7, ParametersAreRead
<1>9. QED
  BY <1>8 DEF sql, params

---------------------------------------------------------------------------
(* Every input. *)

LEMMA InputStays == Spec => [](input \in Inputs)
<1>1. Init => input \in Inputs
  BY DEF Init
<1>2. input \in Inputs /\ [Next]_input => (input \in Inputs)'
  BY DEF Next
<1>3. QED
  BY <1>1, <1>2, PTL DEF Spec

\* select_transaction_type gives every weight its share of the draws, whatever
\* the weights and however fine the draws.
THEOREM MixHolds == Spec => []MixIsAsAsked
<1>1. input \in Inputs => MixIsAsAsked
  BY MixMeans
<1>2. QED
  BY <1>1, InputStays, PTL

\* The percentiles of the report are those of their ranks, for any number of
\* latencies.
THEOREM PercentilesHold == Spec => []PercentilesAreClose
<1>1. input \in Inputs => PercentilesAreClose
  BY PercentilesMean
<1>2. QED
  BY <1>1, InputStays, PTL

\* The files that --init writes fit together, at every scale.
THEOREM LoadHolds == Spec => []LoadIsConsistent
<1>1. input \in Inputs => LoadIsConsistent
  BY LoadMeans
<1>2. QED
  BY <1>1, InputStays, PTL

\* 15 of 100 payments are those of a customer of another warehouse who exists,
\* with any number of warehouses.
THEOREM RemoteHolds == Spec => []RemoteIsElsewhere
<1>1. input \in Inputs => RemoteIsElsewhere
  BY RemoteMeans
<1>2. QED
  BY <1>1, InputStays, PTL

\* build_query puts every parameter where the server reads it in the place of
\* its "?", whatever the statement's characters and however long its strings.
THEOREM ParametersHold == Spec => []ParametersArrive
<1>1. input \in Inputs => ParametersArrive
  BY ParametersMean
<1>2. QED
  BY <1>1, InputStays, PTL
=============================================================================
