------------------------------ MODULE Routines ------------------------------
(***************************************************************************)
(* The pure functions of modules DataGen, Mix and SqlText on one input at a *)
(* time, against what they are for.                                         *)
(***************************************************************************)
EXTENDS DataGen, Mix, SqlText

CONSTANTS
  Weights,    \* values of a transaction's probability
  MaxSamples, \* bound on the latencies of a transaction type
  Scales,     \* numbers of warehouses
  Chars,      \* characters
  Sqls,       \* statements, without quotes
  Params,     \* parameters of a statement
  MaxParams,  \* bound on their number
  MaxRows     \* bound on the rows of an answer

\* config.rs takes any f64 for a probability; a share is none below 0.
ASSUME WeightsAssumption == Weights \subseteq Nat
ASSUME MaxSamplesAssumption == MaxSamples \in Nat
ASSUME ScalesAssumption == Scales \subseteq Nat \ {0} /\ IsFiniteSet(Scales)

\* The statements of the transactions have no quoted strings and a comma or a
\* word between two placeholders; a number is one character.
ASSUME SqlsAssumption ==
  /\ {"?", "'", ";"} \subseteq Chars
  /\ \A sql \in Sqls :
       /\ sql \in Seq(Chars \ {"'"})
       /\ \A j \in 1..(Len(sql) - 1) : sql[j] = "?" => sql[j + 1] # "?"
ASSUME ParamsAssumption ==
  /\ Params \subseteq [str : BOOLEAN, text : Seq(Chars)]
  /\ \A param \in Params : ~param.str => Len(param.text) = 1 /\ param.text[1] # "'"
  /\ MaxParams \in Nat

VARIABLE input

MixInputs == [of : {"mix"}, ratio : 0..Grain, probs : [1..5 -> Weights]]

SampleInputs == [of : {"samples"}, n : 1..MaxSamples]

LoadInputs == [of : {"load"}, carrier : {1, 10}, sf : Scales]

PayInputs == [of : {"pay"}, sf : Scales, w : 1..Max(Scales), d : {1, 10}]

SqlInputs == [of : {"sql"}, sql : Sqls, params : BoundedSeq(Params, MaxParams)]

\* A table of two columns; the read that returned it ended `cut` cells into
\* line `cutLine` of it, and within a cell or between two.
TableInputs ==
  [of : {"table"}, rows : BoundedSeq([1..2 -> {Blank, "a", "b"}], MaxRows),
   cutLine : 1..(MaxRows + 1), cut : 0..2, within : BOOLEAN]

Inputs == MixInputs \cup SampleInputs \cup LoadInputs \cup PayInputs \cup SqlInputs \cup TableInputs

Init == input \in Inputs
Next == UNCHANGED input
Spec == Init /\ [][Next]_input
---------------------------------------------------------------------------

Share(S, Of(_)) == Cardinality({u \in S : Of(u)})

\* Every weight gets its share of the draws, to one draw; what has no weight
\* gets none but by a draw of exactly 0; and transactions that write come in
\* the share of rw_ratio, if there are some of either kind.
MixIsAsAsked ==
  input.of = "mix" =>
    LET probs == input.probs
        choice(v, u) == select_transaction_type(input.ratio, probs, v, u)
        Kinds == <<1..3, 4..5>>
        weight(K) == MapThenSumSet(LAMBDA i : probs[i], K)
    IN  \A v \in 0..(Grain - 1) :
          LET K == Kinds[IF v < input.ratio THEN 1 ELSE 2]
          IN  weight(K) > 0 =>
                /\ \A u \in 1..(Grain - 1) :
                     \E i \in K : choice(v, u) = all[i] /\ probs[i] > 0
                /\ \A i \in K :
                     LET got == Share(1..(Grain - 1), LAMBDA u : choice(v, u) = all[i])
                     IN  /\ got * weight(K) <= Grain * probs[i] + weight(K)
                         /\ got * weight(K) >= Grain * probs[i] - weight(K)

Rank(pct) == percentile([k \in 1..input.n |-> k], pct)

\* Half of the latencies are at most P50 and half at least, and P99 is within
\* one sample of the smallest that is at least 99% of them.
PercentilesAreClose ==
  input.of = "samples" =>
    /\ 2 * Rank(50) >= input.n /\ 2 * (input.n - Rank(50) + 1) >= input.n
    /\ 100 * (Rank(99) + 1) >= 99 * input.n
    /\ 100 * (Rank(99) - 1) <= 99 * input.n
    /\ Rank(50) <= Rank(99)

\* The files of --init fit together: orders up to d_next_o_id, of which exactly
\* those of new_orders have no carrier and no delivery dates, each with its
\* lines; what the districts and warehouses took in is in history; and all of
\* it has the numbers of rows that the loader and the checker expect.
LoadIsConsistent ==
  input.of = "load" =>
    LET orders == Orders(input.carrier)
        ids    == {o.o_id : o \in orders}
        count(t, perDistrict) ==
          Expected(t, input.sf) = input.sf * DISTRICTS_PER_WAREHOUSE * perDistrict
    IN  /\ ids = 1..(District.d_next_o_id - 1)
        /\ NewOrders = {o.o_id : o \in {x \in orders : x.o_carrier_id = 0}}
        /\ Max(NewOrders) = District.d_next_o_id - 1
        /\ \A o \in orders :
             /\ {l.ol_number : l \in OrderLines(o.o_id)} = 1..o.o_ol_cnt
             /\ \A l \in OrderLines(o.o_id) : l.dated <=> o.o_id \notin NewOrders
        /\ District.d_ytd = CUSTOMERS_PER_DISTRICT * History.h_amount
        /\ Warehouse.w_ytd = DISTRICTS_PER_WAREHOUSE * District.d_ytd
        /\ count("orders", Cardinality(orders))
        /\ count("new_orders", Cardinality(NewOrders))
        /\ count("order_line", ORDERS_PER_DISTRICT * Cardinality(OrderLines(1)))
        /\ count("history", CUSTOMERS_PER_DISTRICT)
        /\ count("customer", CUSTOMERS_PER_DISTRICT)

\* A Payment is that of a customer of another warehouse in 15 of 100 cases,
\* if there is another one, and always one of a customer who exists.
RemoteIsElsewhere ==
  input.of = "pay" /\ input.w <= input.sf =>
    LET payer(dice, position) ==
          PaymentCustomer(input.sf, input.w, input.d, <<dice, 50>>, position, 3)
        remote(dice, position) == payer(dice, position)[1] # input.w
        Positions == 1..(input.sf - 1)
    IN  /\ \A dice \in {1, 85, 86, 100}, position \in Positions \cup {1} :
             payer(dice, position) \in (1..input.sf) \X (1..DISTRICTS_PER_WAREHOUSE)
        /\ \A position \in Positions \cup {1} :
             Share(1..100, LAMBDA dice : remote(dice, position))
               = IF input.sf > 1 THEN 15 ELSE 0
        /\ {payer(100, position)[1] : position \in Positions} = (1..input.sf) \ {input.w}
---------------------------------------------------------------------------
(* What the server makes of a statement: quoted strings and characters.     *)

Token(str, text) == [str |-> str, text |-> text]

Scans(state, c) ==
  CASE state.at = "plain" /\ c = "'"  -> [state EXCEPT !.at = "string", !.text = <<>>]
    [] state.at = "plain" /\ c # "'"  -> [state EXCEPT !.out = Append(@, Token(FALSE, <<c>>))]
    [] state.at = "string" /\ c = "'" -> [state EXCEPT !.at = "quote"]
    [] state.at = "string" /\ c # "'" -> [state EXCEPT !.text = Append(@, c)]
    [] state.at = "quote" /\ c = "'"  -> [state EXCEPT !.at = "string", !.text = Append(@, c)]
    [] state.at = "quote" /\ c # "'"  ->
         [state EXCEPT !.at = "plain",
                       !.out = @ \o <<Token(TRUE, state.text), Token(FALSE, <<c>>)>>]

Scanned(query) ==
  FoldLeft(Scans, [at |-> "plain", text |-> <<>>, out |-> <<>>], query).out

Bound(sql, params) ==
  LET rank(j) == Cardinality({k \in 1..j : sql[k] = "?"})
  IN  Append([j \in DOMAIN sql |->
                IF sql[j] = "?" /\ rank(j) <= Len(params)
                THEN Token(params[rank(j)].str, params[rank(j)].text)
                ELSE Token(FALSE, <<sql[j]>>)],
             Token(FALSE, <<";">>))

\* The server reads each parameter, quotes and all, in the place of its "?",
\* unless a parameter that has another behind it contains a "?" itself.
ParametersArrive ==
  input.of = "sql" /\ (\A j \in 1..(Len(input.params) - 1) :
                         "?" \notin Range(input.params[j].text))
    => Scanned(build_query(input.sql, input.params)) = Bound(input.sql, input.params)

\* The lines of a table, and the same cut off.
Printed(rows) ==
  LET bar(cells) == [bar |-> TRUE, cells |-> cells]
      rule       == [bar |-> FALSE, cells |-> <<>>]
  IN  <<rule, bar(<<"a", "b">>), rule>> \o [n \in DOMAIN rows |-> bar(rows[n])]

CutOff(rows) ==
  LET n     == input.cutLine
      whole == SubSeq(rows[n], 1, input.cut)
      part(cell) == IF cell = Blank THEN Blank ELSE "part"
      cells == IF input.within /\ input.cut < 2
               THEN Append(whole, part(rows[n][input.cut + 1])) ELSE whole
  IN  Append(Printed(SubSeq(rows, 1, n - 1)), [bar |-> TRUE, cells |-> cells])

\* A query answered in text has the rows of the table that have no blank cell,
\* in their order, and never a row with its values in other columns; a table
\* that is cut off has fewer of them, unless it is cut within its last cell.
RowsAreRows ==
  input.of = "table" =>
    LET full == SelectSeq(input.rows, LAMBDA row : Blank \notin Range(row))
        n    == input.cutLine
    IN  /\ parse_legacy_response(Printed(input.rows)) = full
        /\ n <= Len(input.rows) /\ ~(input.within /\ input.cut = 1) =>
             IsPrefix(parse_legacy_response(CutOff(input.rows)), full)
=============================================================================
