-------------------------------- MODULE Gold --------------------------------
(***************************************************************************)
(* The models of dbt/models/intermediate and dbt/models/marts as operators *)
(* on the rows of the staging views.                                       *)
(*                                                                         *)
(* A staged row is a record with fields exchange, symbol, event (event_ts  *)
(* in milliseconds, PerMinute of them to the minute) and price.  Aggregates*)
(* that are functions of a group (counts, sums, high, low, vwap, the       *)
(* spread's averages) are not computed: the field rows holds the group.    *)
(* min_by and max_by may return the price of any row at the extreme, so    *)
(* the candles of a set of rows are a set of possible tables.              *)
(***************************************************************************)
EXTENDS Integers, FiniteSets, FiniteSetsExt

CONSTANTS PerMinute,   \* milliseconds in a minute
          Exchanges,   \* the sequence of the exchanges, by name
          BaseAsset,   \* the seed instrument_map: <<exchange, symbol>> -> base
          Unmapped     \* its value where the seed has no row

\* exchange, symbol
Instrument(r) == <<r.exchange, r.symbol>>

\* Mutation: rounded to the next minute.
NearestMinute(r) == (2 * r.event + PerMinute) \div (2 * PerMinute)

\* timestamp_trunc(event_ts, minute)
Minute(r) == r.event \div PerMinute

\* group by exchange, symbol, metric_ts
Groups(rows) ==
    {{q \in rows : Instrument(q) = Instrument(r) /\ Minute(q) = Minute(r)} :
        r \in rows}

\* Mutation: any_value(price).
AnyOf(rows) == rows

Earliest(rows) == {r \in rows : \A q \in rows : r.event <= q.event}
Latest(rows) == {r \in rows : \A q \in rows : q.event <= r.event}

\* What one group may become: open is min_by, close is max_by event_ts.
Candles(rows) ==
    {[exchange |-> r.exchange, symbol |-> r.symbol, minute |-> Minute(r),
      rows |-> rows, open |-> f.price, close |-> l.price] :
        r \in rows, f \in Earliest(rows), l \in Latest(rows)}

\* int_ohlcv_1m before its windows, and int_rest_quotes_1m.
CandleTables(rows) == Choices({Candles(group) : group \in Groups(rows)})

\* int_depth_1m
DepthTable(rows) ==
    {LET r == CHOOSE q \in group : TRUE
     IN  [exchange |-> r.exchange, symbol |-> r.symbol, minute |-> Minute(r),
          rows |-> group] : group \in Groups(rows)}

-----------------------------------------------------------------------------
\* Mutation: partition by exchange.
PartitionByExchange(table, c) == {k \in table : k.exchange = c.exchange}

\* partition by exchange, symbol
Partition(table, c) == {k \in table : Instrument(k) = Instrument(c)}

\* rows between n preceding and current row, ordered by metric_ts
Window(table, c, n) ==
    LET upto == {k \in Partition(table, c) : k.minute <= c.minute}
    IN  {k \in upto : Cardinality({l \in upto : l.minute > k.minute}) <= n}

\* More than a tenth away from the average close of a window.
Deviates(c, window) ==
    LET sum == MapThenSumSet(LAMBDA k : k.close, window)
        difference == Cardinality(window) * c.close - sum
    IN  10 * difference > sum \/ 10 * (-difference) > sum

\* price_spike_flag, against rolling_avg_close_5m
Spike(table, c) == Deviates(c, Window(table, c, 4))

\* lag(close) over (partition by exchange, symbol order by metric_ts): the row
\* a log return is from, if there is one.
Lag(table, c) ==
    LET before == {k \in Partition(table, c) : k.minute < c.minute}
    IN  {k \in before : \A l \in before : l.minute <= k.minute}

-----------------------------------------------------------------------------
\* Mutation: joined on the minute alone.
SameMinute(o, d) == o.minute = d.minute

\* o.exchange = d.exchange and o.symbol = d.symbol and o.metric_ts = d.metric_ts
DepthMatch(o, d) == Instrument(o) = Instrument(d) /\ o.minute = d.minute

\* Left join: a row for every match, or one without.
Joined(candles, depth) ==
    UNION {LET matches == {d \in depth : DepthMatch(o, d)}
           IN  {<<o, ds>> : ds \in IF matches = {} THEN {{}}
                                                  ELSE {{d} : d \in matches}} :
              o \in candles}

\* coalesce(q.dead_letter_count, 0): the dead letters of bronze in a minute.
DeadLetters(letters, o) == Cardinality({l \in letters : Minute(l) = o.minute})

\* fct_market_metrics over tables of candles, those of them that are flagged,
\* depth and dead letters.  The windows after the join see the joined rows, one
\* per candle.
Fct(candles, spikes, depth, letters) ==
    {[exchange |-> j[1].exchange, symbol |-> j[1].symbol, minute |-> j[1].minute,
      rows |-> j[1].rows, open |-> j[1].open, close |-> j[1].close,
      spike |-> j[1] \in spikes, depth |-> j[2], letters |-> DeadLetters(letters, j[1]),
      return |-> {<<k.minute, k.close>> : k \in Lag(candles, j[1])},
      volatility |-> {k.minute : k \in Window(candles, j[1], 14)}] :
        j \in Joined(candles, depth)}

-----------------------------------------------------------------------------
Base(r) == BaseAsset[Instrument(r)]

\* partition by metric_ts, base_asset, over the rows with an asset
Rivals(fct, r) == {q \in fct : q.minute = r.minute /\ Base(q) = Base(r)}

\* exchanges_available
ExchangesAvailable(rivals) == Cardinality({q.exchange : q \in rivals})

Alphabetical(p, q) ==
    \E i, j \in DOMAIN Exchanges :
        i < j /\ Exchanges[i] = p.exchange /\ Exchanges[j] = q.exchange

\* Mutation: price_rank_asc as rank() over the price alone.
CheaperByPrice(p, q) == p.close < q.close

\* order by close_price_usd asc, exchange asc
Cheaper(p, q) == \/ p.close < q.close
                 \/ p.close = q.close /\ Alphabetical(p, q)

\* order by close_price_usd desc, exchange asc
Dearer(p, q) == \/ p.close > q.close
                \/ p.close = q.close /\ Alphabetical(p, q)

\* first_value(exchange), with either order
CheapestOf(rivals) == {q.exchange : q \in {p \in rivals : \A o \in rivals : ~Cheaper(o, p)}}
DearestOf(rivals) == {q.exchange : q \in {p \in rivals : \A o \in rivals : ~Dearer(o, p)}}

\* rpt_exchange_base_asset_price_comparison
Report(fct) ==
    LET base == {r \in fct : Base(r) # Unmapped}
        multi == {r \in base : ExchangesAvailable(Rivals(base, r)) > 1}
    IN  {LET rivals == Rivals(multi, r)
             closes == {q.close : q \in rivals}
         IN  [minute |-> r.minute, base |-> Base(r), exchange |-> r.exchange,
              symbol |-> r.symbol, close |-> r.close,
              rank |-> 1 + Cardinality({q \in rivals : Cheaper(q, r)}),
              cheapest |-> CheapestOf(rivals), dearest |-> DearestOf(rivals),
              premium |-> r.close - Min(closes),
              spread |-> Max(closes) - Min(closes)] : r \in multi}

=============================================================================
