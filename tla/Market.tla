------------------------------- MODULE Market -------------------------------
(***************************************************************************)
(* What the venues' events become in the gold tables.  The producers send  *)
(* trades (Binance), book updates (Kraken), quotes (the REST pollers) and  *)
(* dead letters, each to its topic; the Flink job archives the topics it   *)
(* has a source for; dbt builds the tables.                                *)
(*                                                                         *)
(* Events come in any order of their times, as events of different         *)
(* partitions do, so tables are rebuilt after late ones as well.  Each     *)
(* event stands for its one row of a staging view, which is what Pipeline's*)
(* SilverComplete establishes.                                             *)
(***************************************************************************)
EXTENDS Gold

CONSTANTS Pairs,      \* Binance's symbols
          Books,      \* Kraken's pairs
          Coins,      \* <<exchange, symbol>> of the REST pollers
          Times,      \* event times in milliseconds
          Prices,
          MaxTies,    \* bound on the trades of a symbol in a millisecond
          MaxEvents   \* bound on the events

ASSUME PerMinuteAssumption == PerMinute \in Nat \ {0}
ASSUME MarketBounds == MaxTies \in Nat /\ MaxEvents \in Nat
ASSUME MarketData == Times \subseteq Nat /\ Prices \subseteq Int

VARIABLE events

vars == <<events>>

\* no is the order of a symbol's trades within a millisecond.
Trade == [topic : {"raw.trades.v1"}, exchange : {"binance"}, symbol : Pairs,
          event : Times, no : 1 .. MaxTies, price : Prices]
BookUpdate == [topic : {"raw.depth.v1"}, exchange : {"kraken"}, symbol : Books,
               event : Times]
RestTopic == [coingecko |-> "raw.coingecko.v1",
              cryptocompare |-> "raw.cryptocompare.v1"]
Quote == {[topic |-> RestTopic[c[1]], exchange |-> c[1],
           symbol |-> c[2], event |-> t, price |-> p] :
             c \in Coins, t \in Times, p \in Prices}
DeadLetter == [topic : {"dlq.trades"}, event : Times]

ASSUME CoinsAssumption == \A c \in Coins : c = <<c[1], c[2]>> /\ c[1] \in DOMAIN RestTopic

\* instrument_map.csv maps one symbol of a venue to an asset.
ASSUME SeedAssumption ==
    /\ ({"binance"} \X Pairs) \cup Coins \subseteq DOMAIN BaseAsset
    /\ \A i, j \in DOMAIN BaseAsset :
          i[1] = j[1] /\ BaseAsset[i] = BaseAsset[j] /\ BaseAsset[i] # Unmapped => i = j

\* What "order by exchange" goes by.
ASSUME ExchangesAssumption ==
    /\ DOMAIN Exchanges \subseteq Nat /\ IsInjective(Exchanges)
    /\ {"binance", "coingecko", "cryptocompare"} \subseteq Range(Exchanges)

Init == events = {}

Room == Cardinality(events) < MaxEvents

\* A venue numbers a symbol's trades, so two never share their place.
SendTrade(e) ==
    /\ Room
    /\ \A q \in events : q.topic = e.topic =>
          <<q.symbol, q.event, q.no>> # <<e.symbol, e.event, e.no>>
    /\ events' = events \cup {e}

SendBook(e) == Room /\ events' = events \cup {e}

\* One poll stamps a coin's quote with its own clock.
SendQuote(e) ==
    /\ Room
    /\ \A q \in events : q.topic = e.topic =>
          <<q.symbol, q.event>> # <<e.symbol, e.event>>
    /\ events' = events \cup {e}

SendDeadLetter(e) == Room /\ events' = events \cup {e}

Next == \/ \E e \in Trade : SendTrade(e)
        \/ \E e \in BookUpdate : SendBook(e)
        \/ \E e \in Quote : SendQuote(e)
        \/ \E e \in DeadLetter : SendDeadLetter(e)

Spec == Init /\ [][Next]_vars

-----------------------------------------------------------------------------
\* The topics the job has a source table for.
SourceTopics == {"raw.trades.v1", "raw.depth.v1", "raw.coingecko.v1",
                 "raw.cryptocompare.v1"}

Bronze(sent) == {e \in sent : e.topic \in SourceTopics}

StgTrades(sent) == {e \in Bronze(sent) : e.topic = "raw.trades.v1"}
StgDepth(sent) == {e \in Bronze(sent) : e.topic = "raw.depth.v1"}
StgRestQuotes(sent) == Bronze(sent) \ (StgTrades(sent) \cup StgDepth(sent))
BronzeLetters(sent) == {e \in Bronze(sent) : e.topic = "dlq.trades"}

\* The marts a build of these events may make.
Marts(sent) ==
    {Fct(trades \cup quotes, {c \in trades : Spike(trades, c)},
         DepthTable(StgDepth(sent)), BronzeLetters(sent)) :
        trades \in CandleTables(StgTrades(sent)),
        quotes \in CandleTables(StgRestQuotes(sent))}

TypeOK ==
    /\ events \subseteq Trade \cup BookUpdate \cup Quote \cup DeadLetter
    /\ \A mart \in Marts(events) : \A r \in mart :
          /\ {r.open, r.close} \subseteq Prices
          /\ r.minute \in {t \div PerMinute : t \in Times}
          /\ r.letters \in 0 .. MaxEvents
          /\ Cardinality(r.return) <= 1

(***************************************************************************)
(* fct_market_metrics_unique_grain.sql: one row per exchange, symbol and   *)
(* minute, through a union of two tables and two joins (of tables that are *)
(* unique themselves).  And no minute with a price is left out.            *)
(***************************************************************************)
UniqueGrain ==
    \A mart \in Marts(events) :
        \A e \in StgTrades(events) \cup StgRestQuotes(events) :
            Cardinality({r \in mart : Instrument(r) = Instrument(e)
                                      /\ r.minute = Minute(e)}) = 1

(***************************************************************************)
(* A late event changes no row of another instrument and none of an        *)
(* earlier minute, and a dead letter none of another minute: windows, lags *)
(* and joins stay within their partition and look back only, so            *)
(* yesterday's dashboards hold.  Every mart that could be built before has *)
(* a counterpart now that agrees on all other rows.                        *)
(***************************************************************************)
IsApart(r, e) == IF e.topic = "dlq.trades"
                 THEN r.minute # Minute(e)
                 ELSE Instrument(r) # Instrument(e) \/ r.minute < Minute(e)

LateEventsStayLocal ==
    [][\A e \in events' \ events, mart \in Marts(events) :
          \E next \in Marts(events') : {r \in mart : IsApart(r, e)} \subseteq next]_vars

(***************************************************************************)
(* The report's columns come from six windows and agree: in a minute and   *)
(* asset exactly one row has rank 1, it is the one of cheapest_exchange    *)
(* and has no premium; the last rank's premium is the whole spread; and no *)
(* asset is reported that only one exchange prices                         *)
(* (rpt_exchange_base_asset_price_comparison.sql:22-92).                   *)
(***************************************************************************)
ReportAgrees ==
    \A mart \in Marts(events) : \A r \in Report(mart) :
        LET rivals == {q \in Report(mart) : q.minute = r.minute /\ q.base = r.base}
        IN  /\ {q.rank : q \in rivals} = 1 .. Cardinality(rivals)
            /\ r.rank = 1 => r.cheapest = {r.exchange} /\ r.premium = 0
            /\ r.rank = Cardinality(rivals) => r.premium = r.spread
            /\ r.dearest = {r.exchange} => r.premium = r.spread
            /\ Cardinality({q.exchange : q \in rivals}) > 1

(***************************************************************************)
(* A rebuild over the same bronze gives the same mart, but for ties: only  *)
(* where a symbol has trades of different prices in one millisecond may    *)
(* min_by and max_by choose anew (int_ohlcv_1m.sql:17-20).                 *)
(***************************************************************************)
RebuildRepeats ==
    (\A a, b \in StgTrades(events) :
        Instrument(a) = Instrument(b) /\ a.event = b.event => a.price = b.price)
    => Cardinality(Marts(events)) = 1

=============================================================================
