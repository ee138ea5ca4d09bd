---------------------------- MODULE MarketProofs ----------------------------
(***************************************************************************)
(* Proofs about Market, and about the gold tables it is built from.        *)
(***************************************************************************)
EXTENDS Market, SetInduction

-----------------------------------------------------------------------------
\* What a table of candles, or of depth, is to the rows it was grouped from.

SameKey(k, l) == Instrument(k) = Instrument(l) /\ k.minute = l.minute
IsOf(k, r) == Instrument(k) = Instrument(r) /\ k.minute = Minute(r)

Unique(table) == \A k, l \in table : SameKey(k, l) => k = l

GroupOf(rows, r) ==
    {q \in rows : Instrument(q) = Instrument(r) /\ Minute(q) = Minute(r)}

\* A row of a table stands for the group of the rows it is of.
Summarises(table, rows) ==
    /\ \A k \in table : \E r \in rows : IsOf(k, r) /\ k.rows = GroupOf(rows, r)
    /\ \A r \in rows : \E k \in table : IsOf(k, r)

\* A choice takes one element of each set.
LEMMA ChoicesPick ==
    ASSUME NEW Sets, NEW C \in Choices(Sets)
    PROVE  \E f \in [Sets -> UNION Sets] : /\ C = {f[T] : T \in Sets}
                                           /\ \A T \in Sets : f[T] \in T
BY DEF Choices, Range

\* A group is the same for each of its rows.
LEMMA GroupsAgree ==
    ASSUME NEW rows, NEW q, NEW r,
           Instrument(q) = Instrument(r), Minute(q) = Minute(r)
    PROVE  GroupOf(rows, q) = GroupOf(rows, r)
BY DEF GroupOf

\* A table of candles has one candle of each group.
LEMMA CandleTable ==
    ASSUME NEW rows, NEW table \in CandleTables(rows)
    PROVE  /\ Summarises(table, rows) /\ Unique(table)
           /\ \A k \in table : \E f \in Earliest(k.rows), l \in Latest(k.rows) :
                 k.open = f.price /\ k.close = l.price
<1> DEFINE Sets == {Candles(group) : group \in Groups(rows)}
<1>1. PICK f \in [Sets -> UNION Sets] : /\ table = {f[T] : T \in Sets}
                                        /\ \A T \in Sets : f[T] \in T
  <2>1. table \in Choices(Sets)
    BY DEF CandleTables
  <2> HIDE DEF Sets
  <2> QED BY <2>1, ChoicesPick
<1>2. Groups(rows) = {GroupOf(rows, r) : r \in rows}
  BY DEF Groups, GroupOf
<1>3. \A r \in rows : \A k \in Candles(GroupOf(rows, r)) :
         /\ IsOf(k, r) /\ k.rows = GroupOf(rows, r)
         /\ \E a \in Earliest(k.rows), l \in Latest(k.rows) :
               k.open = a.price /\ k.close = l.price
  <2> TAKE r \in rows
  <2> TAKE k \in Candles(GroupOf(rows, r))
  <2>1. PICK q \in GroupOf(rows, r), a \in Earliest(GroupOf(rows, r)),
             l \in Latest(GroupOf(rows, r)) :
                k = [exchange |-> q.exchange, symbol |-> q.symbol,
                     minute |-> Minute(q), rows |-> GroupOf(rows, r),
                     open |-> a.price, close |-> l.price]
    BY DEF Candles
  <2>2. Instrument(q) = Instrument(r) /\ Minute(q) = Minute(r)
    BY <2>1 DEF GroupOf
  <2>3. IsOf(k, r)
    BY <2>1, <2>2 DEF IsOf, Instrument
  <2> QED BY <2>1, <2>3
<1>4. \A k \in table : \E r \in rows :
         k \in Candles(GroupOf(rows, r)) /\ k = f[Candles(GroupOf(rows, r))]
  BY <1>1, <1>2
<1>5. \A r \in rows : \E k \in table : IsOf(k, r)
  BY <1>1, <1>2, <1>3
<1>6. Unique(table)
  <2> SUFFICES ASSUME NEW k \in table, NEW l \in table, SameKey(k, l)
               PROVE  k = l
    BY DEF Unique
  <2>1. PICK q \in rows : /\ k \in Candles(GroupOf(rows, q))
                          /\ k = f[Candles(GroupOf(rows, q))]
    BY <1>4
  <2>2. PICK r \in rows : /\ l \in Candles(GroupOf(rows, r))
                          /\ l = f[Candles(GroupOf(rows, r))]
    BY <1>4
  <2>3. Instrument(q) = Instrument(r) /\ Minute(q) = Minute(r)
    BY <1>3, <2>1, <2>2 DEF IsOf, SameKey
  <2>4. GroupOf(rows, q) = GroupOf(rows, r)
    BY <2>3, GroupsAgree
  <2> QED BY <2>1, <2>2, <2>4
<1>7. Summarises(table, rows)
  BY <1>3, <1>4, <1>5 DEF Summarises
<1> QED BY <1>3, <1>4, <1>6, <1>7

\* The depth of a group is one row.
LEMMA DepthIsUnique ==
    ASSUME NEW rows
    PROVE  Summarises(DepthTable(rows), rows) /\ Unique(DepthTable(rows))
<1> DEFINE Row(group) == [exchange |-> (CHOOSE q \in group : TRUE).exchange,
                          symbol |-> (CHOOSE q \in group : TRUE).symbol,
                          minute |-> Minute(CHOOSE q \in group : TRUE),
                          rows |-> group]
<1>1. DepthTable(rows) = {Row(GroupOf(rows, r)) : r \in rows}
  BY DEF DepthTable, Groups, GroupOf
<1>2. \A r \in rows : IsOf(Row(GroupOf(rows, r)), r)
                      /\ Row(GroupOf(rows, r)).rows = GroupOf(rows, r)
  <2> TAKE r \in rows
  <2> DEFINE c == CHOOSE q \in GroupOf(rows, r) : TRUE
  <2>1. r \in GroupOf(rows, r)
    BY DEF GroupOf
  <2>2. c \in GroupOf(rows, r)
    BY <2>1
  <2>3. Instrument(c) = Instrument(r) /\ Minute(c) = Minute(r)
    BY <2>2 DEF GroupOf
  <2>4. Row(GroupOf(rows, r)) =
           [exchange |-> c.exchange, symbol |-> c.symbol, minute |-> Minute(c),
            rows |-> GroupOf(rows, r)]
    OBVIOUS
  <2> HIDE DEF c, Row
  <2> QED BY <2>3, <2>4 DEF IsOf, Instrument
<1> HIDE DEF Row
<1>3. Unique(DepthTable(rows))
  <2> SUFFICES ASSUME NEW k \in DepthTable(rows), NEW l \in DepthTable(rows),
                      SameKey(k, l)
               PROVE  k = l
    BY DEF Unique
  <2>1. PICK q \in rows : k = Row(GroupOf(rows, q))
    BY <1>1
  <2>2. PICK r \in rows : l = Row(GroupOf(rows, r))
    BY <1>1
  <2>3. Instrument(q) = Instrument(r) /\ Minute(q) = Minute(r)
    BY <1>2, <2>1, <2>2 DEF IsOf, SameKey
  <2>4. GroupOf(rows, q) = GroupOf(rows, r)
    BY <2>3, GroupsAgree
  <2> QED BY <2>1, <2>2, <2>4
<1> QED BY <1>1, <1>2, <1>3 DEF Summarises

-----------------------------------------------------------------------------
\* The mart.

FctRow(candles, spikes, letters, j) ==
    [exchange |-> j[1].exchange, symbol |-> j[1].symbol, minute |-> j[1].minute,
     rows |-> j[1].rows, open |-> j[1].open, close |-> j[1].close,
     spike |-> j[1] \in spikes, depth |-> j[2], letters |-> DeadLetters(letters, j[1]),
     return |-> {<<k.minute, k.close>> : k \in Lag(candles, j[1])},
     volatility |-> {k.minute : k \in Window(candles, j[1], 14)}]

\* The join with the depth keeps each candle once.
LEMMA JoinKeepsCandles ==
    ASSUME NEW candles, NEW depth, Unique(depth)
    PROVE  /\ \A j \in Joined(candles, depth) : j[1] \in candles /\ j = <<j[1], j[2]>>
           /\ \A o \in candles : \E j \in Joined(candles, depth) : j[1] = o
           /\ \A i, j \in Joined(candles, depth) : i[1] = j[1] => i = j
<1> DEFINE Matches(o) == {d \in depth : DepthMatch(o, d)}
           Sides(o) == IF Matches(o) = {} THEN {{}} ELSE {{d} : d \in Matches(o)}
<1>1. Joined(candles, depth) = UNION {{<<o, ds>> : ds \in Sides(o)} : o \in candles}
  BY DEF Joined
<1>2. \A o \in candles : \A d, e \in Matches(o) : d = e
  BY DEF Unique, DepthMatch, SameKey
<1>3. \A o \in candles : /\ \E s \in Sides(o) : TRUE
                         /\ \A r, s \in Sides(o) : r = s
  <2> TAKE o \in candles
  <2>1. CASE Matches(o) = {}
    BY <2>1
  <2>2. CASE Matches(o) # {}
    <3>1. Sides(o) = {{d} : d \in Matches(o)}
      BY <2>2
    <3>2. PICK d \in Matches(o) : TRUE
      BY <2>2
    <3>3. \A e \in Matches(o) : e = d
      BY <1>2
    <3> QED BY <3>1, <3>2, <3>3
  <2> QED BY <2>1, <2>2
<1> HIDE DEF Sides
<1>4. \A j : j \in Joined(candles, depth) <=>
                \E o \in candles : \E s \in Sides(o) : j = <<o, s>>
  BY <1>1
<1>5. \A j \in Joined(candles, depth) :
         /\ j[1] \in candles /\ j[2] \in Sides(j[1]) /\ j = <<j[1], j[2]>>
  BY <1>4
<1>6. \A o \in candles : \E j \in Joined(candles, depth) : j[1] = o
  <2> TAKE o \in candles
  <2>1. PICK s \in Sides(o) : TRUE
    BY <1>3
  <2>2. <<o, s>> \in Joined(candles, depth)
    BY <1>4
  <2> QED BY <2>2
<1>7. \A i, j \in Joined(candles, depth) : i[1] = j[1] => i = j
  <2> TAKE i, j \in Joined(candles, depth)
  <2> HAVE i[1] = j[1]
  <2>1. i[2] = j[2]
    BY <1>3, <1>5
  <2> QED BY <1>5, <2>1
<1> QED BY <1>5, <1>6, <1>7

\* The mart has one row per candle.
LEMMA FctKeepsCandles ==
    ASSUME NEW candles, NEW spikes, NEW depth, NEW letters,
           Unique(candles), Unique(depth)
    PROVE  LET mart == Fct(candles, spikes, depth, letters)
           IN  /\ \A r \in mart : \E o \in candles :
                     \E j : j[1] = o /\ r = FctRow(candles, spikes, letters, j)
               /\ \A o \in candles : \E r \in mart : SameKey(r, o)
               /\ Unique(mart)
<1> DEFINE J == Joined(candles, depth)
           Row(j) == FctRow(candles, spikes, letters, j)
<1>1. Fct(candles, spikes, depth, letters) = {Row(j) : j \in J}
  BY DEF Fct, FctRow
<1>2. \A j : SameKey(Row(j), j[1])
  BY DEF FctRow, SameKey, Instrument
<1> HIDE DEF Row, J
<1>3. /\ \A j \in J : j[1] \in candles
      /\ \A o \in candles : \E j \in J : j[1] = o
      /\ \A i, j \in J : i[1] = j[1] => i = j
  BY JoinKeepsCandles DEF J
<1>4. ASSUME NEW i \in J, NEW j \in J, SameKey(Row(i), Row(j))
      PROVE  Row(i) = Row(j)
  <2>1. SameKey(i[1], j[1])
    BY <1>2, <1>4 DEF SameKey
  <2> QED BY <1>3, <2>1 DEF Unique
<1>5. Unique({Row(j) : j \in J})
  BY <1>4 DEF Unique
<1>6. \A o \in candles : \E r \in {Row(j) : j \in J} : SameKey(r, o)
  BY <1>2, <1>3
<1>7. \A r \in {Row(j) : j \in J} : \E o \in candles :
         \E j : j[1] = o /\ r = Row(j)
  BY <1>3
<1> QED BY <1>1, <1>5, <1>6, <1>7 DEF Row

-----------------------------------------------------------------------------
\* The events.

AnEvent == Trade \cup BookUpdate \cup Quote \cup DeadLetter

\* A poller's quotes have different times, as its clock stamps them.
EventsInv ==
    /\ events \subseteq AnEvent
    /\ IsFiniteSet(events) /\ Cardinality(events) <= MaxEvents
    /\ \A p, q \in StgRestQuotes(events) :
          Instrument(p) = Instrument(q) /\ p.event = q.event => p = q

\* What the staging views hold.
LEMMA StagedEvents ==
    ASSUME NEW sent, sent \subseteq AnEvent
    PROVE  /\ StgTrades(sent) = sent \cap Trade
           /\ StgRestQuotes(sent) = sent \cap Quote
           /\ BronzeLetters(sent) = {}
<1>1. \A e \in Trade : e.topic = "raw.trades.v1"
  BY DEF Trade
<1>2. \A e \in BookUpdate : e.topic = "raw.depth.v1"
  BY DEF BookUpdate
<1>3. \A e \in DeadLetter : e.topic = "dlq.trades"
  BY DEF DeadLetter
<1>4. \A e \in Quote : e.topic \in {"raw.coingecko.v1", "raw.cryptocompare.v1"}
  BY CoinsAssumption DEF Quote, RestTopic
<1> QED BY <1>1, <1>2, <1>3, <1>4
        DEF AnEvent, StgTrades, StgRestQuotes, StgDepth, BronzeLetters, Bronze, SourceTopics

\* The types of what the candles are made of.
LEMMA EventTypes ==
    /\ \A e \in Trade : /\ e.exchange = "binance" /\ e.event \in Times
                        /\ e.price \in Prices
    /\ \A e \in Quote : /\ e.exchange \in {"coingecko", "cryptocompare"}
                        /\ e.topic = RestTopic[e.exchange]
                        /\ e.event \in Times /\ e.price \in Prices
BY CoinsAssumption DEF Trade, Quote, RestTopic

THEOREM EventsInvariant == Spec => []EventsInv
<1>1. Init => EventsInv
  <2>1. Cardinality({}) = 0 /\ IsFiniteSet({})
    BY FS_EmptySet
  <2>2. StgRestQuotes({}) = {}
    BY DEF StgRestQuotes, Bronze
  <2> QED BY <2>1, <2>2, MarketBounds DEF Init, EventsInv
<1>2. EventsInv /\ [Next]_vars => EventsInv'
  <2> SUFFICES ASSUME EventsInv, Next PROVE EventsInv'
    BY DEF EventsInv, vars
  <2>1. PICK e \in AnEvent : /\ Room /\ events' = events \cup {e}
                             /\ e \in Quote => SendQuote(e)
    <3>1. \A e \in Trade \cup BookUpdate \cup DeadLetter : e \notin Quote
      BY CoinsAssumption DEF Quote, RestTopic, Trade, BookUpdate, DeadLetter
    <3> QED BY <3>1 DEF Next, SendTrade, SendBook, SendQuote, SendDeadLetter, AnEvent
  <2>2. events' \subseteq AnEvent
    BY <2>1 DEF EventsInv
  <2>3. IsFiniteSet(events') /\ Cardinality(events') <= MaxEvents
    <3>1. /\ IsFiniteSet(events \cup {e})
          /\ Cardinality(events \cup {e}) \in {Cardinality(events), Cardinality(events) + 1}
      BY FS_AddElement DEF EventsInv
    <3>2. Cardinality(events) \in Nat
      BY FS_CardinalityType DEF EventsInv
    <3> QED BY <2>1, <3>1, <3>2, MarketBounds DEF Room
  <2>4. ASSUME NEW p \in StgRestQuotes(events'), NEW q \in StgRestQuotes(events'),
               Instrument(p) = Instrument(q), p.event = q.event
        PROVE  p = q
    <3>1. /\ p \in Quote /\ q \in Quote
          /\ p \in events \cup {e} /\ q \in events \cup {e}
      BY <2>1, <2>2, StagedEvents
    <3>2. \A r \in events \cap Quote : r \in StgRestQuotes(events)
      BY StagedEvents DEF EventsInv
    <3>3. p.topic = q.topic /\ p.symbol = q.symbol
      BY <2>4, <3>1, EventTypes DEF Instrument
    <3>4. ASSUME e \in Quote, NEW r \in events, r.topic = e.topic, r.symbol = e.symbol,
                 r.event = e.event
          PROVE  FALSE
      BY <2>1, <3>4 DEF SendQuote
    <3>5. CASE p \in events /\ q \in events
      BY <2>4, <3>1, <3>2, <3>5 DEF EventsInv
    <3>6. CASE p = e /\ q \in events
      BY <2>4, <3>1, <3>3, <3>4, <3>6
    <3>7. CASE q = e /\ p \in events
      BY <2>4, <3>1, <3>3, <3>4, <3>7
    <3> QED BY <3>1, <3>5, <3>6, <3>7
  <2> QED BY <2>2, <2>3, <2>4 DEF EventsInv
<1> QED BY <1>1, <1>2, PTL DEF Spec

-----------------------------------------------------------------------------
\* The candles of the trades' venue and of the pollers', in one table.
LEMMA UnionOfTables ==
    ASSUME NEW sent, sent \subseteq AnEvent,
           NEW trades \in CandleTables(StgTrades(sent)),
           NEW quotes \in CandleTables(StgRestQuotes(sent))
    PROVE  Unique(trades \cup quotes)
<1>1. /\ Summarises(trades, StgTrades(sent)) /\ Unique(trades)
      /\ Summarises(quotes, StgRestQuotes(sent)) /\ Unique(quotes)
  BY CandleTable
<1>2. \A k \in trades : k.exchange = "binance"
  BY <1>1, StagedEvents, EventTypes DEF Summarises, IsOf, Instrument
<1>3. \A k \in quotes : k.exchange \in {"coingecko", "cryptocompare"}
  BY <1>1, StagedEvents, EventTypes DEF Summarises, IsOf, Instrument
<1>4. \A k \in trades, l \in quotes : ~SameKey(k, l) /\ ~SameKey(l, k)
  BY <1>2, <1>3 DEF SameKey, Instrument
<1> QED BY <1>1, <1>4 DEF Unique

\* What relates a mart to the candles it shows.
Shows(mart, candles) ==
    /\ Unique(candles) /\ Unique(mart)
    /\ \A r \in mart : \E o \in candles : \E j : \E spikes :
          j[1] = o /\ r = FctRow(candles, spikes, BronzeLetters(events), j)
    /\ \A o \in candles : \E r \in mart : SameKey(r, o)

LEMMA MartOf ==
    ASSUME EventsInv, NEW mart \in Marts(events)
    PROVE  \E trades \in CandleTables(StgTrades(events)),
              quotes \in CandleTables(StgRestQuotes(events)) :
              Shows(mart, trades \cup quotes)
<1>1. PICK trades \in CandleTables(StgTrades(events)),
           quotes \in CandleTables(StgRestQuotes(events)) :
              mart = Fct(trades \cup quotes, {c \in trades : Spike(trades, c)},
                         DepthTable(StgDepth(events)), BronzeLetters(events))
  BY DEF Marts
<1>2. Unique(trades \cup quotes)
  BY UnionOfTables DEF EventsInv
<1>3. Unique(DepthTable(StgDepth(events)))
  BY DepthIsUnique
<1> DEFINE candles == trades \cup quotes
           spikes == {c \in trades : Spike(trades, c)}
           depth == DepthTable(StgDepth(events))
           letters == BronzeLetters(events)
<1> HIDE DEF candles, spikes, depth, letters
<1>4. mart = Fct(candles, spikes, depth, letters)
  BY <1>1 DEF candles, spikes, depth, letters
<1>5. Unique(candles) /\ Unique(depth)
  BY <1>2, <1>3 DEF candles, depth
<1>6. /\ \A r \in mart : \E o \in candles : \E j :
            j[1] = o /\ r = FctRow(candles, spikes, letters, j)
      /\ \A o \in candles : \E r \in mart : SameKey(r, o)
      /\ Unique(mart)
  BY <1>4, <1>5, FctKeepsCandles
<1>7. \A r \in mart : \E o \in candles : \E j : \E s :
         j[1] = o /\ r = FctRow(candles, s, letters, j)
  BY <1>6, Zenon
<1> QED BY <1>2, <1>6, <1>7 DEF candles, letters, Shows

LEMMA OneRowPerMinute ==
    ASSUME EventsInv
    PROVE  UniqueGrain
<1> SUFFICES ASSUME NEW mart \in Marts(events),
                    NEW e \in StgTrades(events) \cup StgRestQuotes(events)
             PROVE  Cardinality({r \in mart : Instrument(r) = Instrument(e)
                                              /\ r.minute = Minute(e)}) = 1
  BY DEF UniqueGrain
<1>1. PICK trades \in CandleTables(StgTrades(events)),
           quotes \in CandleTables(StgRestQuotes(events)) :
              Shows(mart, trades \cup quotes)
  BY MartOf
<1>2. PICK k \in trades \cup quotes : IsOf(k, e)
  BY CandleTable DEF Summarises
<1>3. PICK r \in mart : SameKey(r, k)
  BY <1>1 DEF Shows
<1>4. {q \in mart : Instrument(q) = Instrument(e) /\ q.minute = Minute(e)} = {r}
  BY <1>1, <1>2, <1>3 DEF Shows, Unique, SameKey, IsOf
<1> QED BY <1>4, FS_Singleton

(***************************************************************************)
(* One row per exchange, symbol and minute, through the union of two       *)
(* tables and two joins, and no minute with a price left out               *)
(* (fct_market_metrics_unique_grain.sql, fct_market_metrics.sql:54-88).    *)
(***************************************************************************)
THEOREM GrainIsUnique == Spec => []UniqueGrain
<1>1. EventsInv => UniqueGrain
  BY OneRowPerMinute
<1> QED BY <1>1, EventsInvariant, PTL

-----------------------------------------------------------------------------
\* The types of the mart's columns.

LEMMA CandleTypes ==
    ASSUME NEW rows, \A r \in rows : r.event \in Times /\ r.price \in Prices,
           NEW table \in CandleTables(rows)
    PROVE  \A k \in table : /\ {k.open, k.close} \subseteq Prices
                            /\ k.minute \in {t \div PerMinute : t \in Times}
                            /\ k.minute \in Int
<1> TAKE k \in table
<1>1. PICK r \in rows : IsOf(k, r) /\ k.rows = GroupOf(rows, r)
  BY CandleTable DEF Summarises
<1>2. k.rows \subseteq rows
  BY <1>1 DEF GroupOf
<1>3. PICK f \in Earliest(k.rows), l \in Latest(k.rows) :
         k.open = f.price /\ k.close = l.price
  BY CandleTable
<1>4. f \in rows /\ l \in rows
  BY <1>2, <1>3 DEF Earliest, Latest
<1>5. k.minute = r.event \div PerMinute
  BY <1>1 DEF IsOf, Minute
<1>6. k.minute \in Int
  <2>1. r.event \in Nat
    BY <1>1, MarketData
  <2>2. \A n \in Nat : n \div PerMinute \in Int
    BY PerMinuteAssumption
  <2> QED BY <1>5, <2>1, <2>2
<1> QED BY <1>3, <1>4, <1>5, <1>6

\* The row before is one row, so a return has one price it is from.
LEMMA LagIsOne ==
    ASSUME NEW table, Unique(table), \A k \in table : k.minute \in Int, NEW c
    PROVE  \A k, l \in Lag(table, c) : k = l
<1> TAKE k, l \in Lag(table, c)
<1>1. /\ k \in table /\ l \in table
      /\ Instrument(k) = Instrument(l)
      /\ k.minute <= l.minute /\ l.minute <= k.minute
  BY DEF Lag, Partition
<1>2. k.minute = l.minute
  BY <1>1
<1> QED BY <1>1, <1>2 DEF Unique, SameKey

LEMMA AtMostOne ==
    ASSUME NEW S, \A x, y \in S : x = y
    PROVE  Cardinality(S) <= 1
<1>1. CASE S = {}
  BY <1>1, FS_EmptySet
<1>2. CASE S # {}
  <2>1. PICK x \in S : S = {x}
    BY <1>2
  <2>2. Cardinality(S) = 1
    BY <2>1, FS_Singleton
  <2> QED BY <2>2
<1> QED BY <1>1, <1>2

LEMMA StagedTypes ==
    ASSUME EventsInv
    PROVE  /\ \A r \in StgTrades(events) : r.event \in Times /\ r.price \in Prices
           /\ \A r \in StgRestQuotes(events) : r.event \in Times /\ r.price \in Prices
           /\ BronzeLetters(events) = {}
BY StagedEvents, EventTypes DEF EventsInv

LEMMA MartTypes ==
    ASSUME EventsInv
    PROVE  TypeOK
<1> SUFFICES ASSUME NEW mart \in Marts(events), NEW r \in mart
             PROVE  /\ {r.open, r.close} \subseteq Prices
                    /\ r.minute \in {t \div PerMinute : t \in Times}
                    /\ r.letters \in 0 .. MaxEvents
                    /\ Cardinality(r.return) <= 1
  BY DEF TypeOK, EventsInv, AnEvent
<1>1. PICK trades \in CandleTables(StgTrades(events)),
           quotes \in CandleTables(StgRestQuotes(events)) :
              Shows(mart, trades \cup quotes)
  BY MartOf
<1> DEFINE candles == trades \cup quotes
<1>2. PICK o, j, spikes :
         o \in candles /\ j[1] = o /\ r = FctRow(candles, spikes, BronzeLetters(events), j)
  BY <1>1 DEF Shows
<1>3. \A k \in candles : /\ {k.open, k.close} \subseteq Prices
                         /\ k.minute \in {t \div PerMinute : t \in Times}
                         /\ k.minute \in Int
  BY StagedTypes, CandleTypes
<1>4. Unique(candles)
  BY <1>1 DEF Shows
<1> HIDE DEF candles
<1>5. /\ r.open = o.open /\ r.close = o.close /\ r.minute = o.minute
      /\ r.letters = DeadLetters({}, o)
      /\ r.return = {<<k.minute, k.close>> : k \in Lag(candles, o)}
  BY <1>2, StagedTypes DEF FctRow
<1>6. r.letters = 0
  BY <1>5, FS_EmptySet DEF DeadLetters
<1>7. Cardinality(r.return) <= 1
  <2>1. \A k, l \in Lag(candles, o) : k = l
    BY <1>3, <1>4, LagIsOne
  <2>2. \A x, y \in r.return : x = y
    BY <1>5, <2>1
  <2> QED BY <2>2, AtMostOne
<1> QED BY <1>2, <1>3, <1>5, <1>6, <1>7, MarketBounds

(***************************************************************************)
(* The events and the mart's columns have their types: prices and minutes  *)
(* that the events have, and at most one row before that a return is from  *)
(* (fct_market_metrics.sql:90-99).                                         *)
(***************************************************************************)
THEOREM TypeCorrect == Spec => []TypeOK
<1>1. EventsInv => TypeOK
  BY MartTypes
<1> QED BY <1>1, EventsInvariant, PTL

-----------------------------------------------------------------------------
\* What may be chosen when a table is built.

\* A group has an earliest row and a latest one.
LEMMA ExtremesExist ==
    ASSUME NEW rows, IsFiniteSet(rows), rows # {}, \A r \in rows : r.event \in Nat
    PROVE  Earliest(rows) # {} /\ Latest(rows) # {}
<1>1. Earliest(rows) # {}
  <2> DEFINE T == {r.event : r \in rows}
  <2>1. PICK m \in T : \A n \in T : m <= n
    BY LeastNatural
  <2> QED BY <2>1 DEF Earliest
<1>2. Latest(rows) # {}
  <2> DEFINE F == {A \in SUBSET rows : A = {} \/ Latest(A) # {}}
  <2>1. ASSUME NEW A \in SUBSET rows, A # {}, \A x \in A : A \ {x} \in F
        PROVE  A \in F
    <3>1. PICK x \in A : TRUE
      BY <2>1
    <3>2. CASE A \ {x} = {}
      <4>1. x \in Latest(A)
        BY <3>1, <3>2 DEF Latest
      <4> QED BY <4>1
    <3>3. CASE A \ {x} # {}
      <4>1. PICK y \in Latest(A \ {x}) : TRUE
        BY <2>1, <3>3
      <4>2. y \in A /\ \A q \in A : q = x \/ q.event <= y.event
        BY <4>1 DEF Latest
      <4>3. CASE x.event <= y.event
        <5>1. y \in Latest(A)
          BY <4>2, <4>3 DEF Latest
        <5> QED BY <5>1
      <4>4. CASE ~(x.event <= y.event)
        <5>1. y.event <= x.event
          BY <3>1, <4>2, <4>4
        <5>2. \A q \in A : q.event \in Nat
          OBVIOUS
        <5>3. x \in Latest(A)
          BY <3>1, <4>2, <5>1, <5>2 DEF Latest
        <5> QED BY <5>3
      <4> QED BY <4>3, <4>4
    <3> QED BY <3>2, <3>3
  <2>2. {} \in F
    OBVIOUS
  <2> HIDE DEF F
  <2>3. \A A \in SUBSET rows : A \in F
    BY <2>1, <2>2, FiniteSetInduction
  <2> QED BY <2>3 DEF F
<1> QED BY <1>1, <1>2

\* So every group has a candle.
LEMMA CandleExists ==
    ASSUME NEW rows, IsFiniteSet(rows), \A r \in rows : r.event \in Nat
    PROVE  \A group \in Groups(rows) : group \subseteq rows /\ Candles(group) # {}
<1> TAKE group \in Groups(rows)
<1>1. PICK r \in rows : group = GroupOf(rows, r)
  BY DEF Groups, GroupOf
<1>2. group \subseteq rows /\ r \in group
  BY <1>1 DEF GroupOf
<1>3. IsFiniteSet(group)
  BY <1>2, FS_Subset
<1>4. PICK f \in Earliest(group), l \in Latest(group) : TRUE
  BY <1>2, <1>3, ExtremesExist
<1>5. [exchange |-> r.exchange, symbol |-> r.symbol, minute |-> Minute(r),
       rows |-> group, open |-> f.price, close |-> l.price] \in Candles(group)
  BY <1>2, <1>4 DEF Candles
<1> QED BY <1>2, <1>5

\* There is a choice if no set is empty, and one only if each set has one element.
LEMMA ChoicesExist ==
    ASSUME NEW Sets, \A T \in Sets : T # {}
    PROVE  Choices(Sets) # {}
<1> DEFINE f == [T \in Sets |-> CHOOSE x \in T : TRUE]
<1>1. \A T \in Sets : f[T] \in T
  OBVIOUS
<1>2. f \in [Sets -> UNION Sets]
  BY <1>1
<1> HIDE DEF f
<1>3. Range(f) \in Choices(Sets)
  BY <1>1, <1>2 DEF Choices
<1> QED BY <1>3

LEMMA OneChoice ==
    ASSUME NEW Sets, \A T \in Sets : \A x, y \in T : x = y
    PROVE  \A C, D \in Choices(Sets) : C = D
<1>1. \A E \in Choices(Sets) :
         \E f \in [Sets -> UNION Sets] : /\ E = {f[T] : T \in Sets}
                                        /\ \A T \in Sets : f[T] \in T
  BY ChoicesPick
<1> TAKE C, D \in Choices(Sets)
<1>2. PICK f \in [Sets -> UNION Sets], g \in [Sets -> UNION Sets] :
         /\ C = {f[T] : T \in Sets} /\ D = {g[T] : T \in Sets}
         /\ \A T \in Sets : f[T] \in T /\ g[T] \in T
  <2>1. PICK f \in [Sets -> UNION Sets] : C = {f[T] : T \in Sets} /\ \A T \in Sets : f[T] \in T
    BY <1>1, Zenon
  <2>2. PICK g \in [Sets -> UNION Sets] : D = {g[T] : T \in Sets} /\ \A T \in Sets : g[T] \in T
    BY ONLY <1>1, D \in Choices(Sets), Zenon
  <2> QED BY <2>1, <2>2
<1>3. \A T \in Sets : f[T] = g[T]
  BY <1>2
<1> QED BY <1>2, <1>3

\* Without ties there is nothing to choose.
LEMMA OneTable ==
    ASSUME NEW rows, IsFiniteSet(rows), \A r \in rows : r.event \in Nat,
           \A p, q \in rows :
              Instrument(p) = Instrument(q) /\ p.event = q.event => p.price = q.price
    PROVE  /\ CandleTables(rows) # {}
           /\ \A s, t \in CandleTables(rows) : s = t
<1> DEFINE Sets == {Candles(group) : group \in Groups(rows)}
<1>1. \A T \in Sets : T # {}
  BY CandleExists
<1>2. ASSUME NEW group \in Groups(rows), NEW x \in Candles(group), NEW y \in Candles(group)
      PROVE  x = y
  <2>1. PICK r \in rows : group = GroupOf(rows, r)
    BY DEF Groups, GroupOf
  <2>2. \A q \in group : q \in rows /\ Instrument(q) = Instrument(r) /\ Minute(q) = Minute(r)
    BY <2>1 DEF GroupOf
  <2>3. PICK q \in group, f \in Earliest(group), l \in Latest(group) :
           x = [exchange |-> q.exchange, symbol |-> q.symbol, minute |-> Minute(q),
                rows |-> group, open |-> f.price, close |-> l.price]
    BY DEF Candles
  <2>4. PICK p \in group, a \in Earliest(group), b \in Latest(group) :
           y = [exchange |-> p.exchange, symbol |-> p.symbol, minute |-> Minute(p),
                rows |-> group, open |-> a.price, close |-> b.price]
    BY DEF Candles
  <2>5. \A m, n \in Nat : m <= n /\ n <= m => m = n
    OBVIOUS
  <2>6. /\ f \in group /\ a \in group /\ f.event <= a.event /\ a.event <= f.event
        /\ l \in group /\ b \in group /\ l.event <= b.event /\ b.event <= l.event
    BY DEF Earliest, Latest
  <2>7. f.event = a.event /\ l.event = b.event
    BY <2>2, <2>5, <2>6
  <2>8. f.price = a.price /\ l.price = b.price
    BY <2>2, <2>6, <2>7
  <2>9. q.exchange = p.exchange /\ q.symbol = p.symbol /\ Minute(q) = Minute(p)
    BY <2>2 DEF Instrument
  <2> QED BY <2>3, <2>4, <2>8, <2>9
<1>3. \A T \in Sets : \A x, y \in T : x = y
  BY <1>2
<1>4. CandleTables(rows) = Choices(Sets)
  BY DEF CandleTables
<1> HIDE DEF Sets
<1> QED BY <1>1, <1>3, <1>4, ChoicesExist, OneChoice

LEMMA SameMart ==
    ASSUME EventsInv
    PROVE  RebuildRepeats
<1> DEFINE A == StgTrades(events)
           B == StgRestQuotes(events)
           Mart(trades, quotes) ==
              Fct(trades \cup quotes, {c \in trades : Spike(trades, c)},
                  DepthTable(StgDepth(events)), BronzeLetters(events))
<1> SUFFICES ASSUME \A a, b \in A : Instrument(a) = Instrument(b) /\ a.event = b.event
                                       => a.price = b.price
             PROVE  Cardinality(Marts(events)) = 1
  BY DEF RebuildRepeats
<1>1. /\ A \subseteq events /\ B \subseteq events
  BY StagedEvents DEF EventsInv
<1>2. IsFiniteSet(A) /\ IsFiniteSet(B)
  BY <1>1, FS_Subset DEF EventsInv
<1>3. \A r \in A \cup B : r.event \in Nat
  BY StagedTypes, MarketData
<1>4. \A p, q \in B : Instrument(p) = Instrument(q) /\ p.event = q.event
                         => p.price = q.price
  BY DEF EventsInv
<1>5. Marts(events) = {Mart(t, q) : t \in CandleTables(A), q \in CandleTables(B)}
  BY DEF Marts
<1> HIDE DEF A, B, Mart
<1>6. CandleTables(A) # {} /\ \A s, t \in CandleTables(A) : s = t
  BY <1>2, <1>3, OneTable
<1>7. CandleTables(B) # {} /\ \A s, t \in CandleTables(B) : s = t
  BY <1>2, <1>3, <1>4, OneTable
<1>8. PICK t \in CandleTables(A), q \in CandleTables(B) : TRUE
  BY <1>6, <1>7
<1>9. Marts(events) = {Mart(t, q)}
  BY <1>5, <1>6, <1>7, <1>8
<1> QED BY <1>9, FS_Singleton

(***************************************************************************)
(* A rebuild over the same bronze gives the same mart, but for trades of   *)
(* one symbol and millisecond with different prices                        *)
(* (int_ohlcv_1m.sql:17-20, int_rest_quotes_1m.sql).                       *)
(***************************************************************************)
THEOREM RebuildsAgree == Spec => []RebuildRepeats
<1>1. EventsInv => RebuildRepeats
  BY SameMart
<1> QED BY <1>1, EventsInvariant, PTL

-----------------------------------------------------------------------------
\* The report.

Venues == {"binance", "coingecko", "cryptocompare"}

\* The rows of an asset and a minute, of one venue each.
RivalSet(V) ==
    /\ V # {}
    /\ \A q \in V : q.exchange \in Venues /\ q.close \in Int
    /\ \A p, q \in V : p.exchange = q.exchange => p = q

CheaperThan(V, r) == {q \in V : Cheaper(q, r)}
Rank(V, r) == 1 + Cardinality(CheaperThan(V, r))

LEMMA AlphabeticalOrder ==
    \A p, q, r :
        /\ p.exchange \in Venues /\ q.exchange \in Venues
        => /\ ~Alphabetical(p, p)
           /\ ~(Alphabetical(p, q) /\ Alphabetical(q, p))
           /\ Alphabetical(p, q) /\ Alphabetical(q, r) => Alphabetical(p, r)
           /\ Alphabetical(p, q) \/ Alphabetical(q, p) \/ p.exchange = q.exchange
<1> TAKE p, q, r
<1> HAVE p.exchange \in Venues /\ q.exchange \in Venues
<1>1. DOMAIN Exchanges \subseteq Nat
  BY ExchangesAssumption
<1>2. \A i, j \in DOMAIN Exchanges : Exchanges[i] = Exchanges[j] => i = j
  BY ExchangesAssumption DEF IsInjective
<1>3. PICK i \in DOMAIN Exchanges : Exchanges[i] = p.exchange
  BY ExchangesAssumption DEF Range, Venues
<1>4. PICK j \in DOMAIN Exchanges : Exchanges[j] = q.exchange
  BY ExchangesAssumption DEF Range, Venues
<1>5. \A m, n \in DOMAIN Exchanges : m < n \/ n < m \/ m = n
  BY <1>1
<1>6. \A k, m, n \in DOMAIN Exchanges : ~(k < k) /\ ~(k < m /\ m < k)
                                        /\ (k < m /\ m < n => k < n)
  BY <1>1
<1>7. Alphabetical(p, q) <=> i < j
  BY <1>2, <1>3, <1>4 DEF Alphabetical
<1>8. Alphabetical(q, p) <=> j < i
  BY <1>2, <1>3, <1>4 DEF Alphabetical
<1>9. ~Alphabetical(p, p)
  BY <1>2, <1>3, <1>6 DEF Alphabetical
<1>10. ASSUME Alphabetical(p, q), Alphabetical(q, r) PROVE Alphabetical(p, r)
  <2>1. PICK k, n \in DOMAIN Exchanges :
           k < n /\ Exchanges[k] = q.exchange /\ Exchanges[n] = r.exchange
    BY <1>10 DEF Alphabetical
  <2>2. k = j
    BY <1>2, <1>4, <2>1
  <2>3. i < n
    BY <1>6, <1>7, <1>10, <2>1, <2>2
  <2> QED BY <1>3, <2>1, <2>3 DEF Alphabetical
<1> QED BY <1>3, <1>4, <1>5, <1>6, <1>7, <1>8, <1>9, <1>10

\* By price, then by name: a strict order of the rivals.
LEMMA CheaperOrder ==
    ASSUME NEW V, RivalSet(V)
    PROVE  \A p, q, r \in V : /\ ~Cheaper(p, p)
                              /\ Cheaper(p, q) \/ Cheaper(q, p) \/ p = q
                              /\ Cheaper(p, q) /\ Cheaper(q, r) => Cheaper(p, r)
<1> TAKE p, q, r \in V
<1>1. /\ p.close \in Int /\ q.close \in Int /\ r.close \in Int
      /\ p.exchange \in Venues /\ q.exchange \in Venues /\ r.exchange \in Venues
      /\ p.exchange = q.exchange => p = q
  BY DEF RivalSet
<1>2. /\ ~Alphabetical(p, p)
      /\ Alphabetical(p, q) /\ Alphabetical(q, r) => Alphabetical(p, r)
      /\ Alphabetical(p, q) \/ Alphabetical(q, p) \/ p.exchange = q.exchange
  BY <1>1, AlphabeticalOrder
<1> QED BY <1>1, <1>2 DEF Cheaper

\* There are no more rivals than venues.
LEMMA RivalsFinite ==
    ASSUME NEW V, RivalSet(V)
    PROVE  IsFiniteSet(V) /\ Cardinality(V) \in Nat
<1> DEFINE f == [q \in V |-> q.exchange]
<1>1. f \in Injection(V, Venues)
  BY DEF RivalSet, Injection, IsInjective
<1>2. IsFiniteSet(Venues)
  <2>1. IsFiniteSet({"binance"})
    BY FS_Singleton
  <2>2. IsFiniteSet({"binance"} \cup {"coingecko"})
    BY <2>1, FS_AddElement
  <2>3. IsFiniteSet(({"binance"} \cup {"coingecko"}) \cup {"cryptocompare"})
    BY <2>2, FS_AddElement
  <2>4. Venues = ({"binance"} \cup {"coingecko"}) \cup {"cryptocompare"}
    BY DEF Venues
  <2> QED BY <2>3, <2>4
<1> HIDE DEF f
<1>3. IsFiniteSet(V)
  BY <1>1, <1>2, FS_Injection
<1> QED BY <1>3, FS_CardinalityType

\* The ranks are the numbers from 1 to the number of rivals.
LEMMA RanksAreDense ==
    ASSUME NEW V, RivalSet(V)
    PROVE  {Rank(V, q) : q \in V} = 1 .. Cardinality(V)
<1> DEFINE n == Cardinality(V)
           f == [q \in V |-> Rank(V, q)]
<1>1. IsFiniteSet(V) /\ n \in Nat
  BY RivalsFinite
<1>2. \A r \in V : /\ IsFiniteSet(CheaperThan(V, r))
                   /\ Cardinality(CheaperThan(V, r)) \in Nat
  BY <1>1, FS_Subset, FS_CardinalityType DEF CheaperThan
<1>3. \A r \in V : Rank(V, r) \in 1 .. n
  <2> TAKE r \in V
  <2>1. Cardinality(V \ {r}) = n - 1 /\ IsFiniteSet(V \ {r})
    BY <1>1, FS_RemoveElement
  <2>2. CheaperThan(V, r) \subseteq V \ {r}
    BY CheaperOrder DEF CheaperThan
  <2>3. Cardinality(CheaperThan(V, r)) <= n - 1
    BY <2>1, <2>2, FS_Subset
  <2> HIDE DEF n
  <2> QED BY <1>1, <1>2, <2>3 DEF Rank
<1>4. ASSUME NEW p \in V, NEW r \in V, Cheaper(p, r)
      PROVE  Rank(V, p) < Rank(V, r)
  <2>1. /\ CheaperThan(V, p) \cup {p} \subseteq CheaperThan(V, r)
        /\ p \notin CheaperThan(V, p)
    BY <1>4, CheaperOrder DEF CheaperThan
  <2>2. Cardinality(CheaperThan(V, p) \cup {p}) = Cardinality(CheaperThan(V, p)) + 1
    BY <1>2, <2>1, FS_AddElement
  <2>3. Cardinality(CheaperThan(V, p) \cup {p}) <= Cardinality(CheaperThan(V, r))
    BY <1>2, <2>1, FS_Subset
  <2> QED BY <1>2, <2>2, <2>3 DEF Rank
<1>5. \A p, r \in V : Rank(V, p) = Rank(V, r) => p = r
  BY <1>3, <1>4, CheaperOrder
<1>6. f \in Injection(V, 1 .. n)
  BY <1>3, <1>5 DEF Injection, IsInjective
<1>7. IsFiniteSet(1 .. n) /\ Cardinality(1 .. n) = n
  <2>1. \A m \in Nat : IsFiniteSet(1 .. m) /\ Cardinality(1 .. m) = m
    <3> TAKE m \in Nat
    <3>1. /\ IsFiniteSet(1 .. m)
          /\ Cardinality(1 .. m) = IF 1 > m THEN 0 ELSE m - 1 + 1
      BY FS_Interval
    <3> QED BY <3>1
  <2> QED BY <1>1, <2>1
<1> HIDE DEF f
<1>8. f \in Surjection(V, 1 .. n)
  BY <1>6, <1>7, FS_Injection
<1>9. 1 .. n = {f[q] : q \in V}
  BY <1>8 DEF Surjection
<1> QED BY <1>9 DEF f

ReportRow(V, r) ==
    [minute |-> r.minute, base |-> Base(r), exchange |-> r.exchange,
     symbol |-> r.symbol, close |-> r.close, rank |-> Rank(V, r),
     cheapest |-> CheapestOf(V), dearest |-> DearestOf(V),
     premium |-> r.close - Min({q.close : q \in V}),
     spread |-> Max({q.close : q \in V}) - Min({q.close : q \in V})]

\* The rows the report has room for.
Compared(fct) ==
    LET base == {r \in fct : Base(r) # Unmapped}
    IN  {r \in base : ExchangesAvailable(Rivals(base, r)) > 1}

LEMMA LeastIsMin ==
    ASSUME NEW S, S \subseteq Int, NEW m \in S, \A x \in S : m <= x
    PROVE  Min(S) = m
<1>1. \A x \in S : (\A y \in S : x <= y) => x = m
  OBVIOUS
<1>2. \A y \in S : m <= y
  OBVIOUS
<1> QED BY <1>1, <1>2, Zenon DEF Min

LEMMA GreatestIsMax ==
    ASSUME NEW S, S \subseteq Int, NEW m \in S, \A x \in S : x <= m
    PROVE  Max(S) = m
<1>1. \A x \in S : (\A y \in S : x >= y) => x = m
  OBVIOUS
<1>2. \A y \in S : m >= y
  OBVIOUS
<1> QED BY <1>1, <1>2, Zenon DEF Max

\* The windows of one row agree.
LEMMA WindowsAgree ==
    ASSUME NEW V, RivalSet(V), NEW r \in V
    PROVE  LET row == ReportRow(V, r)
           IN  /\ row.rank = 1 => row.cheapest = {row.exchange} /\ row.premium = 0
               /\ row.rank = Cardinality(V) => row.premium = row.spread
               /\ row.dearest = {row.exchange} => row.premium = row.spread
<1> DEFINE closes == {q.close : q \in V}
<1>1. closes \subseteq Int /\ r.close \in closes
  BY DEF RivalSet
<1>2. /\ IsFiniteSet(V) /\ Cardinality(V) \in Nat
      /\ IsFiniteSet(CheaperThan(V, r)) /\ Cardinality(CheaperThan(V, r)) \in Nat
  BY RivalsFinite, FS_Subset, FS_CardinalityType DEF CheaperThan
<1>3. ASSUME Rank(V, r) = 1
      PROVE  CheapestOf(V) = {r.exchange} /\ Min(closes) = r.close
  <2>1. CheaperThan(V, r) = {}
    <3>1. Cardinality(CheaperThan(V, r)) = 0
      BY <1>2, <1>3 DEF Rank
    <3> QED BY <1>2, <3>1, FS_EmptySet
  <2>2. \A q \in V : ~Cheaper(q, r)
    BY <2>1 DEF CheaperThan
  <2>3. {p \in V : \A o \in V : ~Cheaper(o, p)} = {r}
    BY <2>2, CheaperOrder
  <2>4. \A q \in V : r.close <= q.close
    BY <2>2 DEF Cheaper, RivalSet
  <2>5. Min(closes) = r.close
    <3>1. \A x \in closes : r.close <= x
      BY <2>4
    <3> HIDE DEF closes
    <3> QED BY <1>1, <3>1, LeastIsMin
  <2> QED BY <2>3, <2>5 DEF CheapestOf
<1>4. ASSUME \A q \in V : q.close <= r.close
      PROVE  Max(closes) = r.close
  <2>1. \A x \in closes : x <= r.close
    BY <1>4
  <2> HIDE DEF closes
  <2> QED BY <1>1, <2>1, GreatestIsMax
<1>5. ASSUME Rank(V, r) = Cardinality(V)
      PROVE  \A q \in V : q.close <= r.close
  <2>1. /\ IsFiniteSet(V \ {r}) /\ Cardinality(V \ {r}) = Cardinality(V) - 1
    BY <1>2, FS_RemoveElement
  <2>2. CheaperThan(V, r) \subseteq V \ {r}
    BY CheaperOrder DEF CheaperThan
  <2>3. Cardinality(CheaperThan(V, r)) = Cardinality(V \ {r})
    BY <1>2, <1>5, <2>1 DEF Rank
  <2>4. CheaperThan(V, r) = V \ {r}
    BY <2>1, <2>2, <2>3, FS_Subset
  <2>5. \A q \in V : q = r \/ Cheaper(q, r)
    BY <2>4 DEF CheaperThan
  <2> QED BY <2>5 DEF Cheaper, RivalSet
<1>6. ASSUME DearestOf(V) = {r.exchange}
      PROVE  \A q \in V : q.close <= r.close
  <2>1. PICK p \in V : p.exchange = r.exchange /\ \A o \in V : ~Dearer(o, p)
    BY <1>6 DEF DearestOf
  <2>2. p = r
    BY <2>1 DEF RivalSet
  <2> QED BY <2>1, <2>2 DEF Dearer, RivalSet
<1> DEFINE row == ReportRow(V, r)
<1>7. /\ row.rank = Rank(V, r) /\ row.cheapest = CheapestOf(V)
      /\ row.dearest = DearestOf(V) /\ row.exchange = r.exchange
      /\ row.premium = r.close - Min(closes)
      /\ row.spread = Max(closes) - Min(closes)
  BY DEF ReportRow
<1> HIDE DEF row, closes
<1>8. row.rank = 1 => row.cheapest = {row.exchange} /\ row.premium = 0
  <2> SUFFICES ASSUME Rank(V, r) = 1 PROVE CheapestOf(V) = {r.exchange}
                                           /\ r.close - Min(closes) = 0
    BY <1>7
  <2>1. CheapestOf(V) = {r.exchange} /\ Min(closes) = r.close
    BY <1>3
  <2>2. r.close \in Int
    BY DEF RivalSet
  <2> QED BY <2>1, <2>2
<1>9. row.rank = Cardinality(V) => row.premium = row.spread
  BY <1>4, <1>5, <1>7
<1>10. row.dearest = {row.exchange} => row.premium = row.spread
  BY <1>4, <1>6, <1>7
<1> QED BY <1>8, <1>9, <1>10 DEF row

\* A report of a mart whose rivals are of one venue each.
LEMMA ReportOfRivals ==
    ASSUME NEW fct, Unique(fct),
           \A r \in Compared(fct) : RivalSet(Rivals(Compared(fct), r)),
           NEW r \in Report(fct)
    PROVE  LET rivals == {q \in Report(fct) : q.minute = r.minute /\ q.base = r.base}
           IN  /\ {q.rank : q \in rivals} = 1 .. Cardinality(rivals)
               /\ r.rank = 1 => r.cheapest = {r.exchange} /\ r.premium = 0
               /\ r.rank = Cardinality(rivals) => r.premium = r.spread
               /\ r.dearest = {r.exchange} => r.premium = r.spread
               /\ Cardinality({q.exchange : q \in rivals}) > 1
<1> DEFINE multi == Compared(fct)
           base == {q \in fct : Base(q) # Unmapped}
           rivals == {q \in Report(fct) : q.minute = r.minute /\ q.base = r.base}
<1>1. Report(fct) = {ReportRow(Rivals(multi, q), q) : q \in multi}
  BY DEF Report, ReportRow, Rank, CheaperThan, Compared
<1>2. PICK x \in multi : r = ReportRow(Rivals(multi, x), x)
  BY <1>1
<1> DEFINE V == Rivals(multi, x)
<1>3. RivalSet(V) /\ x \in V
  BY DEF Rivals
<1>4. \A q \in V : q \in multi /\ Rivals(multi, q) = V
  BY DEF Rivals
<1>5. \A q \in multi : q \in V <=> q.minute = x.minute /\ Base(q) = Base(x)
  BY DEF Rivals
<1>6. rivals = {ReportRow(V, q) : q \in V}
  <2> HIDE DEF multi, V
  <2>1. \A U, q : ReportRow(U, q).minute = q.minute /\ ReportRow(U, q).base = Base(q)
    BY DEF ReportRow
  <2>2. r.minute = x.minute /\ r.base = Base(x)
    BY <1>2, <2>1
  <2>3. ASSUME NEW q \in rivals PROVE q \in {ReportRow(V, y) : y \in V}
    <3>1. PICK y \in multi : q = ReportRow(Rivals(multi, y), y)
      BY <1>1
    <3>2. y \in V
      BY <1>5, <2>1, <2>2, <3>1
    <3> QED BY <1>4, <3>1, <3>2
  <2>4. ASSUME NEW y \in V PROVE ReportRow(V, y) \in rivals
    <3>1. ReportRow(V, y) \in Report(fct)
      BY <1>1, <1>4
    <3>2. y.minute = x.minute /\ Base(y) = Base(x)
      BY <1>4, <1>5
    <3> QED BY <2>1, <2>2, <3>1, <3>2
  <2> QED BY <2>3, <2>4
<1>7. Cardinality(rivals) = Cardinality(V)
  <2> DEFINE f == [q \in V |-> ReportRow(V, q)]
  <2>1. \A p, q \in V : ReportRow(V, p) = ReportRow(V, q) => p = q
    <3>1. \A q : ReportRow(V, q).exchange = q.exchange
      BY DEF ReportRow
    <3> QED BY <1>3, <3>1 DEF RivalSet
  <2>2. f \in Injection(V, rivals) /\ f \in Surjection(V, rivals)
    BY <1>6, <2>1 DEF Injection, IsInjective, Surjection
  <2>3. IsFiniteSet(V)
    BY <1>3, RivalsFinite
  <2> HIDE DEF f, V, rivals
  <2> QED BY <2>2, <2>3, FS_Surjection
<1>8. {q.rank : q \in rivals} = 1 .. Cardinality(rivals)
  <2>1. \A q : ReportRow(V, q).rank = Rank(V, q)
    BY DEF ReportRow
  <2>2. {q.rank : q \in rivals} = {Rank(V, q) : q \in V}
    BY <1>6, <2>1
  <2> QED BY <1>3, <1>7, <2>2, RanksAreDense
<1>9. Cardinality({q.exchange : q \in rivals}) > 1
  <2>1. \A q : ReportRow(V, q).exchange = q.exchange
    BY DEF ReportRow
  <2>2. {q.exchange : q \in rivals} = {q.exchange : q \in V}
    BY <1>6, <2>1
  <2>3. ExchangesAvailable(Rivals(base, x)) > 1
    BY DEF Compared
  <2>4. Rivals(base, x) = V
    BY DEF Rivals, Compared
  <2> QED BY <2>2, <2>3, <2>4 DEF ExchangesAvailable
<1>10. /\ r.rank = 1 => r.cheapest = {r.exchange} /\ r.premium = 0
       /\ r.rank = Cardinality(V) => r.premium = r.spread
       /\ r.dearest = {r.exchange} => r.premium = r.spread
  BY <1>2, <1>3, WindowsAgree
<1> QED BY <1>7, <1>8, <1>9, <1>10

\* A row of the mart has a venue, a price and a place in the seed.
LEMMA MartRows ==
    ASSUME EventsInv, NEW mart \in Marts(events)
    PROVE  /\ Unique(mart)
           /\ \A r \in mart : /\ r.exchange \in Venues /\ r.close \in Int
                              /\ Instrument(r) \in DOMAIN BaseAsset
<1>1. PICK trades \in CandleTables(StgTrades(events)),
           quotes \in CandleTables(StgRestQuotes(events)) :
              Shows(mart, trades \cup quotes)
  BY MartOf
<1>2. \A e \in Trade : e.exchange \in Venues /\ Instrument(e) \in DOMAIN BaseAsset
  BY SeedAssumption DEF Trade, Instrument, Venues
<1>3. \A e \in Quote : e.exchange \in Venues /\ Instrument(e) \in DOMAIN BaseAsset
  <2> TAKE e \in Quote
  <2>1. PICK c \in Coins : e.exchange = c[1] /\ e.symbol = c[2]
    BY DEF Quote
  <2>2. Instrument(e) = c
    BY <2>1, CoinsAssumption DEF Instrument
  <2> QED BY <2>1, <2>2, SeedAssumption, EventTypes DEF Venues
<1>4. \A e \in StgTrades(events) \cup StgRestQuotes(events) :
         e.exchange \in Venues /\ Instrument(e) \in DOMAIN BaseAsset
  BY <1>2, <1>3, StagedEvents DEF EventsInv
<1>5. ASSUME NEW o \in trades \cup quotes
      PROVE  /\ o.exchange \in Venues /\ o.close \in Int
             /\ Instrument(o) \in DOMAIN BaseAsset
  <2>1. PICK e \in StgTrades(events) \cup StgRestQuotes(events) : IsOf(o, e)
    BY CandleTable DEF Summarises
  <2>2. Instrument(o) = Instrument(e) /\ o.exchange = e.exchange
    BY <2>1 DEF IsOf, Instrument
  <2>3. o.close \in Prices
    BY StagedTypes, CandleTypes
  <2> QED BY <1>4, <2>1, <2>2, <2>3, MarketData
<1>6. ASSUME NEW r \in mart
      PROVE  /\ r.exchange \in Venues /\ r.close \in Int
             /\ Instrument(r) \in DOMAIN BaseAsset
  <2>1. PICK o, j, spikes :
           /\ o \in trades \cup quotes /\ j[1] = o
           /\ r = FctRow(trades \cup quotes, spikes, BronzeLetters(events), j)
    BY <1>1 DEF Shows
  <2>2. r.exchange = o.exchange /\ r.close = o.close /\ Instrument(r) = Instrument(o)
    BY <2>1 DEF FctRow, Instrument
  <2> QED BY <1>5, <2>1, <2>2
<1> QED BY <1>1, <1>6 DEF Shows

LEMMA MartRivals ==
    ASSUME EventsInv, NEW mart \in Marts(events), NEW r \in Compared(mart)
    PROVE  RivalSet(Rivals(Compared(mart), r))
<1> DEFINE V == Rivals(Compared(mart), r)
<1>1. r \in V
  BY DEF Rivals
<1>2. \A q \in V : q \in mart /\ q.minute = r.minute /\ Base(q) = Base(r)
                   /\ Base(q) # Unmapped
  BY DEF Rivals, Compared
<1> HIDE DEF V
<1>3. \A q \in V : q.exchange \in Venues /\ q.close \in Int
  BY <1>2, MartRows
<1>4. ASSUME NEW p \in V, NEW q \in V, p.exchange = q.exchange PROVE p = q
  <2>1. /\ Instrument(p) \in DOMAIN BaseAsset /\ Instrument(q) \in DOMAIN BaseAsset
        /\ Unique(mart)
    BY <1>2, MartRows
  <2>2. Instrument(p)[1] = p.exchange /\ Instrument(q)[1] = q.exchange
    BY DEF Instrument
  <2>3. Instrument(p) = Instrument(q)
    BY <1>2, <1>4, <2>1, <2>2, SeedAssumption DEF Base
  <2> QED BY <1>2, <2>1, <2>3 DEF Unique, SameKey
<1>5. RivalSet(V)
  BY <1>1, <1>3, <1>4 DEF RivalSet
<1> QED BY <1>5 DEF V

LEMMA ReportsAgreeInMarts ==
    ASSUME EventsInv
    PROVE  ReportAgrees
<1> SUFFICES ASSUME NEW mart \in Marts(events), NEW r \in Report(mart)
             PROVE  LET rivals == {q \in Report(mart) : q.minute = r.minute /\ q.base = r.base}
                    IN  /\ {q.rank : q \in rivals} = 1 .. Cardinality(rivals)
                        /\ r.rank = 1 => r.cheapest = {r.exchange} /\ r.premium = 0
                        /\ r.rank = Cardinality(rivals) => r.premium = r.spread
                        /\ r.dearest = {r.exchange} => r.premium = r.spread
                        /\ Cardinality({q.exchange : q \in rivals}) > 1
  BY DEF ReportAgrees
<1>1. Unique(mart)
  BY MartRows
<1>2. \A q \in Compared(mart) : RivalSet(Rivals(Compared(mart), q))
  BY MartRivals
<1> QED BY <1>1, <1>2, ReportOfRivals

(***************************************************************************)
(* The report's six windows agree: the ranks of an asset and a minute run  *)
(* from 1 without a gap or a tie, rank 1 is the cheapest exchange, the     *)
(* last rank's premium is the spread, and at least two exchanges are       *)
(* compared (rpt_exchange_base_asset_price_comparison.sql:22-63).          *)
(***************************************************************************)
THEOREM ReportsAgree == Spec => []ReportAgrees
<1>1. EventsInv => ReportAgrees
  BY ReportsAgreeInMarts
<1> QED BY <1>1, EventsInvariant, PTL

-----------------------------------------------------------------------------
\* Late events.

\* Tables that differ at most in the row of an event.
Agree(s, t, e) == \A k : ~IsOf(k, e) => (k \in s <=> k \in t)

\* With one row more, a table can be built that keeps the other groups' candles.
LEMMA TableExtends ==
    ASSUME NEW rows, NEW e, IsFiniteSet(rows \cup {e}),
           \A r \in rows \cup {e} : r.event \in Nat,
           NEW table \in CandleTables(rows)
    PROVE  \E next \in CandleTables(rows \cup {e}) : Agree(table, next, e)
<1> DEFINE more == rows \cup {e}
           Old == {Candles(group) : group \in Groups(rows)}
           New == {Candles(group) : group \in Groups(more)}
<1>1. PICK f \in [Old -> UNION Old] : /\ table = {f[T] : T \in Old}
                                      /\ \A T \in Old : f[T] \in T
  <2>1. table \in Choices(Old)
    BY DEF CandleTables
  <2> HIDE DEF Old
  <2> QED BY <2>1, ChoicesPick
<1>2. \A T \in New : T # {}
  <2>1. \A group \in Groups(more) : Candles(group) # {}
    BY CandleExists
  <2> QED BY <2>1
<1> DEFINE g == [T \in New |-> IF T \in Old THEN f[T] ELSE CHOOSE x \in T : TRUE]
           next == {g[T] : T \in New}
<1>3. \A T \in New : g[T] \in T
  <2> HIDE DEF Old, New
  <2> QED BY <1>1, <1>2
<1>4. next \in CandleTables(more)
  <2>1. CandleTables(more) = Choices(New)
    BY DEF CandleTables
  <2> HIDE DEF Old, New
  <2>2. g \in [New -> UNION New]
    BY <1>3
  <2>3. next = Range(g)
    BY DEF Range
  <2> HIDE DEF g
  <2> QED BY <1>3, <2>1, <2>2, <2>3 DEF Choices
<1>5. /\ Groups(rows) = {GroupOf(rows, r) : r \in rows}
      /\ Groups(more) = {GroupOf(more, r) : r \in more}
  BY DEF Groups, GroupOf
<1>6. ASSUME NEW r, ~(Instrument(r) = Instrument(e) /\ Minute(r) = Minute(e))
      PROVE  GroupOf(more, r) = GroupOf(rows, r)
  BY <1>6 DEF GroupOf
<1>7. \A U, r : \A k \in Candles(GroupOf(U, r)) : IsOf(k, r)
  <2> TAKE U, r
  <2> TAKE k \in Candles(GroupOf(U, r))
  <2>1. PICK q \in GroupOf(U, r) :
           k.exchange = q.exchange /\ k.symbol = q.symbol /\ k.minute = Minute(q)
    BY DEF Candles
  <2> QED BY <2>1 DEF GroupOf, IsOf, Instrument
<1>8. ASSUME NEW k, ~IsOf(k, e) PROVE k \in table <=> k \in next
  <2>1. ASSUME k \in table PROVE k \in next
    <3>1. PICK r \in rows : /\ Candles(GroupOf(rows, r)) \in Old
                            /\ k = f[Candles(GroupOf(rows, r))]
      BY <1>1, <1>5, <2>1
    <3>2. IsOf(k, r)
      BY <1>1, <1>7, <3>1
    <3>3. GroupOf(more, r) = GroupOf(rows, r)
      BY <1>6, <1>8, <3>2 DEF IsOf
    <3>4. Candles(GroupOf(rows, r)) \in New
      BY <1>5, <3>3
    <3> HIDE DEF Old, New
    <3> QED BY <3>1, <3>4
  <2>2. ASSUME k \in next PROVE k \in table
    <3>1. PICK r \in more : /\ Candles(GroupOf(more, r)) \in New
                            /\ k = g[Candles(GroupOf(more, r))]
      <4>1. PICK T \in New : k = g[T]
        <5> HIDE DEF g, New
        <5> QED BY <2>2
      <4>2. PICK r \in more : T = Candles(GroupOf(more, r))
        BY <1>5
      <4> HIDE DEF g, New
      <4> QED BY <4>1, <4>2
    <3>2. IsOf(k, r)
      <4> HIDE DEF g, New
      <4> QED BY <1>3, <1>7, <3>1
    <3>3. /\ ~(Instrument(r) = Instrument(e) /\ Minute(r) = Minute(e)) /\ r \in rows
      BY <1>8, <3>2 DEF IsOf
    <3>4. Candles(GroupOf(more, r)) \in Old
      BY <1>5, <1>6, <3>3
    <3> HIDE DEF Old, New
    <3> QED BY <1>1, <3>1, <3>4
  <2> QED BY <2>1, <2>2
<1> HIDE DEF next, more
<1>9. Agree(table, next, e)
  BY <1>8 DEF Agree
<1> QED BY <1>4, <1>9 DEF more

\* What the windows of a candle look at.
UpTo(table, c) == {k \in Partition(table, c) : k.minute <= c.minute}

LEMMA WindowsLookBack ==
    ASSUME NEW s, NEW t, NEW e, Agree(s, t, e), NEW c,
           \A k \in s \cup t : k.minute \in Int, c.minute \in Int, Minute(e) \in Int,
           Instrument(c) # Instrument(e) \/ c.minute < Minute(e)
    PROVE  /\ Lag(s, c) = Lag(t, c)
           /\ \A n : Window(s, c, n) = Window(t, c, n)
<1>1. ASSUME NEW k \in s \cup t, Instrument(k) = Instrument(c), k.minute <= c.minute
      PROVE  ~IsOf(k, e)
  <2>1. CASE Instrument(c) # Instrument(e)
    BY <1>1, <2>1 DEF IsOf
  <2>2. CASE c.minute < Minute(e)
    <3>1. k.minute # Minute(e)
      BY <1>1, <2>2
    <3> QED BY <3>1 DEF IsOf
  <2> QED BY <2>1, <2>2
<1>2. UpTo(s, c) = UpTo(t, c)
  BY <1>1 DEF UpTo, Partition, Agree
<1>3. \A table, n : Window(table, c, n) =
         {k \in UpTo(table, c) :
            Cardinality({l \in UpTo(table, c) : l.minute > k.minute}) <= n}
  BY DEF Window, UpTo
<1>4. ASSUME NEW table, \A k \in table : k.minute \in Int
      PROVE  {k \in Partition(table, c) : k.minute < c.minute} =
             {k \in UpTo(table, c) : k.minute < c.minute}
  BY <1>4 DEF UpTo, Partition
<1>5. {k \in Partition(s, c) : k.minute < c.minute} =
      {k \in Partition(t, c) : k.minute < c.minute}
  BY <1>2, <1>4
<1>6. Lag(s, c) = Lag(t, c)
  BY <1>5 DEF Lag
<1>7. \A n : Window(s, c, n) = Window(t, c, n)
  BY <1>2, <1>3
<1> QED BY <1>6, <1>7

\* The mart of candles that find no depth.
PlainRows(candles, spikes) == {FctRow(candles, spikes, {}, <<o, {}>>) : o \in candles}

\* The books' venue prices no trade and no quote, so no candle finds its depth.
LEMMA PlainMart ==
    ASSUME NEW sent, sent \subseteq AnEvent,
           NEW trades \in CandleTables(StgTrades(sent)),
           NEW quotes \in CandleTables(StgRestQuotes(sent)), NEW spikes
    PROVE  Fct(trades \cup quotes, spikes, DepthTable(StgDepth(sent)), BronzeLetters(sent))
              = PlainRows(trades \cup quotes, spikes)
<1> DEFINE candles == trades \cup quotes
           depth == DepthTable(StgDepth(sent))
           Matches(o) == {d \in depth : DepthMatch(o, d)}
<1>1. \A d \in StgDepth(sent) : d.exchange = "kraken"
  <2>1. \A e \in AnEvent : e.topic = "raw.depth.v1" => e \in BookUpdate
    BY CoinsAssumption DEF AnEvent, Trade, Quote, DeadLetter, RestTopic
  <2> QED BY <2>1 DEF StgDepth, Bronze, BookUpdate
<1>2. \A d \in depth : d.exchange = "kraken"
  BY <1>1, DepthIsUnique DEF Summarises, IsOf, Instrument
<1>3. \A o \in candles : o.exchange \in Venues
  BY CandleTable, StagedEvents, EventTypes DEF Summarises, IsOf, Instrument, Venues
<1>4. \A o \in candles : Matches(o) = {}
  <2> TAKE o \in candles
  <2>1. \A d \in depth : o.exchange # d.exchange
    BY <1>2, <1>3 DEF Venues
  <2> QED BY <2>1 DEF DepthMatch, Instrument
<1>5. Joined(candles, depth) =
         UNION {{<<o, ds>> : ds \in IF Matches(o) = {} THEN {{}} ELSE {{d} : d \in Matches(o)}} :
                   o \in candles}
  BY DEF Joined
<1> HIDE DEF candles, depth, Matches
<1>6. Joined(candles, depth) = {<<o, {}>> : o \in candles}
  BY <1>4, <1>5
<1>7. BronzeLetters(sent) = {}
  BY StagedEvents
<1>8. Fct(candles, spikes, depth, {}) =
         {FctRow(candles, spikes, {}, j) : j \in Joined(candles, depth)}
  BY DEF Fct, FctRow
<1>9. Fct(candles, spikes, depth, {}) = {FctRow(candles, spikes, {}, <<o, {}>>) : o \in candles}
  BY <1>6, <1>8
<1> QED BY <1>7, <1>9 DEF candles, depth, PlainRows

\* A build after an event that keeps the candles the event is not of.
LEMMA TablesAfter ==
    ASSUME EventsInv, EventsInv', NEW e \in AnEvent, events' = events \cup {e},
           NEW trades \in CandleTables(StgTrades(events)),
           NEW quotes \in CandleTables(StgRestQuotes(events))
    PROVE  \E t \in CandleTables(StgTrades(events')),
              q \in CandleTables(StgRestQuotes(events')) :
              /\ Agree(trades, t, e) /\ Agree(quotes, q, e)
              /\ e \notin Trade \cup Quote => t = trades /\ q = quotes
<1> DEFINE A == StgTrades(events)
           B == StgRestQuotes(events)
<1>1. /\ StgTrades(events') = events' \cap Trade /\ A = events \cap Trade
      /\ StgRestQuotes(events') = events' \cap Quote /\ B = events \cap Quote
  BY StagedEvents DEF EventsInv
<1>2. /\ IsFiniteSet(events')
      /\ \A r \in events' \cap (Trade \cup Quote) : r.event \in Nat
  BY EventTypes, MarketData DEF EventsInv
<1>3. /\ \A table : Agree(table, table, e)
  BY DEF Agree
<1>4. ASSUME e \in Trade PROVE e \notin Quote
  BY <1>4, CoinsAssumption DEF Trade, Quote, RestTopic
<1>5. /\ A \subseteq events' /\ B \subseteq events'
      /\ \A r \in A \cup B : r.event \in Nat
  BY <1>1, <1>2
<1> HIDE DEF A, B
<1>6. CASE e \in Trade
  <2>1. StgTrades(events') = A \cup {e} /\ StgRestQuotes(events') = B
    BY <1>1, <1>4, <1>6
  <2>2. IsFiniteSet(A \cup {e}) /\ \A r \in A \cup {e} : r.event \in Nat
    BY <1>1, <1>2, <2>1, FS_Subset
  <2>3. PICK t \in CandleTables(A \cup {e}) : Agree(trades, t, e)
    BY <2>2, TableExtends DEF A
  <2> QED BY <1>3, <1>6, <2>1, <2>3 DEF B
<1>7. CASE e \in Quote
  <2>1. StgRestQuotes(events') = B \cup {e} /\ StgTrades(events') = A
    BY <1>1, <1>4, <1>7
  <2>2. IsFiniteSet(B \cup {e}) /\ \A r \in B \cup {e} : r.event \in Nat
    BY <1>1, <1>2, <2>1, FS_Subset
  <2>3. PICK q \in CandleTables(B \cup {e}) : Agree(quotes, q, e)
    BY <2>2, TableExtends DEF B
  <2> QED BY <1>3, <1>7, <2>1, <2>3 DEF A
<1>8. CASE e \notin Trade \cup Quote
  <2>1. StgRestQuotes(events') = B /\ StgTrades(events') = A
    BY <1>1, <1>8
  <2> QED BY <1>3, <2>1 DEF A, B
<1> QED BY <1>6, <1>7, <1>8

LEMMA LateEvent ==
    ASSUME EventsInv, EventsInv', NEW e \in AnEvent, events' = events \cup {e},
           NEW mart \in Marts(events)
    PROVE  \E next \in Marts(events') :
              {r \in mart : IsApart(r, e)} \subseteq next
<1> DEFINE Spikes(table) == {c \in table : Spike(table, c)}
           Rows(t, q) == PlainRows(t \cup q, Spikes(t))
<1>1. ASSUME NEW sent, sent \subseteq AnEvent
      PROVE  Marts(sent) = {Rows(t, q) : t \in CandleTables(StgTrades(sent)),
                                         q \in CandleTables(StgRestQuotes(sent))}
  <2> DEFINE Mart(t, q) == Fct(t \cup q, Spikes(t), DepthTable(StgDepth(sent)),
                               BronzeLetters(sent))
  <2>1. Marts(sent) = {Mart(t, q) : t \in CandleTables(StgTrades(sent)),
                                    q \in CandleTables(StgRestQuotes(sent))}
    BY DEF Marts
  <2>2. \A t \in CandleTables(StgTrades(sent)), q \in CandleTables(StgRestQuotes(sent)) :
           Mart(t, q) = Rows(t, q)
    BY <1>1, PlainMart
  <2> HIDE DEF Mart, Rows
  <2> QED BY <2>1, <2>2
<1>2. events \subseteq AnEvent /\ events' \subseteq AnEvent
  BY DEF EventsInv
<1>3. PICK trades \in CandleTables(StgTrades(events)),
           quotes \in CandleTables(StgRestQuotes(events)) : mart = Rows(trades, quotes)
  <2> HIDE DEF Rows
  <2> QED BY <1>1, <1>2
<1>4. PICK t \in CandleTables(StgTrades(events')),
           q \in CandleTables(StgRestQuotes(events')) :
              /\ Agree(trades, t, e) /\ Agree(quotes, q, e)
              /\ e \notin Trade \cup Quote => t = trades /\ q = quotes
  BY TablesAfter
<1>5. Rows(t, q) \in Marts(events')
  <2> HIDE DEF Rows
  <2> QED BY <1>1, <1>2
<1>6. CASE e \notin Trade \cup Quote
  <2>1. mart = Rows(t, q)
    BY <1>3, <1>4, <1>6
  <2> HIDE DEF Rows
  <2> QED BY <1>5, <2>1
<1>7. CASE e \in Trade \cup Quote
  <2>1. e.topic # "dlq.trades"
    BY <1>7, CoinsAssumption DEF Trade, Quote, RestTopic
  <2>2. Minute(e) \in Int
    <3>1. e.event \in Nat
      BY <1>7, EventTypes, MarketData
    <3>2. \A n \in Nat : n \div PerMinute \in Int
      BY PerMinuteAssumption
    <3> QED BY <3>1, <3>2 DEF Minute
  <2>3. \A k \in (trades \cup quotes) \cup (t \cup q) : k.minute \in Int
    <3>1. /\ \A r \in StgTrades(events) \cup StgRestQuotes(events) :
                r.event \in Times /\ r.price \in Prices
          /\ \A r \in StgTrades(events') \cup StgRestQuotes(events') :
                r.event \in Times /\ r.price \in Prices
      BY <1>2, StagedEvents, EventTypes
    <3> QED BY <3>1, CandleTypes
  <2>4. Agree(trades \cup quotes, t \cup q, e)
    BY <1>4 DEF Agree
  <2>5. ASSUME NEW o \in trades \cup quotes,
               Instrument(o) # Instrument(e) \/ o.minute < Minute(e)
        PROVE  /\ o \in t \cup q
               /\ FctRow(trades \cup quotes, Spikes(trades), {}, <<o, {}>>)
                     = FctRow(t \cup q, Spikes(t), {}, <<o, {}>>)
    <3>1. ~IsOf(o, e) /\ o.minute \in Int
      BY <2>2, <2>3, <2>5 DEF IsOf
    <3>2. o \in t \cup q /\ (o \in trades <=> o \in t)
      BY <1>4, <3>1 DEF Agree
    <3>3. /\ Lag(trades \cup quotes, o) = Lag(t \cup q, o)
          /\ Window(trades \cup quotes, o, 14) = Window(t \cup q, o, 14)
      BY <2>2, <2>3, <2>4, <2>5, <3>1, WindowsLookBack
    <3>4. Window(trades, o, 4) = Window(t, o, 4)
      BY <1>4, <2>2, <2>3, <2>5, <3>1, WindowsLookBack
    <3>5. o \in Spikes(trades) <=> o \in Spikes(t)
      BY <3>2, <3>4 DEF Spike
    <3> HIDE DEF Spikes
    <3>6. (o \in Spikes(trades)) = (o \in Spikes(t))
      BY <3>5
    <3> QED BY <3>2, <3>3, <3>6 DEF FctRow
  <2>6. ASSUME NEW r \in mart, IsApart(r, e) PROVE  r \in Rows(t, q)
    <3>1. PICK o \in trades \cup quotes :
             r = FctRow(trades \cup quotes, Spikes(trades), {}, <<o, {}>>)
      BY <1>3 DEF PlainRows
    <3>2. Instrument(r) = Instrument(o) /\ r.minute = o.minute
      BY <3>1 DEF FctRow, Instrument
    <3>3. Instrument(o) # Instrument(e) \/ o.minute < Minute(e)
      BY <2>1, <2>6, <3>2 DEF IsApart
    <3> QED BY <2>5, <3>1, <3>3 DEF PlainRows
  <2> HIDE DEF Rows
  <2> QED BY <1>5, <2>6
<1> QED BY <1>6, <1>7

(***************************************************************************)
(* A late event changes no row of another instrument and none of an        *)
(* earlier minute, and a dead letter none of another minute: a table that  *)
(* is built after it can agree on all of them, as windows, lags and joins  *)
(* look back only (int_ohlcv_1m.sql:29-45, fct_market_metrics.sql:54-117). *)
(***************************************************************************)
THEOREM LateEventsAreLocal == Spec => LateEventsStayLocal
<1>1. ASSUME EventsInv, EventsInv', Next
      PROVE  \A e \in events' \ events, mart \in Marts(events) :
                \E next \in Marts(events') :
                   {r \in mart : IsApart(r, e)} \subseteq next
  <2> TAKE e \in events' \ events, mart \in Marts(events)
  <2>1. e \in AnEvent /\ events' = events \cup {e}
    BY <1>1 DEF EventsInv, Next, SendTrade, SendBook, SendQuote, SendDeadLetter
  <2> QED BY <1>1, <2>1, LateEvent
<1>2. EventsInv /\ EventsInv' /\ [Next]_vars =>
         [\A e \in events' \ events, mart \in Marts(events) :
             \E next \in Marts(events') :
                {r \in mart : IsApart(r, e)} \subseteq next]_vars
  BY <1>1
<1> QED BY <1>2, EventsInvariant, PTL DEF Spec, LateEventsStayLocal

(***************************************************************************)
(* No row of the mart ever has a spread or a dead letter: the books are of *)
(* a venue that has no candles (fct_market_metrics.sql:87-90), and the job *)
(* has no source for the dead letters (bronze_sink_job.py:42-116).         *)
(***************************************************************************)
THEOREM DepthIsNeverJoined ==
    Spec => [](\A mart \in Marts(events) : \A r \in mart : r.depth = {} /\ r.letters = 0)
<1>1. ASSUME EventsInv, NEW mart \in Marts(events), NEW r \in mart
      PROVE  r.depth = {} /\ r.letters = 0
  <2>1. PICK trades \in CandleTables(StgTrades(events)),
             quotes \in CandleTables(StgRestQuotes(events)) :
                mart = Fct(trades \cup quotes, {c \in trades : Spike(trades, c)},
                           DepthTable(StgDepth(events)), BronzeLetters(events))
    BY DEF Marts
  <2> DEFINE spikes == {c \in trades : Spike(trades, c)}
  <2> HIDE DEF spikes
  <2>2. mart = PlainRows(trades \cup quotes, spikes)
    BY <1>1, <2>1, PlainMart DEF EventsInv, spikes
  <2>3. PICK o : r = FctRow(trades \cup quotes, spikes, {}, <<o, {}>>)
    BY <1>1, <2>2 DEF PlainRows
  <2>4. r.depth = {} /\ r.letters = DeadLetters({}, o)
    BY <2>3 DEF FctRow
  <2> QED BY <2>4, FS_EmptySet DEF DeadLetters
<1>2. EventsInv => \A mart \in Marts(events) : \A r \in mart : r.depth = {} /\ r.letters = 0
  BY <1>1
<1> QED BY <1>2, EventsInvariant, PTL

=============================================================================
