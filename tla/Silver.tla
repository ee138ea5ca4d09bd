------------------------------- MODULE Silver -------------------------------
(***************************************************************************)
(* The staging views of dbt/models/staging as operators on bronze rows.    *)
(* A view is materialized as a query, so each read evaluates it again on   *)
(* the rows the external table shows at that moment.                       *)
(*                                                                         *)
(* A bronze row is a record with fields                                    *)
(*    symbol            stands for the columns exchange and symbol         *)
(*    split, offset     kafka_topic with kafka_partition, and kafka_offset *)
(*    id, event, ingest trade_id (update_id, quote_id), event_ts, ingest_ts*)
(*    good              the columns the view's filter asks for are there   *)
(*                      and in range                                       *)
(*    copy              which of the equal rows of the table this one is   *)
(***************************************************************************)
EXTENDS Naturals

(***************************************************************************)
(* QUALIFY ROW_NUMBER() OVER (PARTITION BY key ORDER BY before) = 1 keeps  *)
(* a first row of every partition.  key is a function of the rows, before  *)
(* a set of pairs of rows.  Where the order leaves a tie the engine may    *)
(* keep any row, on every read anew: the result is the set of tables it    *)
(* may return.                                                             *)
(***************************************************************************)
RowNumberOne(rows, key, before) ==
    LET first == {r \in rows : \A q \in rows :
                     key[q] = key[r] => <<q, r>> \notin before}
    IN  {kept \in SUBSET first :
            /\ \A r \in rows : \E q \in kept : key[q] = key[r]
            /\ \A q, r \in kept : key[q] = key[r] => q = r}

\* Mutations: a key without the partition, a key that tells copies apart.
OffsetKey(r) == <<r.offset>>
FileKey(r) == <<r.split, r.offset, r.copy>>

\* trade_key, depth_key, quote_key: topic|partition|offset.
KafkaKey(r) == <<r.split, r.offset>>

\* exchange, symbol, trade_id
TradeIdentity(r) == <<r.symbol, r.id>>

\* order by ingest_ts desc, event_ts desc
LatestIngest(rows) ==
    {p \in rows \X rows : \/ p[1].ingest > p[2].ingest
                          \/ p[1].ingest = p[2].ingest /\ p[1].event > p[2].event}

\* Mutations: no order at all, and the order ascending.
AnyOffset(rows) == {}
EarliestOffset(rows) == {p \in rows \X rows : p[1].offset < p[2].offset}

\* order by kafka_offset desc (a symbol's trades share their partition)
LatestOffset(rows) == {p \in rows \X rows : p[1].offset > p[2].offset}

\* order by kafka_offset, which is part of the partition's key.
FirstOffset(rows) == {p \in rows \X rows : p[1].offset < p[2].offset}

Filtered(rows) == {r \in rows : r.good}

ByKafka(rows, before) ==
    RowNumberOne(rows, [r \in rows |-> KafkaKey(r)], before)

StgTrades(rows) ==
    LET valid == Filtered(rows)
    IN  UNION {RowNumberOne(dedup_kafka,
                            [r \in dedup_kafka |-> TradeIdentity(r)],
                            LatestOffset(dedup_kafka)) :
                  dedup_kafka \in ByKafka(valid, LatestIngest(valid))}

StgDepth(rows) == LET valid == Filtered(rows)
                  IN  ByKafka(valid, FirstOffset(valid))

StgRestQuotes(rows) == LET valid == Filtered(rows)
                       IN  ByKafka(valid, LatestIngest(valid))

=============================================================================
