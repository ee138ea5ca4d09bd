------------------------------ MODULE Pipeline ------------------------------
(***************************************************************************)
(* One stream of the platform from end to end: the producers append to     *)
(* Redpanda, the Flink job archives to the bucket, dbt's staging view is   *)
(* read from the external table.                                           *)
(*                                                                         *)
(* The job enters with what BronzeSink is shown to implement, the archive: *)
(* a produced row may appear in the bucket, in any order and more than     *)
(* once.  The broker keeps its log in its container, the bucket is a named *)
(* volume: `docker compose down` and `up` empty the first and keep the     *)
(* second, and offsets start from zero again.                              *)
(***************************************************************************)
EXTENDS Naturals, Sequences, FiniteSets, Silver

CONSTANTS Symbols,     \* what the records are about
          Splits,      \* the partitions of the topic
          Partition,   \* [Symbols -> Splits]: the record key's partition
          Ids,         \* the ids a venue gives to one symbol's records
          Times,       \* event times, in milliseconds
          MaxRecords,  \* bound on the records sent
          MaxCopies,   \* bound on the copies of one record in the bucket
          MaxWipes     \* bound on the times the broker is recreated

ASSUME PartitionAssumption == Partition \in [Symbols -> Splits]
ASSUME TimesAssumption == Times \subseteq Nat
ASSUME PipelineBounds ==
    MaxRecords \in Nat /\ MaxCopies \in Nat /\ MaxWipes \in Nat

VARIABLES
    kind,     \* "trades", "depth" or "quotes": which of the streams this is
    clock,    \* records sent so far; the producers' clock at the last one
    log,      \* [Splits -> Seq(Record)]: the broker
    bronze,   \* SUBSET Row: what the external table shows
    wipes     \* times the broker has been recreated

vars == <<kind, clock, log, bronze, wipes>>

Record == [symbol : Symbols, id : Ids, event : Times,
           ingest : 1 .. MaxRecords, good : BOOLEAN]

\* A row of the bucket: its Kafka coordinates and its record's columns.
BronzeRow == [split : Splits, offset : 0 .. MaxRecords - 1,
              copy : 1 .. MaxCopies, symbol : Symbols, id : Ids,
              event : Times, ingest : 1 .. MaxRecords, good : BOOLEAN]

Init == /\ kind \in {"trades", "depth", "quotes"}
        /\ clock = 0
        /\ log = [s \in Splits |-> <<>>]
        /\ bronze = {}
        /\ wipes = 0

\* A message becomes an event stamped with the producer's clock and goes to
\* its key's partition.  No producer remembers the ids it has sent.
Send ==
    /\ clock < MaxRecords
    /\ clock' = clock + 1
    /\ \E symbol \in Symbols, id \in Ids, event \in Times, good \in BOOLEAN :
          log' = [log EXCEPT ![Partition[symbol]] =
                    Append(@, [symbol |-> symbol, id |-> id, event |-> event,
                               ingest |-> clock + 1, good |-> good])]
    /\ UNCHANGED <<kind, bronze, wipes>>

\* Mutation: the broker's offsets counted from one.
RowFromOne(s, o, copy) ==
    LET record == log[s][o + 1]
    IN  [split |-> s, offset |-> o + 1, copy |-> copy,
         symbol |-> record.symbol, id |-> record.id, event |-> record.event,
         ingest |-> record.ingest, good |-> record.good]

\* The row of a record: its columns and its Kafka coordinates.
Row(s, o, copy) ==
    LET record == log[s][o + 1]
    IN  [split |-> s, offset |-> o, copy |-> copy, symbol |-> record.symbol,
         id |-> record.id, event |-> record.event, ingest |-> record.ingest,
         good |-> record.good]

\* A part file with this record becomes visible; replays bring it again.
Archive(s, copy) ==
    \E o \in 0 .. Len(log[s]) - 1 :
        /\ Row(s, o, copy) \notin bronze
        /\ copy > 1 => Row(s, o, copy - 1) \in bronze
        /\ bronze' = bronze \cup {Row(s, o, copy)}
        /\ UNCHANGED <<kind, clock, log, wipes>>

\* docker compose down; docker compose up.
RecreateBroker ==
    /\ wipes < MaxWipes
    /\ wipes' = wipes + 1
    /\ log' = [s \in Splits |-> <<>>]
    /\ UNCHANGED <<kind, clock, bronze>>

Next == \/ Send
        \/ \E s \in Splits, copy \in 1 .. MaxCopies : Archive(s, copy)
        \/ RecreateBroker

Spec == Init /\ [][Next]_vars

-----------------------------------------------------------------------------
\* What the view may return to a reader.
Views(rows) == CASE kind = "trades" -> StgTrades(rows)
                 [] kind = "depth" -> StgDepth(rows)
                 [] kind = "quotes" -> StgRestQuotes(rows)

\* A table as its reader sees it: how often each row is there, copies of a
\* row being equal.
Columns(r) == [r EXCEPT !.copy = 1]
Content(rows) == [r \in {Columns(q) : q \in rows} |->
                      Cardinality({q \in rows : Columns(q) = r})]

\* Two rows of the view are the same thing: a trade sent twice is one trade,
\* every book update and every quote is one of its own.
Identity(r) == IF kind = "trades" THEN TradeIdentity(r) ELSE <<r.ingest>>

TypeOK ==
    /\ kind \in {"trades", "depth", "quotes"}
    /\ clock \in 0 .. MaxRecords
    /\ log \in [Splits -> Seq(Record)]
    /\ bronze \subseteq BronzeRow
    /\ wipes \in 0 .. MaxWipes

(***************************************************************************)
(* Whatever the order and the number of copies in which the job archives   *)
(* the records of one broker, every valid thing archived is in the view    *)
(* exactly once: the deduplications take duplicates away and nothing else  *)
(* (stg_trades.sql:58-93, stg_depth.sql:65-101, stg_rest_quotes.sql:51-72).*)
(***************************************************************************)
SilverComplete ==
    wipes = 0 =>
        \A view \in Views(bronze), r \in Filtered(bronze) :
            Cardinality({q \in view : Identity(q) = Identity(r)}) = 1

(***************************************************************************)
(* Two reads of a view see the same table: no tie of an ORDER BY is        *)
(* between rows that differ.  The order of stg_depth is all ties, which is *)
(* harmless until the offsets of a second broker meet those of the first   *)
(* (stg_trades.sql:79-92, stg_depth.sql:95-100).                           *)
(***************************************************************************)
SilverDeterministic ==
    (kind = "depth" => wipes = 0) =>
        \A v, w \in Views(bronze) : Content(v) = Content(w)

(***************************************************************************)
(* At-least-once archiving is invisible downstream: one more copy of a row *)
(* that is already in bronze changes nothing a reader of the view sees,    *)
(* with one broker or several (bronze_sink_job.py:39, stg_trades.sql:72-83)*)
(***************************************************************************)
CopiesAreInvisible ==
    [][DOMAIN Content(bronze') = DOMAIN Content(bronze) =>
         {Content(v) : v \in Views(bronze')} = {Content(v) : v \in Views(bronze)}]_vars

\* The Kafka identity of row q was given out again, by a later broker, and the
\* newer record is in the bucket.
Displaced(q, rows) ==
    \E r \in Filtered(rows) : KafkaKey(r) = KafkaKey(q) /\ r.ingest > q.ingest

(***************************************************************************)
(* A trade's row is only ever replaced by one ingested later, whether the  *)
(* trade was sent again or the broker recreated: the two orders, by        *)
(* ingest_ts and then by offset, never bring an old price back             *)
(* (stg_trades.sql:81, 91).  The exception is a row whose Kafka identity a *)
(* second broker has given out again: the first deduplication takes it     *)
(* away, and the trade falls back to what else the bucket has of it.       *)
(***************************************************************************)
RowsOnlyGetNewer ==
    [][kind = "trades" =>
         \A view \in Views(bronze), next \in Views(bronze') :
             \A q \in view, r \in next :
                 Identity(q) = Identity(r) =>
                     q.ingest <= r.ingest \/ Displaced(q, bronze')]_vars

(***************************************************************************)
(* _staging.yml:6-9: the Kafka identity is there "for duplicate bronze     *)
(* rows", so distinct trades of the bucket are distinct rows of the view.  *)
(***************************************************************************)
DistinctTradesKept ==
    kind = "trades" => \A view \in Views(bronze), r \in Filtered(bronze) :
                           \E q \in view : Identity(q) = Identity(r)

(***************************************************************************)
(* _staging.yml:10-12: unique_column_combination [ "trade_id", "event_ts" ]*)
(***************************************************************************)
UniqueTradeIdAndTime ==
    kind = "trades" => \A view \in Views(bronze) :
                           \A q, r \in view : q.id = r.id /\ q.event = r.event => q = r

=============================================================================
