---------------------------- MODULE SilverProofs ----------------------------
(***************************************************************************)
(* What the deduplications of the staging views return, for any rows.      *)
(***************************************************************************)
EXTENDS Silver, SetInduction

(***************************************************************************)
(* QUALIFY ROW_NUMBER() = 1 returns rows, a first one of every partition,  *)
(* and no two of the same one.                                             *)
(***************************************************************************)
LEMMA RowNumberOneKeeps ==
    ASSUME NEW rows, NEW key, NEW before,
           NEW kept \in RowNumberOne(rows, key, before)
    PROVE  /\ kept \subseteq rows
           /\ \A r \in rows : \E q \in kept : key[q] = key[r]
           /\ \A q, r \in kept : key[q] = key[r] => q = r
           /\ \A q \in kept, r \in rows : key[r] = key[q] => <<r, q>> \notin before
BY DEF RowNumberOne

\* It returns something when every partition has a first row.
LEMMA RowNumberOneExists ==
    ASSUME NEW rows, NEW key, NEW before,
           \A r \in rows : \E q \in rows :
              key[q] = key[r] /\ \A p \in rows : key[p] = key[q] => <<p, q>> \notin before
    PROVE  RowNumberOne(rows, key, before) # {}
<1> DEFINE first == {r \in rows : \A q \in rows :
                        key[q] = key[r] => <<q, r>> \notin before}
           best(k) == CHOOSE q \in first : key[q] = k
           kept == {best(key[r]) : r \in rows}
<1>1. \A r \in rows : best(key[r]) \in first /\ key[best(key[r])] = key[r]
  <2> TAKE r \in rows
  <2>1. \E q \in first : key[q] = key[r]
    OBVIOUS
  <2> QED BY <2>1, Zenon
<1> HIDE DEF best
<1>2. kept \in SUBSET first
  BY <1>1
<1>3. \A r \in rows : \E q \in kept : key[q] = key[r]
  BY <1>1
<1>4. \A q, r \in kept : key[q] = key[r] => q = r
  BY <1>1
<1> HIDE DEF kept
<1>5. kept \in RowNumberOne(rows, key, before)
  BY <1>2, <1>3, <1>4 DEF RowNumberOne
<1> QED BY <1>5

(***************************************************************************)
(* The first deduplication (stg_trades.sql:72-83): one row of every Kafka  *)
(* identity, and none that its order puts another one before.              *)
(***************************************************************************)
LEMMA ByKafkaKeeps ==
    ASSUME NEW rows, NEW before, NEW kept \in ByKafka(rows, before)
    PROVE  /\ kept \subseteq rows
           /\ \A r \in rows : \E q \in kept : KafkaKey(q) = KafkaKey(r)
           /\ \A q, r \in kept : KafkaKey(q) = KafkaKey(r) => q = r
           /\ \A q \in kept, r \in rows :
                 KafkaKey(r) = KafkaKey(q) => <<r, q>> \notin before
<1> DEFINE key == [r \in rows |-> KafkaKey(r)]
<1>1. kept \in RowNumberOne(rows, key, before)
  BY DEF ByKafka
<1>2. \A r \in rows : key[r] = KafkaKey(r)
  OBVIOUS
<1> HIDE DEF key
<1>3. kept \subseteq rows
  BY <1>1, RowNumberOneKeeps
<1>4. \A r \in rows : \E q \in kept : key[q] = key[r]
  BY <1>1, RowNumberOneKeeps
<1>5. \A q, r \in kept : key[q] = key[r] => q = r
  BY <1>1, RowNumberOneKeeps
<1>6. \A q \in kept, r \in rows : key[r] = key[q] => <<r, q>> \notin before
  BY <1>1, RowNumberOneKeeps
<1> QED BY <1>2, <1>3, <1>4, <1>5, <1>6

\* By ingest_ts, descending: what it keeps was ingested last.
LEMMA ByKafkaLatest ==
    ASSUME NEW rows, \A r \in rows : r.ingest \in Nat,
           NEW kept \in ByKafka(rows, LatestIngest(rows))
    PROVE  \A q \in kept, r \in rows :
              KafkaKey(r) = KafkaKey(q) => r.ingest <= q.ingest
<1> TAKE q \in kept, r \in rows
<1> HAVE KafkaKey(r) = KafkaKey(q)
<1>1. q \in rows /\ <<r, q>> \notin LatestIngest(rows)
  BY ByKafkaKeeps
<1> QED BY <1>1 DEF LatestIngest

(***************************************************************************)
(* stg_trades is a second deduplication of the first one's result: one row *)
(* of every trade, with the greatest offset.                               *)
(***************************************************************************)
LEMMA TradesKeep ==
    ASSUME NEW rows, NEW view \in StgTrades(rows),
           \A r \in rows : r.offset \in Nat
    PROVE  \E dedup \in ByKafka(Filtered(rows), LatestIngest(Filtered(rows))) :
              /\ view \subseteq dedup
              /\ \A r \in dedup : \E q \in view : TradeIdentity(q) = TradeIdentity(r)
              /\ \A q, r \in view : TradeIdentity(q) = TradeIdentity(r) => q = r
              /\ \A q \in view, r \in dedup :
                    TradeIdentity(r) = TradeIdentity(q) => r.offset <= q.offset
<1> DEFINE key(dedup) == [r \in dedup |-> TradeIdentity(r)]
<1>1. PICK dedup \in ByKafka(Filtered(rows), LatestIngest(Filtered(rows))) :
             view \in RowNumberOne(dedup, key(dedup), LatestOffset(dedup))
  BY DEF StgTrades
<1>2. \A r \in dedup : key(dedup)[r] = TradeIdentity(r)
  OBVIOUS
<1> HIDE DEF key
<1>3. view \subseteq dedup
  BY <1>1, RowNumberOneKeeps
<1>4. \A r \in dedup : \E q \in view : key(dedup)[q] = key(dedup)[r]
  BY <1>1, RowNumberOneKeeps
<1>5. \A q, r \in view : key(dedup)[q] = key(dedup)[r] => q = r
  BY <1>1, RowNumberOneKeeps
<1>6. \A q \in view, r \in dedup :
         key(dedup)[r] = key(dedup)[q] => <<r, q>> \notin LatestOffset(dedup)
  BY <1>1, RowNumberOneKeeps
<1>7. \A r \in dedup : r.offset \in Nat
  BY ByKafkaKeeps DEF Filtered
<1>8. \A q \in view, r \in dedup :
         TradeIdentity(r) = TradeIdentity(q) => r.offset <= q.offset
  <2> TAKE q \in view, r \in dedup
  <2> HAVE TradeIdentity(r) = TradeIdentity(q)
  <2>1. <<r, q>> \notin LatestOffset(dedup)
    BY <1>2, <1>3, <1>6
  <2>2. q \in dedup /\ q.offset \in Nat /\ r.offset \in Nat
    BY <1>3, <1>7
  <2> QED BY <2>1, <2>2 DEF LatestOffset
<1> QED BY <1>2, <1>3, <1>4, <1>5, <1>8

\* The rows of r's partition that are greatest in the number n: with a bound
\* on that number there is one.
Greatest(rows, key, n, r) ==
    {q \in rows : key[q] = key[r] /\ \A p \in rows : key[p] = key[r] => n[p] <= n[q]}

LEMMA GreatestRow ==
    ASSUME NEW rows, NEW key, NEW n, NEW N \in Nat, \A q \in rows : n[q] \in 0 .. N,
           NEW r \in rows
    PROVE  Greatest(rows, key, n, r) # {}
<1> DEFINE same == {q \in rows : key[q] = key[r]}
           T == {N - n[q] : q \in same}
<1>1. \A q \in rows : n[q] \in 0 .. N
  OBVIOUS
<1>2. \A q \in same : N - n[q] \in Nat
  BY <1>1
<1>3. T \in SUBSET Nat /\ N - n[r] \in T
  BY <1>2
<1> HIDE DEF T
<1>4. PICK m \in T : \A k \in T : m <= k
  BY <1>3, LeastNatural
<1> USE DEF T
<1>5. PICK q \in same : m = N - n[q]
  BY <1>4
<1>6. ASSUME NEW p \in same
      PROVE  n[p] <= n[q]
  <2>1. m <= N - n[p]
    BY <1>4
  <2> QED BY <2>1, <1>1, <1>5
<1> QED BY <1>5, <1>6 DEF Greatest

=============================================================================
