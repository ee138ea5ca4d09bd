--------------------------- MODULE PipelineProofs ---------------------------
(***************************************************************************)
(* The views of the pipeline, for any symbols, partitions, ids and bounds. *)
(***************************************************************************)
EXTENDS Pipeline, SilverProofs

-----------------------------------------------------------------------------
(***************************************************************************)
(* The invariant                                                           *)
(***************************************************************************)

\* A partition holds its symbols' records in the order of their stamps, and
\* no stamp is in two partitions.
LogInv ==
    \A s \in Splits : \A i \in DOMAIN log[s] :
        /\ Partition[log[s][i].symbol] = s
        /\ log[s][i].ingest <= clock
        /\ i <= log[s][i].ingest
        /\ \A j \in DOMAIN log[s] : i < j => log[s][i].ingest < log[s][j].ingest
        /\ \A t \in Splits : \A j \in DOMAIN log[t] :
              log[s][i].ingest = log[t][j].ingest => s = t

\* The broker of today has this row's record, or sends only later ones.
Current(r) == /\ r.offset + 1 \in DOMAIN log[r.split]
              /\ r = Row(r.split, r.offset, r.copy)
Earlier(r) == \A s \in Splits : \A i \in DOMAIN log[s] : r.ingest < log[s][i].ingest

BronzeInv ==
    \A r \in bronze :
        /\ Partition[r.symbol] = r.split
        /\ r.ingest <= clock
        /\ Current(r) \/ (wipes > 0 /\ Earlier(r))

\* No two records were stamped with the same time
Stamped(rows) == \A q, r \in rows : q.ingest = r.ingest => Columns(q) = Columns(r)

PipelineInv == LogInv /\ BronzeInv /\ Stamped(bronze)

-----------------------------------------------------------------------------
(***************************************************************************)
(* Types and the log                                                       *)
(***************************************************************************)

\* What is in a partition, and how much fits into it.
LEMMA LogTypes ==
    ASSUME TypeOK
    PROVE  \A s \in Splits :
              /\ Len(log[s]) \in Nat
              /\ DOMAIN log[s] = 1 .. Len(log[s])
              /\ \A i \in DOMAIN log[s] : log[s][i] \in Record
BY DEF TypeOK

LEMMA LogLength ==
    ASSUME TypeOK, LogInv
    PROVE  \A s \in Splits : Len(log[s]) <= MaxRecords
<1> TAKE s \in Splits
<1>1. Len(log[s]) \in Nat /\ DOMAIN log[s] = 1 .. Len(log[s])
  BY LogTypes
<1>2. clock \in Nat /\ MaxRecords \in Nat /\ clock <= MaxRecords
  BY PipelineBounds DEF TypeOK
<1>3. CASE Len(log[s]) = 0
  BY <1>2, <1>3
<1>4. CASE Len(log[s]) > 0
  <2>1. Len(log[s]) \in DOMAIN log[s]
    BY <1>1, <1>4
  <2>2. log[s][Len(log[s])].ingest \in Nat
    BY <2>1, LogTypes, PipelineBounds DEF Record
  <2>3. Len(log[s]) <= log[s][Len(log[s])].ingest /\ log[s][Len(log[s])].ingest <= clock
    BY <2>1 DEF LogInv
  <2> QED BY <2>2, <2>3, <1>1, <1>2
<1> QED BY <1>1, <1>3, <1>4

\* The fields of a row made from a record.
LEMMA RowType ==
    ASSUME TypeOK, LogInv, NEW s \in Splits, NEW o \in 0 .. Len(log[s]) - 1,
           NEW copy \in 1 .. MaxCopies
    PROVE  /\ Row(s, o, copy) \in BronzeRow
           /\ o + 1 \in DOMAIN log[s]
           /\ Row(s, o, copy).split = s
           /\ Row(s, o, copy).offset = o
           /\ Row(s, o, copy).copy = copy
           /\ Row(s, o, copy).symbol = log[s][o + 1].symbol
           /\ Row(s, o, copy).ingest = log[s][o + 1].ingest
<1>1. Len(log[s]) \in Nat /\ DOMAIN log[s] = 1 .. Len(log[s]) /\ Len(log[s]) <= MaxRecords
  BY LogTypes, LogLength
<1>2. o + 1 \in DOMAIN log[s] /\ o \in 0 .. MaxRecords - 1
  BY <1>1, PipelineBounds
<1>3. log[s][o + 1] \in Record
  BY <1>2, LogTypes
<1> DEFINE rec == log[s][o + 1]
<1>4. rec \in Record
  BY <1>3
<1>5. Row(s, o, copy) = [split |-> s, offset |-> o, copy |-> copy,
            symbol |-> rec.symbol, id |-> rec.id, event |-> rec.event,
            ingest |-> rec.ingest, good |-> rec.good]
  BY DEF Row
<1> HIDE DEF rec
<1>6. Row(s, o, copy) \in BronzeRow
  BY <1>2, <1>4, <1>5 DEF Record, BronzeRow
<1>7. Row(s, o, copy).symbol = rec.symbol /\ Row(s, o, copy).ingest = rec.ingest
  BY <1>5
<1> QED BY <1>2, <1>5, <1>6, <1>7 DEF rec

\* Send appends one record, stamped later than all there are.
LEMMA SendAppends ==
    ASSUME TypeOK, Send
    PROVE  \E p \in Splits, record \in Record :
              /\ Partition[record.symbol] = p
              /\ record.ingest = clock + 1
              /\ log' = [log EXCEPT ![p] = Append(log[p], record)]
<1>1. PICK symbol \in Symbols, id \in Ids, event \in Times, good \in BOOLEAN :
         log' = [log EXCEPT ![Partition[symbol]] =
                    Append(log[Partition[symbol]],
                           [symbol |-> symbol, id |-> id, event |-> event,
                            ingest |-> clock + 1, good |-> good])]
  BY DEF Send
<1> DEFINE record == [symbol |-> symbol, id |-> id, event |-> event,
                      ingest |-> clock + 1, good |-> good]
<1>2. clock + 1 \in 1 .. MaxRecords
  BY PipelineBounds DEF TypeOK, Send
<1>3. record \in Record /\ record.symbol = symbol /\ record.ingest = clock + 1
  BY <1>2 DEF Record
<1>4. Partition[symbol] \in Splits
  BY PartitionAssumption
<1> QED BY <1>1, <1>3, <1>4

\* Old records stay where they are.
LEMMA LogAfterSend ==
    ASSUME TypeOK, NEW p \in Splits, NEW record \in Record,
           log' = [log EXCEPT ![p] = Append(log[p], record)]
    PROVE  /\ log' \in [Splits -> Seq(Record)]
           /\ \A s \in Splits : DOMAIN log[s] \subseteq DOMAIN log'[s]
           /\ \A s \in Splits : \A i \in DOMAIN log[s] : log'[s][i] = log[s][i]
           /\ \A s \in Splits : \A i \in DOMAIN log'[s] \ DOMAIN log[s] :
                 s = p /\ i = Len(log[p]) + 1 /\ log'[s][i] = record
<1>1. log \in [Splits -> Seq(Record)]
  BY DEF TypeOK
<1>2. log[p] \in Seq(Record)
  BY <1>1
<1>3. Append(log[p], record) \in Seq(Record)
  BY <1>2
<1>4. log' \in [Splits -> Seq(Record)]
  BY <1>1, <1>3
<1>5. log'[p] = Append(log[p], record) /\ \A s \in Splits : s # p => log'[s] = log[s]
  BY <1>1
<1>6. /\ DOMAIN log[p] = 1 .. Len(log[p]) /\ Len(log[p]) \in Nat
      /\ DOMAIN log'[p] = 1 .. Len(log[p]) + 1
      /\ \A i \in 1 .. Len(log[p]) : log'[p][i] = log[p][i]
      /\ log'[p][Len(log[p]) + 1] = record
  BY <1>2, <1>5
<1>7. \A i \in DOMAIN log'[p] \ DOMAIN log[p] : i = Len(log[p]) + 1
  BY <1>6
<1>8. DOMAIN log[p] \subseteq DOMAIN log'[p]
  BY <1>6
<1> QED BY <1>4, <1>5, <1>6, <1>7, <1>8

-----------------------------------------------------------------------------
(***************************************************************************)
(* The invariant, step by step                                             *)
(***************************************************************************)

LEMMA InitHolds == Init => TypeOK /\ PipelineInv
<1> SUFFICES ASSUME Init PROVE TypeOK /\ PipelineInv
  OBVIOUS
<1>1. log = [s \in Splits |-> <<>>] /\ bronze = {} /\ clock = 0 /\ wipes = 0
  BY DEF Init
<1>2. log \in [Splits -> Seq(Record)] /\ \A s \in Splits : DOMAIN log[s] = {}
  BY <1>1
<1>3. TypeOK
  BY <1>1, <1>2, PipelineBounds DEF Init, TypeOK
<1>4. LogInv
  BY <1>2 DEF LogInv
<1>5. BronzeInv /\ Stamped(bronze)
  BY <1>1 DEF BronzeInv, Stamped
<1> QED BY <1>3, <1>4, <1>5 DEF PipelineInv

LEMMA SendHolds == TypeOK /\ PipelineInv /\ Send => TypeOK' /\ PipelineInv'
<1> SUFFICES ASSUME TypeOK, PipelineInv, Send PROVE TypeOK' /\ PipelineInv'
  OBVIOUS
<1> USE PipelineBounds
<1>1. /\ clock < MaxRecords /\ clock' = clock + 1
      /\ kind' = kind /\ bronze' = bronze /\ wipes' = wipes
  BY DEF Send
<1>2. PICK p \in Splits, record \in Record :
         /\ Partition[record.symbol] = p
         /\ record.ingest = clock + 1
         /\ log' = [log EXCEPT ![p] = Append(log[p], record)]
  BY SendAppends
<1>3. /\ log' \in [Splits -> Seq(Record)]
      /\ \A s \in Splits : DOMAIN log[s] \subseteq DOMAIN log'[s]
      /\ \A s \in Splits : \A i \in DOMAIN log[s] : log'[s][i] = log[s][i]
      /\ \A s \in Splits : \A i \in DOMAIN log'[s] \ DOMAIN log[s] :
            s = p /\ i = Len(log[p]) + 1 /\ log'[s][i] = record
  BY <1>2, LogAfterSend
<1>4. clock \in Nat /\ clock' \in 0 .. MaxRecords
  BY <1>1 DEF TypeOK
<1>5. TypeOK'
  BY <1>1, <1>3, <1>4 DEF TypeOK
<1>6. \A s \in Splits : \A i \in DOMAIN log[s] :
         log[s][i].ingest \in Nat /\ log[s][i].ingest <= clock
  BY LogTypes DEF Record, PipelineInv, LogInv
<1>7. LogInv'
  <2> SUFFICES ASSUME NEW s \in Splits, NEW i \in DOMAIN log'[s]
               PROVE  /\ Partition[log'[s][i].symbol] = s
                      /\ log'[s][i].ingest <= clock'
                      /\ i <= log'[s][i].ingest
                      /\ \A j \in DOMAIN log'[s] :
                            i < j => log'[s][i].ingest < log'[s][j].ingest
                      /\ \A t \in Splits : \A j \in DOMAIN log'[t] :
                            log'[s][i].ingest = log'[t][j].ingest => s = t
    BY DEF LogInv
  <2>1. CASE i \in DOMAIN log[s]
    <3>1. log'[s][i] = log[s][i]
      BY <1>3, <2>1
    <3>2. /\ Partition[log[s][i].symbol] = s
          /\ log[s][i].ingest <= clock
          /\ i <= log[s][i].ingest
          /\ log[s][i].ingest \in Nat
      BY <2>1, <1>6 DEF PipelineInv, LogInv
    <3>3. ASSUME NEW j \in DOMAIN log'[s], i < j
          PROVE  log'[s][i].ingest < log'[s][j].ingest
      <4>1. CASE j \in DOMAIN log[s]
        BY <3>1, <3>3, <4>1, <2>1, <1>3 DEF PipelineInv, LogInv
      <4>2. CASE j \notin DOMAIN log[s]
        BY <3>1, <3>2, <4>2, <1>2, <1>3, <1>4
      <4> QED BY <4>1, <4>2
    <3>4. ASSUME NEW t \in Splits, NEW j \in DOMAIN log'[t],
                 log'[s][i].ingest = log'[t][j].ingest
          PROVE  s = t
      <4>1. CASE j \in DOMAIN log[t]
        BY <3>1, <3>4, <4>1, <2>1, <1>3 DEF PipelineInv, LogInv
      <4>2. CASE j \notin DOMAIN log[t]
        BY <3>1, <3>2, <3>4, <4>2, <1>2, <1>3, <1>4
      <4> QED BY <4>1, <4>2
    <3> QED BY <3>1, <3>2, <3>3, <3>4, <1>1, <1>4
  <2>2. CASE i \notin DOMAIN log[s]
    <3>1. s = p /\ i = Len(log[p]) + 1 /\ log'[s][i] = record
      BY <2>2, <1>3
    <3>2. Len(log[p]) \in Nat /\ DOMAIN log[p] = 1 .. Len(log[p])
      BY LogTypes
    <3>3. Len(log[p]) <= clock
      <4>1. CASE Len(log[p]) = 0
        BY <4>1, <1>4
      <4>2. CASE Len(log[p]) > 0
        <5>1. Len(log[p]) \in DOMAIN log[p]
          BY <3>2, <4>2
        <5>2. /\ Len(log[p]) <= log[p][Len(log[p])].ingest
              /\ log[p][Len(log[p])].ingest <= clock
              /\ log[p][Len(log[p])].ingest \in Nat
          BY <5>1, <1>6 DEF PipelineInv, LogInv
        <5> QED BY <5>2, <3>2, <1>4
      <4> QED BY <3>2, <4>1, <4>2
    <3>4. ASSUME NEW j \in DOMAIN log'[s], i < j
          PROVE  FALSE
      <4>1. j = i \/ j \in DOMAIN log[p]
        BY <1>3, <3>1
      <4>2. j \in 1 .. Len(log[p]) \/ j = i
        BY <3>2, <4>1
      <4> QED BY <3>1, <3>2, <3>4, <4>2
    <3>5. ASSUME NEW t \in Splits, NEW j \in DOMAIN log'[t],
                 log'[s][i].ingest = log'[t][j].ingest
          PROVE  s = t
      <4>1. CASE j \in DOMAIN log[t]
        BY <3>1, <3>5, <4>1, <1>2, <1>3, <1>4, <1>6
      <4>2. CASE j \notin DOMAIN log[t]
        BY <3>1, <4>2, <1>3
      <4> QED BY <4>1, <4>2
    <3> QED BY <3>1, <3>2, <3>3, <3>4, <3>5, <1>1, <1>2, <1>4
  <2> QED BY <2>1, <2>2
<1>8. BronzeInv'
  <2> SUFFICES ASSUME NEW r \in bronze
               PROVE  /\ Partition[r.symbol] = r.split
                      /\ r.ingest <= clock'
                      /\ Current(r)' \/ (wipes' > 0 /\ Earlier(r)')
    BY <1>1 DEF BronzeInv
  <2>1. r.split \in Splits /\ r.ingest \in Nat /\ Partition[r.symbol] = r.split
        /\ r.ingest <= clock /\ r \in BronzeRow
    BY DEF TypeOK, BronzeRow, PipelineInv, BronzeInv
  <2>2. CASE Current(r)
    <3>1. r.offset + 1 \in DOMAIN log[r.split]
      BY <2>2 DEF Current
    <3>2. r.offset + 1 \in DOMAIN log'[r.split]
          /\ log'[r.split][r.offset + 1] = log[r.split][r.offset + 1]
      BY <3>1, <2>1, <1>3
    <3>3. Row(r.split, r.offset, r.copy)' = Row(r.split, r.offset, r.copy)
      BY <3>2 DEF Row
    <3>4. Current(r)'
      BY <2>2, <3>2, <3>3 DEF Current
    <3> QED BY <2>1, <3>4, <1>1, <1>4
  <2>3. CASE wipes > 0 /\ Earlier(r)
    <3>1. Earlier(r)'
      <4> SUFFICES ASSUME NEW s \in Splits, NEW i \in DOMAIN log'[s]
                   PROVE  r.ingest < log'[s][i].ingest
        BY DEF Earlier
      <4>1. CASE i \in DOMAIN log[s]
        BY <4>1, <2>3, <1>3 DEF Earlier
      <4>2. CASE i \notin DOMAIN log[s]
        BY <4>2, <2>1, <1>2, <1>3, <1>4
      <4> QED BY <4>1, <4>2
    <3> QED BY <2>1, <2>3, <3>1, <1>1, <1>4
  <2> QED BY <2>2, <2>3 DEF PipelineInv, BronzeInv
<1>9. Stamped(bronze)'
  BY <1>1 DEF PipelineInv, Stamped
<1> QED BY <1>5, <1>7, <1>8, <1>9 DEF PipelineInv

\* Rows with the same columns differ in nothing but which copy they are.
LEMMA SameColumns ==
    ASSUME NEW q \in BronzeRow, NEW r \in BronzeRow
    PROVE  Columns(q) = Columns(r) <=>
              /\ q.split = r.split /\ q.offset = r.offset /\ q.symbol = r.symbol
              /\ q.id = r.id /\ q.event = r.event /\ q.ingest = r.ingest
              /\ q.good = r.good
<1>1. ASSUME NEW p \in BronzeRow
      PROVE  Columns(p) = [split |-> p.split, offset |-> p.offset, copy |-> 1,
                 symbol |-> p.symbol, id |-> p.id, event |-> p.event,
                 ingest |-> p.ingest, good |-> p.good]
  BY DEF BronzeRow, Columns
<1>2. /\ Columns(q) = [split |-> q.split, offset |-> q.offset, copy |-> 1,
             symbol |-> q.symbol, id |-> q.id, event |-> q.event,
             ingest |-> q.ingest, good |-> q.good]
      /\ Columns(r) = [split |-> r.split, offset |-> r.offset, copy |-> 1,
             symbol |-> r.symbol, id |-> r.id, event |-> r.event,
             ingest |-> r.ingest, good |-> r.good]
  BY <1>1
<1> QED BY <1>2

\* Two rows the broker of today has, with one position, have the same columns.
LEMMA CurrentRows ==
    ASSUME NEW q \in BronzeRow, NEW r \in BronzeRow, Current(q), Current(r),
           q.split = r.split, q.offset = r.offset
    PROVE  Columns(q) = Columns(r)
<1> DEFINE rec == log[q.split][q.offset + 1]
<1>1. /\ q = [split |-> q.split, offset |-> q.offset, copy |-> q.copy,
              symbol |-> rec.symbol, id |-> rec.id, event |-> rec.event,
              ingest |-> rec.ingest, good |-> rec.good]
      /\ r = [split |-> q.split, offset |-> q.offset, copy |-> r.copy,
              symbol |-> rec.symbol, id |-> rec.id, event |-> rec.event,
              ingest |-> rec.ingest, good |-> rec.good]
  BY DEF Current, Row
<1> HIDE DEF rec
<1>2. /\ q.symbol = rec.symbol /\ q.id = rec.id /\ q.event = rec.event
      /\ q.ingest = rec.ingest /\ q.good = rec.good
  BY <1>1
<1>3. /\ r.symbol = rec.symbol /\ r.id = rec.id /\ r.event = rec.event
      /\ r.ingest = rec.ingest /\ r.good = rec.good
  BY <1>1
<1> QED BY <1>2, <1>3, SameColumns

LEMMA ArchiveHolds ==
    ASSUME TypeOK, PipelineInv, NEW s \in Splits, NEW copy \in 1 .. MaxCopies,
           Archive(s, copy)
    PROVE  TypeOK' /\ PipelineInv'
<1>1. PICK o \in 0 .. Len(log[s]) - 1 :
         /\ bronze' = bronze \cup {Row(s, o, copy)}
         /\ kind' = kind /\ clock' = clock /\ log' = log /\ wipes' = wipes
  BY DEF Archive
<1> DEFINE row == Row(s, o, copy)
<1>2. /\ row \in BronzeRow /\ o + 1 \in DOMAIN log[s]
      /\ row.split = s /\ row.offset = o /\ row.copy = copy
      /\ row.symbol = log[s][o + 1].symbol
      /\ row.ingest = log[s][o + 1].ingest
  <2>1. LogInv
    BY DEF PipelineInv
  <2>2. /\ s \in Splits /\ o \in 0 .. Len(log[s]) - 1 /\ copy \in 1 .. MaxCopies
    OBVIOUS
  <2> QED BY ONLY TypeOK, <2>1, <2>2, RowType
<1>3. Current(row)
  BY <1>2 DEF Current
<1> HIDE DEF row
<1>4. TypeOK'
  BY <1>1, <1>2 DEF TypeOK, row
<1>5. LogInv'
  BY <1>1 DEF PipelineInv, LogInv
<1>6. BronzeInv'
  <2>1. \A r \in BronzeRow : /\ Current(r)' <=> Current(r)
                             /\ Earlier(r)' <=> Earlier(r)
    BY <1>1 DEF Current, Earlier, Row
  <2>2. Partition[row.symbol] = row.split /\ row.ingest <= clock
    BY <1>2 DEF PipelineInv, LogInv
  <2>3. bronze \subseteq BronzeRow
    BY DEF TypeOK
  <2> SUFFICES ASSUME NEW r \in bronze'
               PROVE  /\ Partition[r.symbol] = r.split
                      /\ r.ingest <= clock'
                      /\ Current(r)' \/ (wipes' > 0 /\ Earlier(r)')
    BY DEF BronzeInv
  <2>4. CASE r = row
    BY <2>4, <2>1, <2>2, <1>1, <1>2, <1>3
  <2>5. CASE r \in bronze
    <3>1. /\ Partition[r.symbol] = r.split
          /\ r.ingest <= clock
          /\ Current(r) \/ (wipes > 0 /\ Earlier(r))
      BY <2>5 DEF PipelineInv, BronzeInv
    <3> QED BY <3>1, <2>1, <2>3, <2>5, <1>1
  <2> QED BY <2>4, <2>5, <1>1 DEF row
<1>7. Stamped(bronze)'
  <2>1. ASSUME NEW q \in bronze, q.ingest = row.ingest
        PROVE  Columns(q) = Columns(row)
    <3>1. q \in BronzeRow
      BY DEF TypeOK
    <3>2. CASE Current(q)
      <4>1. /\ q.split \in Splits /\ q.offset + 1 \in DOMAIN log[q.split]
            /\ q.ingest = log[q.split][q.offset + 1].ingest
        BY <3>1, <3>2 DEF Current, Row, BronzeRow
      <4>2. q.split = s
        <5>1. log[q.split][q.offset + 1].ingest = log[s][o + 1].ingest
          BY <4>1, <2>1, <1>2
        <5>2. \A t \in Splits : \A j \in DOMAIN log[t] :
                 log[t][j].ingest = log[s][o + 1].ingest => t = s
          BY <1>2 DEF PipelineInv, LogInv
        <5> QED BY <4>1, <5>1, <5>2
      <4>3. /\ q.offset \in Nat /\ o \in Nat
            /\ log[s][o + 1].ingest \in Nat
        BY <3>1, <1>2, PipelineBounds DEF BronzeRow
      <4>4. q.offset = o
        <5>1. ~(q.offset + 1 < o + 1) /\ ~(o + 1 < q.offset + 1)
          BY <4>1, <4>2, <4>3, <2>1, <1>2 DEF PipelineInv, LogInv
        <5> QED BY <5>1, <4>3
      <4> QED BY <4>2, <4>4, <3>1, <3>2, <1>2, <1>3, CurrentRows
    <3>3. CASE Earlier(q)
      <4>1. q.ingest < log[s][o + 1].ingest
        BY <3>3, <1>2 DEF Earlier
      <4>2. q.ingest \in Nat
        BY <3>1, PipelineBounds DEF BronzeRow
      <4> QED BY <4>1, <4>2, <2>1, <1>2
    <3> QED BY <3>2, <3>3 DEF PipelineInv, BronzeInv
  <2>2. bronze' = bronze \cup {row}
    BY <1>1 DEF row
  <2> SUFFICES ASSUME NEW q \in bronze', NEW r \in bronze', q.ingest = r.ingest
               PROVE  Columns(q) = Columns(r)
    BY DEF Stamped, Columns
  <2> QED BY <2>1, <2>2 DEF PipelineInv, Stamped
<1> QED BY <1>4, <1>5, <1>6, <1>7 DEF PipelineInv

LEMMA RecreateHolds == TypeOK /\ PipelineInv /\ RecreateBroker => TypeOK' /\ PipelineInv'
<1> SUFFICES ASSUME TypeOK, PipelineInv, RecreateBroker PROVE TypeOK' /\ PipelineInv'
  OBVIOUS
<1>1. /\ wipes < MaxWipes /\ wipes' = wipes + 1
      /\ log' = [s \in Splits |-> <<>>]
      /\ kind' = kind /\ clock' = clock /\ bronze' = bronze
  BY DEF RecreateBroker
<1>2. log' \in [Splits -> Seq(Record)] /\ \A s \in Splits : DOMAIN log'[s] = {}
  BY <1>1
<1>3. wipes \in Nat /\ wipes' \in 0 .. MaxWipes
  BY <1>1, PipelineBounds DEF TypeOK
<1>4. TypeOK'
  BY <1>1, <1>2, <1>3 DEF TypeOK
<1>5. LogInv'
  BY <1>2 DEF LogInv
<1>6. BronzeInv'
  <2>1. \A r : Earlier(r)'
    BY <1>2 DEF Earlier
  <2> QED BY <2>1, <1>1, <1>3 DEF PipelineInv, BronzeInv
<1>7. Stamped(bronze)'
  BY <1>1 DEF PipelineInv, Stamped, Columns
<1> QED BY <1>4, <1>5, <1>6, <1>7 DEF PipelineInv

(***************************************************************************)
(* Every reachable state is well typed; a row of the bucket is the broker's*)
(* own or older than anything it has, and a stamp belongs to one record.   *)
(***************************************************************************)
THEOREM PipelineInvariant == Spec => [](TypeOK /\ PipelineInv)
<1>1. TypeOK /\ PipelineInv /\ [Next]_vars => TypeOK' /\ PipelineInv'
  <2> SUFFICES ASSUME TypeOK, PipelineInv, [Next]_vars PROVE TypeOK' /\ PipelineInv'
    OBVIOUS
  <2>1. CASE Send
    BY <2>1, SendHolds
  <2>2. ASSUME NEW s \in Splits, NEW copy \in 1 .. MaxCopies, Archive(s, copy)
        PROVE  TypeOK' /\ PipelineInv'
    BY <2>2, ArchiveHolds
  <2>3. CASE RecreateBroker
    BY <2>3, RecreateHolds
  <2>4. CASE UNCHANGED vars
    <3>1. kind' = kind /\ clock' = clock /\ log' = log /\ bronze' = bronze /\ wipes' = wipes
      BY <2>4 DEF vars
    <3>2. TypeOK'
      BY <3>1 DEF TypeOK
    <3>3. LogInv' /\ Stamped(bronze)'
      BY <3>1 DEF PipelineInv, LogInv, Stamped, Columns
    <3>4. BronzeInv'
      BY <3>1 DEF PipelineInv, BronzeInv, Current, Earlier, Row
    <3> QED BY <3>2, <3>3, <3>4 DEF PipelineInv
  <2> QED BY <2>1, <2>2, <2>3, <2>4 DEF Next
<1> QED BY <1>1, InitHolds, PTL DEF Spec

(***************************************************************************)
(* Types: what is in the broker and in the bucket (create_topics.py:13-36, *)
(* bronze_sink_job.py:145-190).                                            *)
(***************************************************************************)
THEOREM TypeCorrect == Spec => []TypeOK
BY PipelineInvariant, PTL

-----------------------------------------------------------------------------
(***************************************************************************)
(* What a view returns                                                     *)
(***************************************************************************)

\* What the views need of the rows they are given.
Sound(rows) == /\ rows \subseteq BronzeRow
               /\ Stamped(rows)
               /\ \A r \in rows : Partition[r.symbol] = r.split

\* Every row of one table is, up to its copies, a row of the other one.
Within(A, B) == \A a \in A : \E b \in B : Columns(a) = Columns(b)

\* The first deduplication of stg_trades and stg_rest_quotes.
Latest(rows) == ByKafka(Filtered(rows), LatestIngest(Filtered(rows)))

LEMMA SoundRows ==
    ASSUME NEW rows, Sound(rows)
    PROVE  /\ rows \subseteq BronzeRow /\ Filtered(rows) \subseteq rows
           /\ \A r \in rows : r.offset \in Nat /\ r.ingest \in Nat
BY PipelineBounds DEF Sound, BronzeRow, Filtered

LEMMA LatestKeeps ==
    ASSUME NEW rows, Sound(rows), NEW kept \in Latest(rows)
    PROVE  /\ kept \subseteq Filtered(rows)
           /\ \A r \in Filtered(rows) : \E q \in kept : KafkaKey(q) = KafkaKey(r)
           /\ \A q, r \in kept : KafkaKey(q) = KafkaKey(r) => q = r
           /\ \A q \in kept, r \in Filtered(rows) :
                 KafkaKey(r) = KafkaKey(q) => r.ingest <= q.ingest
<1>1. \A r \in Filtered(rows) : r.ingest \in Nat
  BY SoundRows
<1>2. kept \in ByKafka(Filtered(rows), LatestIngest(Filtered(rows)))
  BY DEF Latest
<1> QED BY <1>1, <1>2, ByKafkaKeeps, ByKafkaLatest

LEMMA TradesView ==
    ASSUME NEW rows, Sound(rows), NEW view \in StgTrades(rows)
    PROVE  \E dedup \in Latest(rows) :
              /\ view \subseteq dedup
              /\ \A r \in dedup : \E q \in view : TradeIdentity(q) = TradeIdentity(r)
              /\ \A q, r \in view : TradeIdentity(q) = TradeIdentity(r) => q = r
              /\ \A q \in view, r \in dedup :
                    TradeIdentity(r) = TradeIdentity(q) => r.offset <= q.offset
BY SoundRows, TradesKeep DEF Latest

\* A view has valid rows of the table, no two of one Kafka identity.
LEMMA ViewKeys ==
    ASSUME kind \in {"trades", "depth", "quotes"},
           NEW rows, Sound(rows), NEW view \in Views(rows)
    PROVE  /\ view \subseteq Filtered(rows)
           /\ \A q, r \in view : KafkaKey(q) = KafkaKey(r) => q = r
<1>1. CASE kind = "trades"
  <2>1. view \in StgTrades(rows)
    BY <1>1 DEF Views
  <2>2. PICK dedup \in Latest(rows) : view \subseteq dedup
    BY <2>1, TradesView
  <2> QED BY <2>2, LatestKeeps
<1>2. CASE kind = "depth"
  <2>1. view \in ByKafka(Filtered(rows), FirstOffset(Filtered(rows)))
    BY <1>2 DEF Views, StgDepth
  <2> QED BY <2>1, ByKafkaKeeps
<1>3. CASE kind = "quotes"
  <2>1. view \in Latest(rows)
    BY <1>3 DEF Views, StgRestQuotes, Latest
  <2> QED BY <2>1, LatestKeeps
<1> QED BY <1>1, <1>2, <1>3

\* The reader of a view sees every row once.
LEMMA ContentOfView ==
    ASSUME kind \in {"trades", "depth", "quotes"},
           NEW rows, Sound(rows), NEW view \in Views(rows)
    PROVE  Content(view) = [c \in {Columns(q) : q \in view} |-> 1]
<1>1. view \subseteq BronzeRow
  BY ViewKeys, SoundRows
<1>2. ASSUME NEW p \in view
      PROVE  Cardinality({q \in view : Columns(q) = Columns(p)}) = 1
  <2>1. ASSUME NEW q \in view, Columns(q) = Columns(p)
        PROVE  q = p
    <3>1. q.split = p.split /\ q.offset = p.offset
      BY <2>1, <1>1, SameColumns
    <3> QED BY <3>1, ViewKeys DEF KafkaKey
  <2>2. {q \in view : Columns(q) = Columns(p)} = {p}
    BY <2>1
  <2> QED BY <2>2, FS_Singleton
<1>3. \A c \in {Columns(q) : q \in view} :
         Cardinality({q \in view : Columns(q) = c}) = 1
  BY <1>2
<1> QED BY <1>3 DEF Content

LEMMA SameContent ==
    ASSUME kind \in {"trades", "depth", "quotes"},
           NEW A, Sound(A), NEW v \in Views(A), NEW B, Sound(B), NEW w \in Views(B),
           Within(v, w), Within(w, v)
    PROVE  Content(v) = Content(w)
<1>1. {Columns(q) : q \in v} = {Columns(q) : q \in w}
  BY DEF Within
<1> QED BY <1>1, ContentOfView

-----------------------------------------------------------------------------
(***************************************************************************)
(* Two reads of the same table, up to its copies                           *)
(***************************************************************************)

\* The first deduplication has no ties but between copies.
LEMMA LatestWithin ==
    ASSUME NEW A, NEW B, Sound(A), Sound(B), Stamped(A \cup B), Within(A, B), Within(B, A),
           NEW D \in Latest(A), NEW E \in Latest(B)
    PROVE  Within(D, E)
<1> SUFFICES ASSUME NEW q \in D PROVE \E p \in E : Columns(q) = Columns(p)
  BY DEF Within
<1>1. q \in A /\ q \in BronzeRow /\ q.good /\ q \in Filtered(A)
  BY LatestKeeps, SoundRows DEF Filtered
<1>2. PICK b \in B : Columns(b) = Columns(q)
  BY <1>1 DEF Within
<1>3. b \in BronzeRow
  BY SoundRows
<1>4. b \in Filtered(B) /\ KafkaKey(b) = KafkaKey(q) /\ b.ingest = q.ingest
  BY <1>1, <1>2, <1>3, SameColumns DEF Filtered, KafkaKey
<1>5. PICK p \in E : KafkaKey(p) = KafkaKey(b)
  BY <1>4, LatestKeeps
<1>6. p \in B /\ p \in BronzeRow /\ p.good
  BY LatestKeeps, SoundRows DEF Filtered
<1>7. b.ingest <= p.ingest
  BY <1>4, <1>5, LatestKeeps
<1>8. PICK a \in A : Columns(a) = Columns(p)
  BY <1>6 DEF Within
<1>9. a \in BronzeRow
  BY SoundRows
<1>10. a \in Filtered(A) /\ KafkaKey(a) = KafkaKey(q) /\ a.ingest = p.ingest
  BY <1>4, <1>5, <1>6, <1>8, <1>9, SameColumns DEF Filtered, KafkaKey
<1>11. a.ingest <= q.ingest
  BY <1>10, LatestKeeps
<1>12. p.ingest = q.ingest
  BY <1>1, <1>4, <1>6, <1>7, <1>10, <1>11, SoundRows
<1> QED BY <1>1, <1>6, <1>12 DEF Stamped

LEMMA TradesWithin ==
    ASSUME NEW A, NEW B, Sound(A), Sound(B), Stamped(A \cup B), Within(A, B), Within(B, A),
           NEW v \in StgTrades(A), NEW w \in StgTrades(B)
    PROVE  Within(v, w)
<1> SUFFICES ASSUME NEW q \in v PROVE \E p \in w : Columns(q) = Columns(p)
  BY DEF Within
<1>1. PICK D \in Latest(A) :
         /\ v \subseteq D
         /\ \A x, y \in v : TradeIdentity(x) = TradeIdentity(y) => x = y
         /\ \A x \in v, y \in D :
               TradeIdentity(y) = TradeIdentity(x) => y.offset <= x.offset
  BY TradesView
<1>2. PICK E \in Latest(B) :
         /\ w \subseteq E
         /\ \A y \in E : \E x \in w : TradeIdentity(x) = TradeIdentity(y)
         /\ \A x \in w, y \in E :
               TradeIdentity(y) = TradeIdentity(x) => y.offset <= x.offset
  BY TradesView
<1>3. Within(D, E)
  BY LatestWithin
<1>4. Within(E, D)
  <2>1. B \cup A = A \cup B
    OBVIOUS
  <2>2. Stamped(B \cup A)
    BY <2>1
  <2> QED BY <2>2, LatestWithin
<1>5. D \subseteq A /\ E \subseteq B
  BY LatestKeeps, SoundRows
<1>6. PICK q2 \in E : Columns(q) = Columns(q2)
  BY <1>1, <1>3 DEF Within
<1>7. PICK p \in w : TradeIdentity(p) = TradeIdentity(q2)
  BY <1>2
<1>8. PICK p2 \in D : Columns(p) = Columns(p2)
  BY <1>2, <1>4 DEF Within
<1>9. /\ q \in BronzeRow /\ q2 \in BronzeRow /\ p \in BronzeRow /\ p2 \in BronzeRow
      /\ Partition[q.symbol] = q.split /\ Partition[p2.symbol] = p2.split
  BY <1>1, <1>2, <1>5, SoundRows DEF Sound
<1>10. /\ q2.offset = q.offset /\ q2.symbol = q.symbol /\ q2.id = q.id
       /\ p2.offset = p.offset /\ p2.symbol = p.symbol /\ p2.id = p.id
  BY <1>6, <1>8, <1>9, SameColumns
<1>11. p.symbol = q2.symbol /\ p.id = q2.id
  BY <1>7 DEF TradeIdentity
<1>12. q2.offset <= p.offset
  BY <1>2, <1>7
<1>13. p2.offset <= q.offset
  <2>1. TradeIdentity(p2) = TradeIdentity(q)
    BY <1>10, <1>11 DEF TradeIdentity
  <2> QED BY <1>1, <2>1
<1>14. p2.offset = q.offset
  BY <1>9, <1>10, <1>12, <1>13, PipelineBounds DEF BronzeRow
<1>15. KafkaKey(p2) = KafkaKey(q)
  BY <1>9, <1>10, <1>11, <1>14 DEF KafkaKey
<1>16. p2 = q
  BY <1>1, <1>15, LatestKeeps
<1> QED BY <1>8, <1>16

\* Where a Kafka identity belongs to one record, any choice is the same one.
LEMMA DepthWithin ==
    ASSUME NEW A, NEW B, Sound(A), Sound(B), Within(A, B),
           \A q, r \in B : KafkaKey(q) = KafkaKey(r) => Columns(q) = Columns(r),
           NEW v \in StgDepth(A), NEW w \in StgDepth(B)
    PROVE  Within(v, w)
<1> SUFFICES ASSUME NEW q \in v PROVE \E p \in w : Columns(q) = Columns(p)
  BY DEF Within
<1>1. q \in Filtered(A)
  BY ByKafkaKeeps DEF StgDepth
<1>2. q \in A /\ q.good /\ q \in BronzeRow
  BY <1>1, SoundRows DEF Filtered
<1>3. PICK b \in B : Columns(q) = Columns(b)
  BY <1>2 DEF Within
<1>4. b \in Filtered(B) /\ KafkaKey(b) = KafkaKey(q)
  BY <1>2, <1>3, SoundRows, SameColumns DEF Filtered, KafkaKey
<1>5. PICK p \in w : p \in Filtered(B) /\ KafkaKey(p) = KafkaKey(b)
  BY <1>4, ByKafkaKeeps DEF StgDepth
<1>6. p \in B
  BY <1>5, SoundRows
<1> QED BY <1>3, <1>5, <1>6

-----------------------------------------------------------------------------
(***************************************************************************)
(* Every valid thing is there once, and every read returns the same        *)
(***************************************************************************)

LEMMA BronzeIsSound == TypeOK /\ PipelineInv => Sound(bronze)
BY DEF TypeOK, PipelineInv, BronzeInv, Sound

\* With one broker a Kafka identity is one record's.
LEMMA OneBroker ==
    ASSUME TypeOK, PipelineInv, wipes = 0
    PROVE  \A q, r \in bronze : KafkaKey(q) = KafkaKey(r) => Columns(q) = Columns(r)
<1> TAKE q \in bronze, r \in bronze
<1> HAVE KafkaKey(q) = KafkaKey(r)
<1>1. q \in BronzeRow /\ r \in BronzeRow
  BY DEF TypeOK
<1>2. Current(q) /\ Current(r)
  BY DEF PipelineInv, BronzeInv
<1> QED BY <1>1, <1>2, CurrentRows DEF KafkaKey

LEMMA CompleteHolds == TypeOK /\ PipelineInv => SilverComplete
<1> SUFFICES ASSUME TypeOK, PipelineInv, wipes = 0,
                    NEW view \in Views(bronze), NEW r \in Filtered(bronze)
             PROVE  Cardinality({q \in view : Identity(q) = Identity(r)}) = 1
  BY DEF SilverComplete
<1>1. Sound(bronze) /\ kind \in {"trades", "depth", "quotes"}
  BY BronzeIsSound DEF TypeOK
<1>2. r \in bronze /\ r \in BronzeRow /\ view \subseteq BronzeRow /\ view \subseteq bronze
  BY <1>1, SoundRows, ViewKeys
<1> SUFFICES /\ \E q \in view : Identity(q) = Identity(r)
             /\ \A q, p \in view : Identity(q) = Identity(p) => q = p
  <2>1. PICK q \in view : Identity(q) = Identity(r)
    OBVIOUS
  <2>2. {p \in view : Identity(p) = Identity(r)} = {q}
    BY <2>1
  <2> QED BY <2>2, FS_Singleton
<1>3. CASE kind = "trades"
  <2>1. view \in StgTrades(bronze)
    BY <1>3 DEF Views
  <2>2. PICK dedup \in Latest(bronze) :
              /\ view \subseteq dedup
              /\ \A x \in dedup : \E q \in view : TradeIdentity(q) = TradeIdentity(x)
              /\ \A x, y \in view : TradeIdentity(x) = TradeIdentity(y) => x = y
    BY <1>1, <2>1, TradesView
  <2>3. PICK x \in dedup : KafkaKey(x) = KafkaKey(r)
    BY <1>1, LatestKeeps
  <2>4. x \in bronze /\ x \in BronzeRow
    BY <1>1, LatestKeeps, SoundRows
  <2>5. Columns(x) = Columns(r)
    BY <1>2, <2>3, <2>4, OneBroker
  <2>6. TradeIdentity(x) = TradeIdentity(r)
    BY <1>2, <2>4, <2>5, SameColumns DEF TradeIdentity
  <2>7. PICK q \in view : TradeIdentity(q) = TradeIdentity(x)
    BY <2>2
  <2>8. \A y : Identity(y) = TradeIdentity(y)
    BY <1>3 DEF Identity
  <2> QED BY <2>2, <2>6, <2>7, <2>8
<1>4. CASE kind # "trades"
  <2>1. PICK q \in view : KafkaKey(q) = KafkaKey(r)
    <3>1. CASE kind = "depth"
      <4>1. view \in ByKafka(Filtered(bronze), FirstOffset(Filtered(bronze)))
        BY <3>1 DEF Views, StgDepth
      <4> QED BY <4>1, ByKafkaKeeps
    <3>2. CASE kind = "quotes"
      <4>1. view \in Latest(bronze)
        BY <3>2 DEF Views, StgRestQuotes, Latest
      <4> QED BY <4>1, <1>1, LatestKeeps
    <3> QED BY <1>1, <1>4, <3>1, <3>2
  <2>2. \A y : Identity(y) = <<y.ingest>>
    BY <1>4 DEF Identity
  <2>3. Columns(q) = Columns(r)
    BY <1>2, <2>1, OneBroker
  <2>4. q.ingest = r.ingest
    BY <1>2, <2>3, SameColumns
  <2>5. ASSUME NEW x \in view, NEW y \in view, x.ingest = y.ingest
        PROVE  x = y
    <3>1. Columns(x) = Columns(y)
      BY <1>2, <2>5 DEF PipelineInv, Stamped
    <3>2. KafkaKey(x) = KafkaKey(y)
      BY <1>2, <3>1, SameColumns DEF KafkaKey
    <3> QED BY <3>2, <1>1, ViewKeys
  <2> QED BY <2>2, <2>4, <2>5
<1> QED BY <1>3, <1>4

(***************************************************************************)
(* Whatever is archived, in whatever order and how often: with one broker  *)
(* every valid trade, update and quote of the bucket is in its view once   *)
(* (stg_trades.sql:58-93, stg_depth.sql:65-101, stg_rest_quotes.sql:51-72).*)
(***************************************************************************)
THEOREM ViewsAreComplete == Spec => []SilverComplete
BY PipelineInvariant, CompleteHolds, PTL

\* Two reads of tables that differ in copies only.
LEMMA ReadsAgree ==
    ASSUME kind \in {"trades", "depth", "quotes"},
           NEW A, NEW B, Sound(A), Sound(B), Stamped(A \cup B), Within(A, B), Within(B, A),
           kind = "depth" =>
              \A q, r \in A \cup B : KafkaKey(q) = KafkaKey(r) => Columns(q) = Columns(r),
           NEW v \in Views(A), NEW w \in Views(B)
    PROVE  Content(v) = Content(w)
<1>1. Stamped(B \cup A)
  BY DEF Stamped
<1>2. Within(v, w) /\ Within(w, v)
  <2>1. CASE kind = "trades"
    <3>1. v \in StgTrades(A) /\ w \in StgTrades(B)
      BY <2>1 DEF Views
    <3> QED BY <3>1, <1>1, TradesWithin
  <2>2. CASE kind = "depth"
    <3>1. v \in StgDepth(A) /\ w \in StgDepth(B)
      BY <2>2 DEF Views
    <3>2. /\ \A q, r \in A : KafkaKey(q) = KafkaKey(r) => Columns(q) = Columns(r)
          /\ \A q, r \in B : KafkaKey(q) = KafkaKey(r) => Columns(q) = Columns(r)
      BY <2>2
    <3> QED BY <3>1, <3>2, DepthWithin
  <2>3. CASE kind = "quotes"
    <3>1. v \in Latest(A) /\ w \in Latest(B)
      BY <2>3 DEF Views, StgRestQuotes, Latest
    <3> QED BY <3>1, <1>1, LatestWithin
  <2> QED BY <2>1, <2>2, <2>3
<1> QED BY <1>2, SameContent

LEMMA DeterministicHolds == TypeOK /\ PipelineInv => SilverDeterministic
<1> SUFFICES ASSUME TypeOK, PipelineInv, kind = "depth" => wipes = 0,
                    NEW v \in Views(bronze), NEW w \in Views(bronze)
             PROVE  Content(v) = Content(w)
  BY DEF SilverDeterministic
<1>1. Sound(bronze) /\ kind \in {"trades", "depth", "quotes"}
  BY BronzeIsSound DEF TypeOK
<1>2. bronze \cup bronze = bronze /\ Within(bronze, bronze)
  BY DEF Within
<1>3. Stamped(bronze \cup bronze)
  BY <1>1, <1>2 DEF Sound
<1>4. kind = "depth" => \A q, r \in bronze \cup bronze :
                           KafkaKey(q) = KafkaKey(r) => Columns(q) = Columns(r)
  BY <1>2, OneBroker
<1> QED BY <1>1, <1>2, <1>3, <1>4, ReadsAgree

(***************************************************************************)
(* No tie of an ORDER BY is between rows that differ, so a view read twice *)
(* is the same table, also across brokers but for stg_depth                *)
(* (stg_trades.sql:79-92, stg_rest_quotes.sql:58-66).                      *)
(***************************************************************************)
THEOREM ReadsAreRepeatable == Spec => []SilverDeterministic
BY PipelineInvariant, DeterministicHolds, PTL

-----------------------------------------------------------------------------
(***************************************************************************)
(* Steps                                                                   *)
(***************************************************************************)

\* What a step does to the bucket: nothing, or one row of the broker is added.
LEMMA BronzeStep ==
    ASSUME TypeOK, PipelineInv, [Next]_vars
    PROVE  \/ bronze' = bronze
           \/ \E row \in BronzeRow :
                 /\ Current(row)
                 /\ bronze' = bronze \cup {row}
                 /\ log' = log /\ kind' = kind
<1>1. CASE Send \/ RecreateBroker
  BY <1>1 DEF Send, RecreateBroker
<1>2. ASSUME NEW s \in Splits, NEW copy \in 1 .. MaxCopies, Archive(s, copy)
      PROVE  \E row \in BronzeRow : /\ Current(row)
                                    /\ bronze' = bronze \cup {row}
                                    /\ log' = log /\ kind' = kind
  <2>1. PICK o \in 0 .. Len(log[s]) - 1 :
           bronze' = bronze \cup {Row(s, o, copy)} /\ kind' = kind /\ log' = log
    BY <1>2 DEF Archive
  <2>2. Row(s, o, copy) \in BronzeRow
    BY RowType DEF PipelineInv
  <2>3. Current(Row(s, o, copy))
    <3>1. /\ o + 1 \in DOMAIN log[s]
          /\ Row(s, o, copy).split = s /\ Row(s, o, copy).offset = o
          /\ Row(s, o, copy).copy = copy
      BY RowType DEF PipelineInv
    <3> QED BY <3>1 DEF Current
  <2> QED BY <2>1, <2>2, <2>3
<1>3. CASE UNCHANGED vars
  BY <1>3 DEF vars
<1> QED BY <1>1, <1>2, <1>3 DEF Next

\* The bucket before and after a step, as the views need it.
LEMMA SoundStep ==
    ASSUME TypeOK, PipelineInv, TypeOK', PipelineInv', [Next]_vars
    PROVE  /\ Sound(bronze) /\ Sound(bronze')
           /\ bronze \subseteq bronze'
           /\ kind \in {"trades", "depth", "quotes"}
<1>1. Sound(bronze)
  BY BronzeIsSound
<1>2. bronze' \subseteq BronzeRow
  BY DEF TypeOK
<1>3. Stamped(bronze')
  BY DEF PipelineInv, Stamped, Columns
<1>4. \A r \in bronze' : Partition[r.symbol] = r.split
  BY DEF PipelineInv, BronzeInv
<1>5. bronze \subseteq bronze'
  BY BronzeStep
<1> QED BY <1>1, <1>2, <1>3, <1>4, <1>5 DEF Sound, TypeOK

\* A row the broker has was stamped after what is before it in its partition.
LEMMA CurrentIsNewer ==
    ASSUME TypeOK, PipelineInv, NEW q \in bronze, NEW r \in BronzeRow, Current(r),
           Partition[q.symbol] = r.split, q.offset <= r.offset
    PROVE  q.ingest <= r.ingest
<1>1. /\ q \in BronzeRow /\ q.split = r.split /\ r.split \in Splits
      /\ r.offset + 1 \in DOMAIN log[r.split]
      /\ r.ingest = log[r.split][r.offset + 1].ingest
  BY DEF TypeOK, PipelineInv, BronzeInv, Current, Row, BronzeRow
<1>2. q.ingest \in Nat /\ r.ingest \in Nat /\ q.offset \in Nat /\ r.offset \in Nat
  BY <1>1, PipelineBounds DEF BronzeRow
<1>3. CASE Current(q)
  <2>1. /\ q.offset + 1 \in DOMAIN log[r.split]
        /\ q.ingest = log[r.split][q.offset + 1].ingest
    BY <1>1, <1>3 DEF Current, Row
  <2>2. CASE q.offset = r.offset
    BY <2>1, <2>2, <1>1, <1>2
  <2>3. CASE q.offset + 1 < r.offset + 1
    <3>1. log[r.split][q.offset + 1].ingest < log[r.split][r.offset + 1].ingest
      BY <2>1, <2>3, <1>1 DEF PipelineInv, LogInv
    <3> QED BY <3>1, <2>1, <1>1, <1>2
  <2> QED BY <2>2, <2>3, <1>2
<1>4. CASE Earlier(q)
  BY <1>1, <1>2, <1>4 DEF Earlier
<1> QED BY <1>3, <1>4 DEF PipelineInv, BronzeInv

LEMMA NewerStep ==
    ASSUME TypeOK, PipelineInv, TypeOK', PipelineInv', [Next]_vars, kind = "trades",
           NEW view \in Views(bronze), NEW next \in Views(bronze'),
           NEW q \in view, NEW r \in next, Identity(q) = Identity(r)
    PROVE  q.ingest <= r.ingest \/ Displaced(q, bronze')
<1> SUFFICES ASSUME ~Displaced(q, bronze') PROVE q.ingest <= r.ingest
  OBVIOUS
<1>1. Sound(bronze) /\ Sound(bronze') /\ bronze \subseteq bronze'
  BY SoundStep
<1>2. view \in StgTrades(bronze) /\ next \in StgTrades(bronze')
  BY DEF Views
<1>3. PICK D \in Latest(bronze) :
         /\ view \subseteq D
         /\ \A x \in view, y \in D :
               TradeIdentity(y) = TradeIdentity(x) => y.offset <= x.offset
  BY <1>1, <1>2, TradesView
<1>4. PICK E \in Latest(bronze') :
         /\ next \subseteq E
         /\ \A x \in next, y \in E :
               TradeIdentity(y) = TradeIdentity(x) => y.offset <= x.offset
  BY <1>1, <1>2, TradesView
<1>5. /\ D \subseteq Filtered(bronze) /\ E \subseteq Filtered(bronze')
      /\ Filtered(bronze) \subseteq Filtered(bronze')
  BY <1>1, LatestKeeps DEF Filtered
<1>6. Filtered(bronze') \subseteq bronze' /\ bronze' \subseteq BronzeRow
  BY <1>1, SoundRows
<1>7. TradeIdentity(q) = TradeIdentity(r)
  BY DEF Identity
<1>8. q \in Filtered(bronze) /\ q \in bronze /\ r \in Filtered(bronze')
  BY <1>1, <1>3, <1>4, <1>5, SoundRows
\* q is still what its Kafka identity stands for.
<1>9. PICK k \in E : KafkaKey(k) = KafkaKey(q)
  BY <1>1, <1>5, <1>8, LatestKeeps
<1>10. k.ingest = q.ingest
  <2>1. q.ingest <= k.ingest
    BY <1>1, <1>5, <1>8, <1>9, LatestKeeps
  <2>2. ~(k.ingest > q.ingest)
    BY <1>5, <1>9 DEF Displaced
  <2>3. k.ingest \in Nat /\ q.ingest \in Nat
    BY <1>1, <1>5, <1>6, <1>8, SoundRows
  <2> QED BY <2>1, <2>2, <2>3
<1>11. Columns(k) = Columns(q)
  BY <1>1, <1>5, <1>6, <1>8, <1>10 DEF Sound, Stamped
<1>12. k \in BronzeRow /\ q \in BronzeRow /\ r \in BronzeRow
  BY <1>5, <1>6, <1>8
<1>13. k.offset = q.offset /\ k.symbol = q.symbol /\ k.id = q.id
  BY <1>11, <1>12, SameColumns
<1>14. r.symbol = q.symbol /\ r.id = q.id
  BY <1>7 DEF TradeIdentity
<1>15. TradeIdentity(k) = TradeIdentity(r)
  BY <1>13, <1>14 DEF TradeIdentity
<1>16. q.offset <= r.offset
  BY <1>4, <1>13, <1>15
<1>17. CASE r \in bronze
  <2>1. r \in Filtered(bronze)
    BY <1>8, <1>17 DEF Filtered
  <2>2. PICK d \in D : KafkaKey(d) = KafkaKey(r)
    BY <2>1, <1>1, LatestKeeps
  <2>3. r.ingest <= d.ingest
    BY <2>1, <2>2, <1>1, LatestKeeps
  <2>4. d \in Filtered(bronze') /\ d \in bronze' /\ d \in BronzeRow
    BY <1>5, <1>6
  <2>5. d.ingest <= r.ingest
    BY <2>2, <2>4, <1>1, <1>4, LatestKeeps
  <2>6. d.ingest = r.ingest
    BY <2>3, <2>4, <2>5, <1>12, PipelineBounds DEF BronzeRow
  <2>7. Columns(d) = Columns(r)
    BY <2>4, <2>6, <1>1, <1>17 DEF Sound, Stamped
  <2>8. d.offset = r.offset /\ d.symbol = r.symbol /\ d.id = r.id
    BY <2>4, <2>7, <1>12, SameColumns
  <2>9. TradeIdentity(d) = TradeIdentity(q)
    BY <2>8, <1>14 DEF TradeIdentity
  <2>10. r.offset <= q.offset
    BY <2>8, <2>9, <1>3
  <2>11. r.offset = k.offset
    BY <2>10, <1>12, <1>13, <1>16, PipelineBounds DEF BronzeRow
  <2>12. r.split = k.split
    BY <1>1, <1>5, <1>6, <1>8, <1>13, <1>14 DEF Sound
  <2>13. r = k
    BY <2>11, <2>12, <1>1, <1>4, LatestKeeps DEF KafkaKey
  <2> QED BY <2>13, <1>10, <1>12, PipelineBounds DEF BronzeRow
<1>18. CASE r \notin bronze
  <2>1. Current(r)
    BY <1>6, <1>8, <1>18, BronzeStep
  <2>2. Partition[q.symbol] = r.split
    BY <1>1, <1>6, <1>8, <1>14 DEF Sound
  <2> QED BY <2>1, <2>2, <1>8, <1>12, <1>16, CurrentIsNewer
<1> QED BY <1>17, <1>18

(***************************************************************************)
(* Archiving, sending again and a recreated broker never bring an old row  *)
(* of a trade back, unless its Kafka identity has gone to another record   *)
(* (stg_trades.sql:81, 91).                                                *)
(***************************************************************************)
THEOREM TradesOnlyGetNewer == Spec => RowsOnlyGetNewer
<1>1. TypeOK /\ PipelineInv /\ TypeOK' /\ PipelineInv' /\ [Next]_vars =>
      [kind = "trades" =>
         \A view \in Views(bronze), next \in Views(bronze') :
             \A q \in view, r \in next :
                 Identity(q) = Identity(r) =>
                     q.ingest <= r.ingest \/ Displaced(q, bronze')]_vars
  BY NewerStep
<1> QED BY <1>1, PipelineInvariant, PTL DEF Spec, RowsOnlyGetNewer

-----------------------------------------------------------------------------
(***************************************************************************)
(* Copies                                                                  *)
(***************************************************************************)

\* The deduplications always return something: ties are between copies.
LEMMA LatestExists ==
    ASSUME NEW rows, Sound(rows)
    PROVE  Latest(rows) # {}
<1> DEFINE valid == Filtered(rows)
           key == [r \in valid |-> KafkaKey(r)]
           n == [r \in valid |-> r.ingest]
<1>1. valid \subseteq rows /\ valid \subseteq BronzeRow
  BY SoundRows
<1>2. (\A r \in valid : n[r] \in 0 .. MaxRecords) /\ MaxRecords \in Nat
  BY <1>1, PipelineBounds DEF BronzeRow
<1>3. \A r \in valid : n[r] = r.ingest
  OBVIOUS
<1> HIDE DEF n, key, valid
<1>4. ASSUME NEW r \in valid
      PROVE  \E q \in valid :
                key[q] = key[r] /\ \A p \in valid :
                   key[p] = key[q] => <<p, q>> \notin LatestIngest(valid)
  <2> PICK q \in Greatest(valid, key, n, r) : TRUE
    BY <1>2, GreatestRow
  <2>1. /\ q \in valid /\ key[q] = key[r]
        /\ \A p \in valid : key[p] = key[r] => n[p] <= n[q]
    BY DEF Greatest
  <2>2. ASSUME NEW p \in valid, key[p] = key[q]
        PROVE  <<p, q>> \notin LatestIngest(valid)
    <3>1. p.ingest <= q.ingest
      BY <1>3, <2>1, <2>2
    <3>2. p \in BronzeRow /\ q \in BronzeRow
      BY <1>1, <2>1
    <3>3. /\ p.ingest \in Nat /\ q.ingest \in Nat
          /\ p.event \in Times /\ q.event \in Times
      BY <3>2, PipelineBounds DEF BronzeRow
    <3>4. p.ingest = q.ingest => p.event = q.event
      BY <3>2, <1>1, <2>1, SameColumns DEF Sound, Stamped
    <3>5. p.event \in Nat /\ q.event \in Nat
      BY <3>3, TimesAssumption
    <3> QED BY <3>1, <3>3, <3>4, <3>5 DEF LatestIngest
  <2> QED BY <2>1, <2>2
<1>5. RowNumberOne(valid, key, LatestIngest(valid)) # {}
  BY <1>4, RowNumberOneExists
<1> QED BY <1>5 DEF Latest, ByKafka, key, valid

LEMMA TradesExist ==
    ASSUME NEW rows, Sound(rows)
    PROVE  StgTrades(rows) # {}
<1>1. PICK dedup \in Latest(rows) : TRUE
  BY LatestExists
<1> DEFINE key == [r \in dedup |-> TradeIdentity(r)]
           n == [r \in dedup |-> r.offset]
<1>2. dedup \subseteq BronzeRow
  BY LatestKeeps, SoundRows
<1>3. (\A r \in dedup : n[r] \in 0 .. MaxRecords) /\ MaxRecords \in Nat
  BY <1>2, PipelineBounds DEF BronzeRow
<1>4. \A r \in dedup : n[r] = r.offset /\ r.offset \in Nat
  BY <1>2, PipelineBounds DEF BronzeRow
<1> HIDE DEF n, key
<1>5. ASSUME NEW r \in dedup
      PROVE  \E q \in dedup :
                key[q] = key[r] /\ \A p \in dedup :
                   key[p] = key[q] => <<p, q>> \notin LatestOffset(dedup)
  <2> PICK q \in Greatest(dedup, key, n, r) : TRUE
    BY <1>3, GreatestRow
  <2>1. /\ q \in dedup /\ key[q] = key[r]
        /\ \A p \in dedup : key[p] = key[r] => n[p] <= n[q]
    BY DEF Greatest
  <2>2. ASSUME NEW p \in dedup, key[p] = key[q]
        PROVE  <<p, q>> \notin LatestOffset(dedup)
    <3>1. p.offset <= q.offset /\ p.offset \in Nat /\ q.offset \in Nat
      BY <1>4, <2>1, <2>2
    <3> QED BY <3>1 DEF LatestOffset
  <2> QED BY <2>1, <2>2
<1>6. PICK view \in RowNumberOne(dedup, key, LatestOffset(dedup)) : TRUE
  BY <1>5, RowNumberOneExists
<1>7. view \in StgTrades(rows)
  BY <1>1, <1>6 DEF StgTrades, Latest, key
<1> QED BY <1>7

\* stg_depth's order is all ties; whatever it picks of one table, it may pick
\* a copy of it from the other.
LEMMA DepthCopies ==
    ASSUME NEW A, NEW B, Sound(A), Sound(B), Within(A, B), Within(B, A),
           NEW v \in StgDepth(A)
    PROVE  \E w \in StgDepth(B) : Within(v, w) /\ Within(w, v)
<1> DEFINE pick(q) == CHOOSE b \in B : Columns(b) = Columns(q)
           w == {pick(q) : q \in v}
           valid == Filtered(B)
           key == [r \in valid |-> KafkaKey(r)]
<1>1. /\ v \subseteq Filtered(A)
      /\ \A r \in Filtered(A) : \E q \in v : KafkaKey(q) = KafkaKey(r)
      /\ \A q, r \in v : KafkaKey(q) = KafkaKey(r) => q = r
  BY ByKafkaKeeps DEF StgDepth
<1>2. v \subseteq A /\ v \subseteq BronzeRow
  BY <1>1, SoundRows
<1>3. ASSUME NEW q \in v
      PROVE  pick(q) \in B /\ Columns(pick(q)) = Columns(q)
  <2>1. \E b \in B : Columns(b) = Columns(q)
    BY <1>2 DEF Within
  <2> QED BY <2>1, Zenon
<1> HIDE DEF pick
<1>4. ASSUME NEW q \in v
      PROVE  pick(q) \in valid /\ KafkaKey(pick(q)) = KafkaKey(q)
  <2>1. pick(q) \in BronzeRow /\ q \in BronzeRow /\ q.good
    BY <1>1, <1>2, <1>3, SoundRows DEF Filtered
  <2> QED BY <2>1, <1>3, SameColumns DEF Filtered, KafkaKey
<1>5. Within(v, w) /\ Within(w, v)
  BY <1>3 DEF Within
<1>6. w \subseteq valid
  BY <1>4
<1>7. \A r \in valid : key[r] = KafkaKey(r)
  OBVIOUS
<1>8. ASSUME NEW r \in valid
      PROVE  \E q \in w : key[q] = key[r]
  <2>1. r \in B /\ r \in BronzeRow /\ r.good
    BY SoundRows DEF Filtered
  <2>2. PICK a \in A : Columns(r) = Columns(a)
    BY <2>1 DEF Within
  <2>3. a \in Filtered(A) /\ KafkaKey(a) = KafkaKey(r)
    BY <2>1, <2>2, SoundRows, SameColumns DEF Filtered, KafkaKey
  <2>4. PICK q \in v : KafkaKey(q) = KafkaKey(a)
    BY <2>3, <1>1
  <2>5. pick(q) \in w /\ pick(q) \in valid /\ KafkaKey(pick(q)) = KafkaKey(r)
    BY <2>3, <2>4, <1>4
  <2> QED BY <2>5, <1>7
<1>9. ASSUME NEW x \in w, NEW y \in w, key[x] = key[y]
      PROVE  x = y
  <2>1. PICK p \in v, q \in v : x = pick(p) /\ y = pick(q)
    OBVIOUS
  <2>2. KafkaKey(x) = KafkaKey(y)
    BY <1>6, <1>7, <1>9
  <2>3. p = q
    BY <2>1, <2>2, <1>1, <1>4
  <2> QED BY <2>1, <2>3
<1>10. ASSUME NEW q \in valid, NEW r \in valid, key[q] = key[r]
       PROVE  <<q, r>> \notin FirstOffset(valid)
  <2>1. q.offset = r.offset /\ r.offset \in Nat
    BY <1>7, <1>10, SoundRows DEF KafkaKey
  <2> QED BY <2>1 DEF FirstOffset
<1> HIDE DEF w, key
<1>11. w \in RowNumberOne(valid, key, FirstOffset(valid))
  BY <1>6, <1>8, <1>9, <1>10 DEF RowNumberOne
<1>12. w \in StgDepth(B)
  BY <1>11 DEF StgDepth, ByKafka, key
<1> QED BY <1>5, <1>12

\* What can be read from one of two tables can be read from the other.
LEMMA CopiesRead ==
    ASSUME kind \in {"trades", "depth", "quotes"},
           NEW A, NEW B, Sound(A), Sound(B), Stamped(A \cup B), Within(A, B), Within(B, A)
    PROVE  \A v \in Views(A) : \E w \in Views(B) : Content(v) = Content(w)
<1> TAKE v \in Views(A)
<1>1. CASE kind = "depth"
  <2>1. v \in StgDepth(A) /\ Views(B) = StgDepth(B)
    BY <1>1 DEF Views
  <2>2. PICK w \in Views(B) : Within(v, w) /\ Within(w, v)
    BY <2>1, DepthCopies
  <2> QED BY <2>2, SameContent
<1>2. CASE kind # "depth"
  <2>1. PICK w \in Views(B) : TRUE
    <3>1. CASE kind = "trades"
      BY <3>1, TradesExist DEF Views
    <3>2. CASE kind = "quotes"
      BY <3>2, LatestExists DEF Views, StgRestQuotes, Latest
    <3> QED BY <1>2, <3>1, <3>2
  <2> QED BY <2>1, <1>2, ReadsAgree
<1> QED BY <1>1, <1>2

LEMMA CopiesStep ==
    ASSUME TypeOK, PipelineInv, TypeOK', PipelineInv', [Next]_vars,
           DOMAIN Content(bronze') = DOMAIN Content(bronze)
    PROVE  {Content(v) : v \in Views(bronze')} = {Content(v) : v \in Views(bronze)}
<1> DEFINE A == bronze'
           B == bronze
<1>1. /\ Sound(A) /\ Sound(B) /\ B \subseteq A
      /\ kind \in {"trades", "depth", "quotes"}
  BY SoundStep
<1>2. {Columns(q) : q \in A} = {Columns(q) : q \in B}
  BY DEF Content
<1> HIDE DEF A, B
<1>3. Within(A, B) /\ Within(B, A)
  BY <1>2 DEF Within
<1>4. Stamped(A \cup B) /\ Stamped(B \cup A)
  <2>1. A \cup B = A /\ B \cup A = A
    BY <1>1
  <2> QED BY <2>1, <1>1 DEF Sound
<1>5. \A v \in Views(A) : \E w \in Views(B) : Content(v) = Content(w)
  BY <1>1, <1>3, <1>4, CopiesRead
<1>6. \A v \in Views(B) : \E w \in Views(A) : Content(v) = Content(w)
  BY <1>1, <1>3, <1>4, CopiesRead
<1>7. {Content(v) : v \in Views(A)} = {Content(v) : v \in Views(B)}
  <2>1. ASSUME NEW c \in {Content(v) : v \in Views(A)}
        PROVE  c \in {Content(v) : v \in Views(B)}
    BY <1>5
  <2>2. ASSUME NEW c \in {Content(v) : v \in Views(B)}
        PROVE  c \in {Content(v) : v \in Views(A)}
    BY <1>6
  <2> QED BY <2>1, <2>2
<1> QED BY <1>7 DEF A, B

(***************************************************************************)
(* At-least-once delivery stays in bronze: a copy of a row that is there   *)
(* changes nothing a reader of a view can see, with any number of brokers  *)
(* (bronze_sink_job.py:39, stg_trades.sql:72-83).                          *)
(***************************************************************************)
THEOREM CopiesDoNotShow == Spec => CopiesAreInvisible
<1>1. TypeOK /\ PipelineInv /\ TypeOK' /\ PipelineInv' /\ [Next]_vars =>
      [DOMAIN Content(bronze') = DOMAIN Content(bronze) =>
         {Content(v) : v \in Views(bronze')} = {Content(v) : v \in Views(bronze)}]_vars
  BY CopiesStep
<1> QED BY <1>1, PipelineInvariant, PTL DEF Spec, CopiesAreInvisible

=============================================================================
