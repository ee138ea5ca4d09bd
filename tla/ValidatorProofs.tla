--------------------------- MODULE ValidatorProofs ---------------------------
(***************************************************************************)
(* The offset validator, for any finite set of splits, any part of it that *)
(* is listed and any number of records and copies.                         *)
(***************************************************************************)
EXTENDS Validator, SetInduction

-----------------------------------------------------------------------------
(***************************************************************************)
(* Sums and sets of records                                                *)
(***************************************************************************)

\* The records below the offsets end, of the splits in A.
Below(end, A) == {r \in A \X Nat : r[2] < end[r[1]]}

LEMMA BelowOne ==
    ASSUME NEW A, IsFiniteSet(A), NEW end, \A s \in A : end[s] \in Nat, NEW x \in A,
           IsFiniteSet(Below(end, A \ {x}))
    PROVE  /\ IsFiniteSet(Below(end, A))
           /\ Cardinality(Below(end, A)) = end[x] + Cardinality(Below(end, A \ {x}))
<1> DEFINE B == Below(end, A \ {x})
           own == {x} \X (0 .. end[x] - 1)
<1>1. end[x] \in Nat /\ 0 \in Int /\ end[x] - 1 \in Int
  OBVIOUS
<1>2. IsFiniteSet(0 .. end[x] - 1) /\ Cardinality(0 .. end[x] - 1) = end[x]
  <2>1. /\ IsFiniteSet(0 .. end[x] - 1)
        /\ Cardinality(0 .. end[x] - 1) = IF 0 > end[x] - 1 THEN 0 ELSE (end[x] - 1) - 0 + 1
    BY <1>1, FS_Interval
  <2> QED BY <2>1, <1>1
<1>3. IsFiniteSet({x}) /\ Cardinality({x}) = 1
  BY FS_Singleton
<1>4. IsFiniteSet(own) /\ Cardinality(own) = end[x]
  <2>1. IsFiniteSet(own) /\ Cardinality(own) = Cardinality({x}) * Cardinality(0 .. end[x] - 1)
    BY <1>2, <1>3, FS_Product
  <2> QED BY <2>1, <1>1, <1>2, <1>3
<1>5. Below(end, A) = B \cup own
  BY <1>1 DEF Below
<1>6. B \cap own = {}
  BY DEF Below
<1> HIDE DEF B, own
<1>7. IsFiniteSet(B)
  BY DEF B
<1>8. /\ IsFiniteSet(B \cup own)
      /\ Cardinality(B \cup own) = Cardinality(B) + Cardinality(own) - Cardinality(B \cap own)
  BY <1>4, <1>7, FS_Union
<1>9. Cardinality(B \cap own) = 0 /\ Cardinality(B) \in Nat
  BY <1>6, <1>7, FS_EmptySet, FS_CardinalityType
<1> QED BY <1>1, <1>4, <1>5, <1>8, <1>9 DEF B

LEMMA BelowFinite ==
    ASSUME NEW S, IsFiniteSet(S), NEW end, \A s \in S : end[s] \in Nat
    PROVE  \A A \in SUBSET S : IsFiniteSet(A) /\ IsFiniteSet(Below(end, A))
<1> DEFINE F == {A \in SUBSET S : IsFiniteSet(Below(end, A))}
<1>1. \A A \in SUBSET S : IsFiniteSet(A)
  BY FS_Subset
<1>2. {} \in F
  <2>1. Below(end, {}) = {}
    BY DEF Below
  <2> QED BY <2>1, FS_EmptySet
<1>3. \A A \in SUBSET S : A # {} /\ (\A x \in A : A \ {x} \in F) => A \in F
  <2> SUFFICES ASSUME NEW A \in SUBSET S, NEW x \in A, A \ {x} \in F
               PROVE  A \in F
    OBVIOUS
  <2>1. IsFiniteSet(Below(end, A \ {x}))
    OBVIOUS
  <2>2. IsFiniteSet(Below(end, A))
    BY <2>1, <1>1, BelowOne
  <2> QED BY <2>2
<1> HIDE DEF F
<1>4. \A A \in SUBSET S : A \in F
  BY <1>2, <1>3, FiniteSetInduction
<1> QED BY <1>1, <1>4 DEF F

\* The sum of end offsets is the number of records below them.
LEMMA SumIsCount ==
    ASSUME NEW S, IsFiniteSet(S), NEW end, \A s \in S : end[s] \in Nat
    PROVE  MapThenSumSet(LAMBDA s : end[s], S) = Cardinality(Below(end, S))
<1> DEFINE pick(A) == CHOOSE x \in A : TRUE
           Sums(f) == f = [A \in SUBSET S |->
                             IF A = {} THEN 0 ELSE end[pick(A)] + f[A \ {pick(A)}]]
           g == [A \in SUBSET S |-> Cardinality(Below(end, A))]
           sum == CHOOSE f : Sums(f)
<1>1. \A A \in SUBSET S : A # {} => pick(A) \in A /\ A \ {pick(A)} \in SUBSET S
  OBVIOUS
<1> HIDE DEF pick
<1>2. g[{}] = 0
  <2>1. Below(end, {}) = {}
    BY DEF Below
  <2> QED BY <2>1, FS_EmptySet
<1>3. \A A \in SUBSET S : A # {} => g[A] = end[pick(A)] + g[A \ {pick(A)}]
  BY <1>1, BelowOne, BelowFinite
<1>4. Sums(g)
  BY <1>2, <1>3
<1> HIDE DEF g
<1>5. Sums(sum)
  <2> HIDE DEF Sums
  <2>1. \E f : Sums(f)
    BY <1>4
  <2> QED BY <2>1, Zenon
<1> HIDE DEF sum
<1>6. \A A \in SUBSET S : sum[A] = g[A]
  <2> DEFINE F == {A \in SUBSET S : sum[A] = g[A]}
  <2>1. {} \in F
    BY <1>2, <1>5
  <2>2. \A A \in SUBSET S : A # {} /\ (\A x \in A : A \ {x} \in F) => A \in F
    <3> SUFFICES ASSUME NEW A \in SUBSET S, A # {}, \A x \in A : A \ {x} \in F
                 PROVE  A \in F
      OBVIOUS
    <3>1. sum[A \ {pick(A)}] = g[A \ {pick(A)}]
      BY <1>1
    <3>2. sum[A] = end[pick(A)] + sum[A \ {pick(A)}]
      BY <1>1, <1>5
    <3>3. g[A] = end[pick(A)] + g[A \ {pick(A)}]
      BY <1>3
    <3> QED BY <3>1, <3>2, <3>3
  <2> HIDE DEF F
  <2>3. \A A \in SUBSET S : A \in F
    BY <2>1, <2>2, FiniteSetInduction
  <2> QED BY <2>3 DEF F
<1>7. MapThenSumSet(LAMBDA s : end[s], S) = sum[S]
  BY DEF MapThenSumSet, MapThenFoldSet, sum, Sums, pick
<1> QED BY <1>6, <1>7 DEF g

-----------------------------------------------------------------------------
(***************************************************************************)
(* The validator                                                           *)
(***************************************************************************)

LEMMA RowsFinite ==
    ASSUME NEW A \in SUBSET (Splits \X Offsets)
    PROVE  /\ IsFiniteSet(A)
           /\ Cardinality(A) \in 0 .. Cardinality(Splits) * MaxOffset
           /\ Cardinality(Splits) \in Nat
<1>1. IsFiniteSet(Splits) /\ Cardinality(Splits) \in Nat /\ MaxOffset \in Nat
  BY SplitsAssumption, FS_CardinalityType
<1>2. IsFiniteSet(Offsets) /\ Cardinality(Offsets) = MaxOffset
  <2>1. 0 \in Int /\ MaxOffset - 1 \in Int
    BY <1>1
  <2>2. /\ IsFiniteSet(0 .. MaxOffset - 1)
        /\ Cardinality(0 .. MaxOffset - 1) =
              IF 0 > MaxOffset - 1 THEN 0 ELSE (MaxOffset - 1) - 0 + 1
    BY <2>1, FS_Interval
  <2> QED BY <2>2, <1>1 DEF Offsets
<1>3. /\ IsFiniteSet(Splits \X Offsets)
      /\ Cardinality(Splits \X Offsets) = Cardinality(Splits) * MaxOffset
  BY <1>1, <1>2, FS_Product
<1>4. /\ IsFiniteSet(A) /\ Cardinality(A) <= Cardinality(Splits \X Offsets)
  BY <1>3, FS_Subset
<1>5. Cardinality(A) \in Nat /\ Cardinality(Splits \X Offsets) \in Nat
  BY <1>3, <1>4, FS_CardinalityType
<1> QED BY <1>1, <1>3, <1>4, <1>5

\* What the archive does between two of the validator's steps.
LEMMA ArchiveTypes ==
    ASSUME TypeOK, ArchiveNext
    PROVE  /\ log' \in [Splits -> 0 .. MaxOffset]
           /\ archived' \subseteq Splits \X Offsets
           /\ serving' \in BOOLEAN
<1>1. ASSUME NEW s \in Splits, Produced(s)
      PROVE  /\ log' \in [Splits -> 0 .. MaxOffset]
             /\ archived' \subseteq Splits \X Offsets
             /\ serving' \in BOOLEAN
  <2>1. log[s] + 1 \in 0 .. MaxOffset
    BY <1>1, SplitsAssumption DEF TypeOK, Produced
  <2> QED BY <1>1, <2>1 DEF TypeOK, Produced
<1>2. ASSUME NEW R \in SUBSET (Splits \X Offsets), Archive(R)
      PROVE  /\ log' \in [Splits -> 0 .. MaxOffset]
             /\ archived' \subseteq Splits \X Offsets
             /\ serving' \in BOOLEAN
  BY <1>2 DEF TypeOK, Archive
<1>3. ASSUME NEW b \in BOOLEAN, Serve(b)
      PROVE  /\ log' \in [Splits -> 0 .. MaxOffset]
             /\ archived' \subseteq Splits \X Offsets
             /\ serving' \in BOOLEAN
  BY <1>3 DEF TypeOK, Serve
<1> QED BY <1>1, <1>2, <1>3 DEF ArchiveNext

(***************************************************************************)
(* Types: whatever is archived meanwhile, the offsets read are those of    *)
(* listed splits, and the count is within what bronze can hold.            *)
(***************************************************************************)
THEOREM TypeCorrect == Spec => []TypeOK
<1> USE SplitsAssumption, CopiesAssumption
<1>1. Init => TypeOK
  <2> SUFFICES ASSUME Init PROVE TypeOK
    OBVIOUS
  <2>1. 0 \in 0 .. Cardinality(Splits) * MaxOffset + MaxCopies
    <3>1. Cardinality({}) \in 0 .. Cardinality(Splits) * MaxOffset
      BY RowsFinite
    <3>2. Cardinality(Splits) * MaxOffset \in Nat
      BY FS_CardinalityType
    <3> QED BY <3>2
  <2>2. summed \in UNION {[A -> 0 .. MaxOffset] : A \in SUBSET Listed}
    <3>1. summed \in [{} -> 0 .. MaxOffset]
      BY DEF Init
    <3> QED BY <3>1
  <2>3. log \in [Splits -> 0 .. MaxOffset] /\ archived = {}
    BY DEF Init, ArchiveInit
  <2>4. serving \in BOOLEAN
    BY DEF Init, ArchiveInit
  <2>5. copies \in 0 .. MaxCopies /\ step \in 1 .. 3 /\ rows = 0
    BY DEF Init
  <2> QED BY <2>1, <2>2, <2>3, <2>4, <2>5 DEF TypeOK
<1>2. TypeOK /\ [Next]_vars => TypeOK'
  <2> SUFFICES ASSUME TypeOK, [Next]_vars PROVE TypeOK'
    OBVIOUS
  <2>1. CASE ArchiveStep
    <3>1. /\ copies' = copies /\ step' = step /\ summed' = summed /\ rows' = rows
          /\ ArchiveNext
      BY <2>1 DEF ArchiveStep, validatorVars
    <3> QED BY <3>1, ArchiveTypes DEF TypeOK
  <2>2. CASE ArchiveAgain
    BY <2>2 DEF ArchiveAgain, archiveVars, validatorVars, TypeOK
  <2>3. ASSUME NEW assigned \in SUBSET Listed, SumEndOffsets(assigned)
        PROVE  TypeOK'
    <3>1. /\ step' \in 1 .. 3
          /\ summed' = [s \in assigned |-> log[s]]
          /\ copies' = copies /\ rows' = rows
          /\ log' = log /\ archived' = archived /\ serving' = serving
      BY <2>3 DEF SumEndOffsets, At, Order, archiveVars
    <3>2. summed' \in [assigned -> 0 .. MaxOffset]
      BY <3>1, ListedAssumption DEF TypeOK
    <3>3. summed' \in UNION {[A -> 0 .. MaxOffset] : A \in SUBSET Listed}
      BY <3>2
    <3> QED BY <3>1, <3>3 DEF TypeOK
  <2>4. CASE CountRows
    <3>1. /\ step' \in 1 .. 3
          /\ rows' = Cardinality(archived) + copies
          /\ copies' = copies /\ summed' = summed
          /\ log' = log /\ archived' = archived /\ serving' = serving
      BY <2>4 DEF CountRows, At, Order, archiveVars
    <3>2. /\ Cardinality(archived) \in 0 .. Cardinality(Splits) * MaxOffset
          /\ Cardinality(Splits) \in Nat
      BY RowsFinite DEF TypeOK
    <3>3. rows' \in 0 .. Cardinality(Splits) * MaxOffset + MaxCopies
      <4> DEFINE most == Cardinality(Splits) * MaxOffset
      <4>1. most \in Nat
        BY <3>2
      <4> HIDE DEF most
      <4>2. Cardinality(archived) \in 0 .. most
        BY <3>2 DEF most
      <4>3. rows' \in 0 .. most + MaxCopies
        BY <3>1, <4>1, <4>2 DEF TypeOK
      <4> QED BY <4>3 DEF most
    <3> QED BY <3>1, <3>3 DEF TypeOK
  <2>5. CASE UNCHANGED vars
    BY <2>5 DEF vars, archiveVars, validatorVars, TypeOK
  <2> QED BY <2>1, <2>2, <2>3, <2>4, <2>5 DEF Next
<1> QED BY <1>1, <1>2, PTL DEF Spec

\* The count that ends main, against the offsets read before it.
LEMMA LagStep ==
    ASSUME TypeOK, TypeOK', [Next]_vars, Done', ~Done
    PROVE  (-Delta)' <= Cardinality(Missing')
<1> USE SplitsAssumption, CopiesAssumption
<1>1. CountRows
  <2>1. CASE ArchiveStep \/ ArchiveAgain \/ UNCHANGED vars
    <3>1. step' = step
      BY <2>1 DEF ArchiveStep, ArchiveAgain, vars, validatorVars
    <3> QED BY <3>1 DEF Done
  <2>2. ASSUME NEW assigned \in SUBSET Listed, SumEndOffsets(assigned)
        PROVE  FALSE
    BY <2>2 DEF SumEndOffsets, At, Order, Done
  <2> QED BY <2>1, <2>2 DEF Next
<1>2. /\ rows' = Cardinality(archived') + copies' /\ copies' \in Nat
  BY <1>1 DEF CountRows, archiveVars, TypeOK
<1> DEFINE S == DOMAIN summed'
           R == Below(summed', S)
           total == MapThenSumSet(LAMBDA s : summed'[s], S)
<1>3. PICK A \in SUBSET Listed : summed' \in [A -> 0 .. MaxOffset]
  BY DEF TypeOK
<1>4. S = A /\ A \subseteq Splits
  BY <1>3, ListedAssumption
<1>5. IsFiniteSet(S) /\ \A s \in S : summed'[s] \in Nat /\ summed'[s] <= MaxOffset
  BY <1>3, <1>4, FS_Subset
<1>6. IsFiniteSet(R)
  BY <1>5, BelowFinite
<1>7. total = Cardinality(R)
  BY <1>5, SumIsCount
<1>8. Missing' = R \ archived'
  <2>1. \A r \in S \X Nat : r[2] < summed'[r[1]] => r[2] \in Offsets
    BY <1>5 DEF Offsets
  <2>2. \A r \in Splits \X Offsets : r[1] \in S => r \in S \X Nat
    BY DEF Offsets
  <2>3. \A r \in S \X Nat : r[1] \in Splits /\ r[1] \in S /\ r = <<r[1], r[2]>>
    BY <1>4
  <2>4. Missing' = {r \in Splits \X Offsets : r[1] \in S /\ r[2] < summed'[r[1]]
                                                /\ r \notin archived'}
    BY DEF Missing
  <2> HIDE DEF S
  <2> QED BY <2>1, <2>2, <2>3, <2>4 DEF Below
<1>9. IsFiniteSet(archived')
  BY RowsFinite DEF TypeOK
<1>10. Cardinality(R) - Cardinality(archived') <= Cardinality(Missing')
  <2>1. Cardinality(R \ archived') = Cardinality(R) - Cardinality(R \cap archived')
    BY <1>6, FS_Difference
  <2>2. /\ IsFiniteSet(R \cap archived')
        /\ Cardinality(R \cap archived') <= Cardinality(archived')
    BY <1>9, FS_Subset
  <2>3. /\ Cardinality(R) \in Nat /\ Cardinality(archived') \in Nat
        /\ Cardinality(R \cap archived') \in Nat
    BY <1>6, <1>9, <2>2, FS_CardinalityType
  <2> HIDE DEF R
  <2> QED BY <2>1, <2>2, <2>3, <1>8
<1>11. Delta' = rows' - total
  BY DEF Delta, MapThenSumSet, MapThenFoldSet
<1>12. Cardinality(R) \in Nat /\ Cardinality(archived') \in Nat
       /\ Cardinality(Missing') \in Nat
  <2>1. IsFiniteSet(Missing')
    BY <1>6, <1>8, FS_Difference
  <2> QED BY <2>1, <1>6, <1>9, FS_CardinalityType
<1>13. ASSUME NEW d, NEW n, NEW k, d = n - k, n = Cardinality(archived') + copies',
              k = Cardinality(R)
       PROVE  -d <= Cardinality(Missing')
  <2> HIDE DEF R
  <2> QED BY <1>2, <1>10, <1>12, <1>13
<1>14. -(Delta') <= Cardinality(Missing')
  <2> HIDE DEF R, total
  <2> QED BY <1>2, <1>7, <1>11, <1>13, Zenon
<1> QED BY <1>14

(***************************************************************************)
(* A lag that is reported is a lag, and at least as large as reported:     *)
(* whatever is produced, archived, duplicated or not assigned meanwhile    *)
(* (validate_bronze_offsets.py:45, 80, 113-120).                           *)
(***************************************************************************)
THEOREM LagsAreReal == Spec => ReportedLagIsReal
<1>1. TypeOK /\ TypeOK' /\ [Next]_vars =>
         [Done' /\ ~Done => (-Delta)' <= Cardinality(Missing')]_vars
  BY LagStep
<1> QED BY <1>1, TypeCorrect, PTL DEF Spec, ReportedLagIsReal

=============================================================================
