------------------------ MODULE RangeNormalizer_proofs ------------------------
(* normalizeRanges is correct for requests of any length, any positions and   *)
(* any size of the representation.                                            *)
EXTENDS RangeNormalizer, FiniteSetTheorems, TLAPS

(* A requested range, clamped, names the bytes it asked for.                  *)
LEMMA ClampExact ==
    ASSUME NEW range \in RequestedRange, size \in Nat, size > 0
    PROVE  /\ Satisfiable(range, size) =>
                /\ Clamped(range, size) \in ByteRange
                /\ Inside(Clamped(range, size))
                /\ \A b \in 0..(size - 1) :
                      Names(Clamped(range, size), b) <=> Asks(range, b)
           /\ ~Satisfiable(range, size) =>
                \A b \in 0..(size - 1) : ~Asks(range, b)
<1> USE NormalizerAssumption, RangesAssumption
<1>1. CASE range \in [start : (-MaxPosition)..(-1), end : {-1}]
  BY <1>1 DEF Satisfiable, Clamped, FirstByte, LastByte, IsSuffix, Asks, Names,
              ByteRange, Inside
<1>2. CASE range \in [start : 0..MaxPosition, end : {Infinity}]
  BY <1>2 DEF Satisfiable, Clamped, FirstByte, LastByte, IsSuffix, Asks, Names,
              ByteRange, Inside
<1>3. CASE range \in {r \in [start : 0..MaxPosition, end : 0..MaxPosition] :
                        r.start <= r.end}
  BY <1>3 DEF Satisfiable, Clamped, FirstByte, LastByte, IsSuffix, Asks, Names,
              ByteRange, Inside
<1>4. QED
  BY <1>1, <1>2, <1>3 DEF RequestedRange

LEMMA InitLoop == Init => LoopInvariant
<1> SUFFICES ASSUME Init PROVE LoopInvariant
  OBVIOUS
<1>1. requested \in Seq(RequestedRange)
  BY NormalizerAssumption DEF Init
<1>2. size \in Nat /\ size > 0
  BY NormalizerAssumption DEF Init
<1>3. normalized \in Seq(ByteRange) /\ merged \in Seq(ByteRange)
  BY DEF Init
<1>4. Covered(normalized) = {} /\ AskedSoFar = {}
  BY <1>1 DEF Init, Covered, AskedSoFar
<1>5. QED
  BY <1>1, <1>2, <1>3, <1>4 DEF Init, LoopInvariant, TypeOK

(* The clamping loop: what is collected names what was asked for so far.      *)
LEMMA ClampLoop ==
    ASSUME LoopInvariant, Clamp
    PROVE  LoopInvariant'
<1>1. /\ requested \in Seq(RequestedRange) /\ size \in Nat /\ size > 0
      /\ i \in 1..Len(requested) /\ normalized \in Seq(ByteRange)
      /\ pc = "clamp" /\ merged = <<>> /\ Covered(normalized) = AskedSoFar
      /\ \A k \in DOMAIN normalized : Inside(normalized[k])
  BY DEF LoopInvariant, TypeOK, Clamp
<1>2. requested[i] \in RequestedRange
  BY <1>1
<1>3. AskedSoFar' = {b \in 0..(size - 1) : b \in AskedSoFar \/ Asks(requested[i], b)}
  BY <1>1 DEF Clamp, AskedSoFar, Asks
<1>4. CASE Satisfiable(requested[i], size)
  <2> DEFINE range == Clamped(requested[i], size)
  <2>1. range \in ByteRange /\ Inside(range)
    BY <1>1, <1>2, <1>4, ClampExact
  <2>2. \A b \in 0..(size - 1) : Names(range, b) <=> Asks(requested[i], b)
    BY <1>1, <1>2, <1>4, ClampExact
  <2>3. normalized' = Append(normalized, range) /\ size' = size
    BY <1>4 DEF Clamp
  <2> HIDE DEF range
  <2>4. normalized' \in Seq(ByteRange)
    BY <1>1, <2>1, <2>3
  <2>5. (\A k \in DOMAIN normalized : Inside(normalized[k]))'
    <3>1. /\ DOMAIN normalized' = 1..(Len(normalized) + 1)
          /\ \A k \in 1..Len(normalized) : normalized'[k] = normalized[k]
          /\ normalized'[Len(normalized) + 1] = range
      BY <1>1, <2>1, <2>3
    <3>2. QED
      BY <3>1, <1>1, <2>1, <2>3 DEF Inside
  <2>6. Covered(normalized)' =
          {b \in 0..(size - 1) : b \in Covered(normalized) \/ Names(range, b)}
    <3>1. /\ DOMAIN normalized' = 1..(Len(normalized) + 1)
          /\ \A k \in 1..Len(normalized) : normalized'[k] = normalized[k]
          /\ normalized'[Len(normalized) + 1] = range
      BY <1>1, <2>1, <2>3
    <3>2. ASSUME NEW b \in 0..(size - 1)
          PROVE  (\E k \in DOMAIN normalized' : Names(normalized'[k], b))
                 <=> \/ \E k \in DOMAIN normalized : Names(normalized[k], b)
                     \/ Names(range, b)
      <4>1. DOMAIN normalized = 1..Len(normalized) /\ Len(normalized) \in Nat
        BY <1>1
      <4>2. QED
        BY <3>1, <4>1
    <3>3. QED
      BY <3>2, <2>3 DEF Covered
  <2>7. Covered(normalized)' = AskedSoFar'
    BY <1>1, <1>3, <2>2, <2>6 DEF Covered
  <2>8. QED
    BY <1>1, <2>4, <2>5, <2>7 DEF LoopInvariant, TypeOK, Clamp
<1>5. CASE ~Satisfiable(requested[i], size)
  <2>1. \A b \in 0..(size - 1) : ~Asks(requested[i], b)
    BY <1>1, <1>2, <1>5, ClampExact
  <2>2. normalized' = normalized /\ size' = size
    BY <1>5 DEF Clamp
  <2>3. Covered(normalized)' = AskedSoFar'
    BY <1>1, <1>3, <2>1, <2>2 DEF Covered, AskedSoFar
  <2>4. (\A k \in DOMAIN normalized : Inside(normalized[k]))'
    BY <1>1, <2>2 DEF Inside
  <2>5. QED
    BY <1>1, <2>2, <2>3, <2>4 DEF LoopInvariant, TypeOK, Clamp
<1>6. QED
  BY <1>4, <1>5

(* When the clamping loop is over everything asked for has been seen.         *)
LEMMA ClampedAll ==
    ASSUME LoopInvariant, pc = "clamp", i > Len(requested)
    PROVE  Covered(normalized) = Asked
<1>1. /\ requested \in Seq(RequestedRange) /\ i = Len(requested) + 1
      /\ Covered(normalized) = AskedSoFar
  BY DEF LoopInvariant, TypeOK
<1>2. AskedSoFar = Asked
  BY <1>1 DEF AskedSoFar, Asked
<1>3. QED
  BY <1>1, <1>2

LEMMA NothingLeftLoop ==
    ASSUME LoopInvariant, NothingLeft
    PROVE  LoopInvariant'
<1>1. Covered(normalized) = Asked /\ merged = normalized
  BY ClampedAll DEF NothingLeft, LoopInvariant
<1>2. Covered(merged)' = Asked'
  BY <1>1 DEF NothingLeft, Covered, Asked, Asks
<1>3. merged = <<>>
  BY <1>1 DEF NothingLeft
<1>4. QED
  BY <1>2, <1>3 DEF LoopInvariant, TypeOK, NothingLeft, Inside, Apart

LEMMA FinishLoop ==
    ASSUME LoopInvariant, Finish
    PROVE  LoopInvariant'
<1>1. /\ pc = "merge" /\ normalized \in Seq(ByteRange)
      /\ i = Len(normalized) + 1 /\ Covered(normalized) = Asked
      /\ Covered(merged) = CoveredSoFar
  BY DEF LoopInvariant, TypeOK, Finish
<1>2. CoveredSoFar = Covered(normalized)
  BY <1>1 DEF CoveredSoFar, Covered
<1>3. Covered(merged)' = Asked'
  BY <1>1, <1>2 DEF Finish, Covered, Asked, Asks
<1>4. QED
  BY <1>1, <1>3 DEF LoopInvariant, TypeOK, Finish, Inside, Apart

(* A strictly ascending renumbering of a finite sequence misses no index: the *)
(* sort is a permutation, so it keeps the bytes that are named.               *)
LEMMA SortKeepsCoverage ==
    ASSUME NEW ranges \in Seq(ByteRange), NEW order \in [DOMAIN ranges -> DOMAIN ranges],
           IsSortingOf(order, ranges)
    PROVE  \A k \in DOMAIN ranges : \E j \in DOMAIN ranges : order[j] = k
<1>1. /\ DOMAIN ranges = 1..Len(ranges) /\ Len(ranges) \in Nat
      /\ \A k \in DOMAIN ranges : ranges[k] \in ByteRange
  OBVIOUS
<1>2. IsFiniteSet(DOMAIN ranges)
  BY <1>1, FS_Interval
<1>3. \A j, k \in DOMAIN ranges : j < k => order[j] # order[k]
  <2> SUFFICES ASSUME NEW j \in DOMAIN ranges, NEW k \in DOMAIN ranges, j < k
               PROVE  order[j] # order[k]
    OBVIOUS
  <2>1. order[j] \in DOMAIN ranges /\ order[k] \in DOMAIN ranges
    OBVIOUS
  <2>2. ranges[order[j]].start \in Nat /\ order[j] \in Nat
    BY <2>1, <1>1 DEF ByteRange
  <2>3. QED
    BY <2>2 DEF IsSortingOf
<1>4. \A j, k \in DOMAIN ranges : order[j] = order[k] => j = k
  <2> SUFFICES ASSUME NEW j \in DOMAIN ranges, NEW k \in DOMAIN ranges,
                      order[j] = order[k], j # k
               PROVE  FALSE
    OBVIOUS
  <2>1. j < k \/ k < j
    BY <1>1
  <2>2. QED
    BY <2>1, <1>3
<1>5. order \in Injection(DOMAIN ranges, DOMAIN ranges)
  BY <1>4 DEF Injection, IsInjective
<1>6. order \in Surjection(DOMAIN ranges, DOMAIN ranges)
  BY <1>2, <1>5, FS_Injection
<1>7. QED
  BY <1>6 DEF Surjection

LEMMA SortLoop ==
    ASSUME LoopInvariant, Sort
    PROVE  LoopInvariant'
<1>1. /\ normalized \in Seq(ByteRange) /\ normalized # <<>> /\ size \in Nat
      /\ Covered(normalized) = Asked
      /\ \A k \in DOMAIN normalized : Inside(normalized[k])
      /\ requested \in Seq(RequestedRange) /\ size > 0
  BY ClampedAll DEF LoopInvariant, TypeOK, Sort
<1>2. PICK order \in [DOMAIN normalized -> DOMAIN normalized] :
         /\ IsSortingOf(order, normalized)
         /\ normalized' = [j \in 1..Len(normalized) |-> normalized[order[j]]]
  BY DEF Sort
<1>3. /\ DOMAIN normalized = 1..Len(normalized)
      /\ Len(normalized) \in Nat /\ Len(normalized) > 0
      /\ \A k \in DOMAIN normalized : normalized[k] \in ByteRange
  BY <1>1
<1>4. /\ normalized' \in Seq(ByteRange)
      /\ Len(normalized') = Len(normalized)
      /\ DOMAIN normalized' = DOMAIN normalized
      /\ \A k \in DOMAIN normalized : normalized'[k] = normalized[order[k]]
  BY <1>2, <1>3
<1>5. \A j, k \in DOMAIN normalized : j < k =>
         normalized'[j].start <= normalized'[k].start
  <2> SUFFICES ASSUME NEW j \in DOMAIN normalized, NEW k \in DOMAIN normalized, j < k
               PROVE  normalized[order[j]].start <= normalized[order[k]].start
    BY <1>4
  <2>1. normalized[order[j]].start \in Nat /\ normalized[order[k]].start \in Nat
    BY <1>3 DEF ByteRange
  <2>2. QED
    BY <2>1, <1>2 DEF IsSortingOf
<1>6. size' = size /\ requested' = requested /\ pc' = "merge" /\ i' = 2
      /\ merged' = <<normalized'[1]>>
  BY DEF Sort
<1>7. Covered(normalized)' = Covered(normalized)
  <2> SUFFICES ASSUME NEW b \in 0..(size - 1)
               PROVE  (\E k \in DOMAIN normalized : Names(normalized[order[k]], b))
                      <=> (\E k \in DOMAIN normalized : Names(normalized[k], b))
    BY <1>4, <1>6 DEF Covered
  <2>1. \A k \in DOMAIN normalized : \E j \in DOMAIN normalized : order[j] = k
    BY <1>1, <1>2, SortKeepsCoverage
  <2>2. QED
    BY <2>1, <1>2
<1>8. Covered(normalized)' = Asked'
  BY <1>1, <1>6, <1>7 DEF Asked, Asks
<1>9. (\A k \in DOMAIN normalized : Inside(normalized[k]))'
  BY <1>1, <1>2, <1>4, <1>6 DEF Inside
<1>10. /\ 1 \in DOMAIN normalized /\ normalized'[1] \in ByteRange
       /\ merged' \in Seq(ByteRange) /\ merged' # <<>> /\ Len(merged') = 1
       /\ DOMAIN merged' = {1} /\ merged'[1] = normalized'[1]
  BY <1>3, <1>4, <1>6
<1>11. /\ (\A k \in DOMAIN merged : Inside(merged[k]))'
       /\ Apart(merged)'
       /\ Covered(merged)' = CoveredSoFar'
  <2>1. (\A k \in DOMAIN merged : Inside(merged[k]))'
    BY <1>9, <1>10, <1>4 DEF Inside
  <2>2. \A k \in DOMAIN normalized' : k < 2 <=> k = 1
    BY <1>3, <1>4
  <2>3. Covered(merged)' = CoveredSoFar'
    BY <1>10, <1>6, <1>4, <2>2 DEF Covered, CoveredSoFar
  <2>4. QED
    BY <1>10, <2>1, <2>3 DEF Apart
<1>12. (\A k \in DOMAIN normalized :
           i <= k => Last(merged).start <= normalized[k].start)'
  <2> SUFFICES ASSUME NEW k \in DOMAIN normalized, 2 <= k
               PROVE  normalized'[1].start <= normalized'[k].start
    BY <1>4, <1>6, <1>10 DEF Last
  <2>1. QED
    BY <1>5, <1>10, <1>3
<1>13. i' \in 2..(Len(normalized') + 1)
  BY <1>3, <1>4, <1>6
<1>14. QED
  BY <1>1, <1>4, <1>5, <1>6, <1>8, <1>9, <1>10, <1>11, <1>12, <1>13
     DEF LoopInvariant, TypeOK

(* One step of the merging loop: the current range either grows the last one  *)
(* or starts a new one after a gap.                                           *)
LEMMA MergeLoop ==
    ASSUME LoopInvariant, Merge
    PROVE  LoopInvariant'
<1> DEFINE current == normalized[i]
           n == Len(merged)
<1>1. /\ pc = "merge" /\ pc' = "merge" /\ i' = i + 1
      /\ size' = size /\ requested' = requested /\ normalized' = normalized
  BY DEF Merge
<1>2. /\ normalized \in Seq(ByteRange) /\ merged \in Seq(ByteRange) /\ merged # <<>>
      /\ size \in Nat /\ size > 0 /\ requested \in Seq(RequestedRange)
      /\ i \in 2..Len(normalized) /\ Covered(normalized) = Asked
      /\ \A k \in DOMAIN normalized : Inside(normalized[k])
      /\ \A j, k \in DOMAIN normalized :
            j < k => normalized[j].start <= normalized[k].start
      /\ \A k \in DOMAIN merged : Inside(merged[k])
      /\ Apart(merged)
      /\ \A k \in DOMAIN normalized :
            i <= k => Last(merged).start <= normalized[k].start
      /\ Covered(merged) = CoveredSoFar
  BY <1>1 DEF LoopInvariant, TypeOK, Merge
<1>3. /\ i \in DOMAIN normalized /\ current \in ByteRange
      /\ current.start \in Nat /\ current.end \in Nat
      /\ current.start <= current.end /\ current.end < size
  <2>1. i \in DOMAIN normalized /\ current \in ByteRange
    BY <1>2
  <2>2. Inside(current)
    BY <1>2, <2>1
  <2>3. QED
    BY <2>1, <2>2 DEF ByteRange, Inside
<1>4. /\ n \in Nat /\ n > 0 /\ DOMAIN merged = 1..n /\ n \in DOMAIN merged
      /\ merged[n] \in ByteRange /\ merged[n].start \in Nat /\ merged[n].end \in Nat
      /\ merged[n].start <= merged[n].end /\ merged[n].end < size
      /\ merged[n].start <= current.start
      /\ \A k \in 1..n : merged[k] \in ByteRange
  <2>1. n \in Nat /\ n > 0 /\ DOMAIN merged = 1..n /\ n \in DOMAIN merged
    BY <1>2
  <2>2. merged[n] \in ByteRange /\ \A k \in 1..n : merged[k] \in ByteRange
    BY <1>2, <2>1
  <2>3. Inside(merged[n]) /\ merged[n].start <= current.start
    BY <1>2, <1>3, <2>1 DEF Last
  <2>4. QED
    BY <2>1, <2>2, <2>3 DEF Inside, ByteRange
<1>5. CoveredSoFar' =
        {b \in 0..(size - 1) : b \in CoveredSoFar \/ Names(current, b)}
  <2>1. \A k \in DOMAIN normalized : k < i + 1 <=> k < i \/ k = i
    BY <1>2
  <2>2. QED
    BY <1>1, <1>3, <2>1 DEF CoveredSoFar
<1>6. Covered(normalized)' = Asked' /\ (\A k \in DOMAIN normalized : Inside(normalized[k]))'
  BY <1>1, <1>2 DEF Covered, Asked, Asks, Inside
<1> HIDE DEF current, n
<1>7. ASSUME Extend(current)
      PROVE  /\ merged' \in Seq(ByteRange) /\ merged' # <<>>
             /\ (\A k \in DOMAIN merged : Inside(merged[k]))'
             /\ Apart(merged)'
             /\ Covered(merged)' =
                  {b \in 0..(size - 1) : b \in Covered(merged) \/ Names(current, b)}
             /\ Last(merged)'.start <= current.start
  <2> DEFINE end == IF current.end > merged[n].end THEN current.end ELSE merged[n].end
             grown == [start |-> merged[n].start, end |-> end]
  <2>1. current.start <= merged[n].end + 1
    BY <1>7 DEF Extend, Last, n
  <2>2. merged' = [merged EXCEPT ![n] = grown]
    <3>1. merged' = [merged EXCEPT ![n] = [merged[n] EXCEPT !.end = end]]
      BY <1>7 DEF Extend, n
    <3>2. [merged[n] EXCEPT !.end = end] = grown
      BY <1>4 DEF ByteRange
    <3>3. QED
      BY <3>1, <3>2
  <2>3. end \in Nat /\ end < size /\ merged[n].start <= end /\ merged[n].end <= end
        /\ grown \in ByteRange
    BY <1>3, <1>4 DEF ByteRange
  <2>4. \A b \in Nat : Names(grown, b) <=> Names(merged[n], b) \/ Names(current, b)
    BY <1>3, <1>4, <2>1, <2>3 DEF Names
  <2>5. grown.start = merged[n].start /\ grown.end = end
    OBVIOUS
  <2> HIDE DEF grown, end
  <2>6. /\ merged' \in Seq(ByteRange) /\ Len(merged') = n /\ DOMAIN merged' = 1..n
        /\ merged'[n] = grown
        /\ \A k \in 1..n : k # n => merged'[k] = merged[k]
    <3>1. merged' = [k \in 1..n |-> IF k = n THEN grown ELSE merged[k]]
      BY <1>4, <2>2
    <3>2. merged' \in [1..n -> ByteRange]
      BY <3>1, <1>4, <2>3
    <3>3. merged' \in Seq(ByteRange) /\ Len(merged') = n
      BY <3>1, <3>2, <1>4
    <3>4. QED
      BY <3>1, <3>3, <1>4
  <2>7. (\A k \in DOMAIN merged : Inside(merged[k]))'
    BY <1>1, <1>2, <1>4, <2>3, <2>5, <2>6 DEF Inside
  <2>8. Apart(merged)'
    <3> SUFFICES ASSUME NEW j \in 1..n, NEW k \in 1..n, j < k
                 PROVE  merged'[j].end + 1 < merged'[k].start
      BY <2>6 DEF Apart
    <3>1. j # n /\ merged'[j] = merged[j]
      BY <1>4, <2>6
    <3>2. merged'[k].start = merged[k].start
      BY <2>5, <2>6
    <3>3. QED
      BY <1>2, <1>4, <3>1, <3>2 DEF Apart
  <2>9. ASSUME NEW b \in 0..(size - 1)
        PROVE  (\E k \in 1..n : Names(merged'[k], b))
               <=> (\E k \in 1..n : Names(merged[k], b)) \/ Names(current, b)
    <3>1. Names(merged'[n], b) <=> Names(merged[n], b) \/ Names(current, b)
      BY <2>4, <2>6, <1>2
    <3>2. \A k \in 1..n : k # n => (Names(merged'[k], b) <=> Names(merged[k], b))
      BY <2>6
    <3>3. n \in 1..n
      BY <1>4
    <3>4. QED
      BY <3>1, <3>2, <3>3
  <2>10. Covered(merged)' =
           {b \in 0..(size - 1) : b \in Covered(merged) \/ Names(current, b)}
    BY <1>1, <1>4, <2>6, <2>9 DEF Covered
  <2>11. Last(merged)'.start <= current.start
    BY <1>4, <2>5, <2>6 DEF Last
  <2>12. QED
    BY <1>4, <2>6, <2>7, <2>8, <2>10, <2>11
<1>8. ASSUME Push(current)
      PROVE  /\ merged' \in Seq(ByteRange) /\ merged' # <<>>
             /\ (\A k \in DOMAIN merged : Inside(merged[k]))'
             /\ Apart(merged)'
             /\ Covered(merged)' =
                  {b \in 0..(size - 1) : b \in Covered(merged) \/ Names(current, b)}
             /\ Last(merged)'.start <= current.start
  <2>1. merged[n].end + 1 < current.start /\ merged' = Append(merged, current)
    BY <1>3, <1>4, <1>8 DEF Push, Last, n
  <2>2. /\ merged' \in Seq(ByteRange) /\ Len(merged') = n + 1
        /\ DOMAIN merged' = 1..(n + 1)
        /\ merged'[n + 1] = current
        /\ \A k \in 1..n : merged'[k] = merged[k]
    BY <1>2, <1>3, <1>4, <2>1 DEF n
  <2>3. (\A k \in DOMAIN merged : Inside(merged[k]))'
    BY <1>1, <1>2, <1>3, <1>4, <2>2 DEF Inside
  <2>4. Apart(merged)'
    <3> SUFFICES ASSUME NEW j \in 1..(n + 1), NEW k \in 1..(n + 1), j < k
                 PROVE  merged'[j].end + 1 < merged'[k].start
      BY <2>2 DEF Apart
    <3>1. j \in 1..n /\ merged'[j] = merged[j]
          /\ merged[j].start \in Nat /\ merged[j].end \in Nat
      BY <1>4, <2>2 DEF ByteRange
    <3>2. CASE k \in 1..n
      BY <1>2, <1>4, <2>2, <3>1, <3>2 DEF Apart
    <3>3. CASE k = n + 1
      <4>1. merged[j].end <= merged[n].end
        <5>1. CASE j = n
          BY <5>1, <1>4
        <5>2. CASE j < n
          <6>1. merged[j].end + 1 < merged[n].start
            BY <5>2, <1>2, <1>4, <3>1 DEF Apart
          <6>2. QED
            BY <6>1, <1>4, <3>1
        <5>3. QED
          BY <5>1, <5>2, <3>1, <1>4
      <4>2. QED
        BY <4>1, <1>3, <1>4, <2>1, <2>2, <3>1, <3>3
    <3>4. QED
      BY <3>2, <3>3, <1>4
  <2>5. ASSUME NEW b \in 0..(size - 1)
        PROVE  (\E k \in 1..(n + 1) : Names(merged'[k], b))
               <=> (\E k \in 1..n : Names(merged[k], b)) \/ Names(current, b)
    BY <1>4, <2>2
  <2>6. Covered(merged)' =
          {b \in 0..(size - 1) : b \in Covered(merged) \/ Names(current, b)}
    BY <1>1, <1>4, <2>2, <2>5 DEF Covered
  <2>7. Last(merged)'.start <= current.start
    BY <1>3, <2>2 DEF Last
  <2>8. QED
    BY <1>4, <2>2, <2>3, <2>4, <2>6, <2>7
<1>9. /\ merged' \in Seq(ByteRange) /\ merged' # <<>>
      /\ (\A k \in DOMAIN merged : Inside(merged[k]))'
      /\ Apart(merged)'
      /\ Covered(merged)' = CoveredSoFar'
      /\ Last(merged)'.start <= current.start
  BY <1>2, <1>5, <1>7, <1>8 DEF Merge, current
<1>10. (\A k \in DOMAIN normalized :
           i <= k => Last(merged).start <= normalized[k].start)'
  <2> SUFFICES ASSUME NEW k \in DOMAIN normalized, i + 1 <= k
               PROVE  Last(merged)'.start <= normalized[k].start
    BY <1>1
  <2>1. current.start <= normalized[k].start
    BY <1>2, <1>3 DEF current
  <2>2. normalized[k] \in ByteRange /\ Last(merged)' \in ByteRange
    BY <1>2, <1>9 DEF Last
  <2>3. QED
    BY <2>1, <2>2, <1>3, <1>9 DEF ByteRange
<1>11. i' \in 2..(Len(normalized') + 1)
  BY <1>1, <1>2
<1>12. QED
  BY <1>1, <1>2, <1>6, <1>9, <1>10, <1>11 DEF LoopInvariant, TypeOK

LEMMA NextLoop == LoopInvariant /\ [Next]_vars => LoopInvariant'
<1> SUFFICES ASSUME LoopInvariant, [Next]_vars PROVE LoopInvariant'
  OBVIOUS
<1>1. CASE UNCHANGED vars
  BY <1>1 DEF LoopInvariant, TypeOK, vars, Covered, AskedSoFar, CoveredSoFar, Asked,
              Asks, Inside, Apart, Last
<1>2. QED
  BY <1>1, ClampLoop, NothingLeftLoop, SortLoop, MergeLoop, FinishLoop DEF Next

(* For every request and every size the loop answers exactly the bytes that   *)
(* were asked for.                                                            *)
THEOREM CoverageIsExact == Spec => []ExactCoverage
<1>1. LoopInvariant => ExactCoverage
  BY DEF LoopInvariant, ExactCoverage
<1>2. QED
  BY <1>1, InitLoop, NextLoop, PTL DEF Spec

(* For every request the parts are ascending, inside the representation and   *)
(* apart.                                                                     *)
THEOREM PartsAreSeparated == Spec => []Separated
<1>1. LoopInvariant => Separated
  BY DEF LoopInvariant, Separated
<1>2. QED
  BY <1>1, InitLoop, NextLoop, PTL DEF Spec

=============================================================================
