--------------------------- MODULE RangeNormalizer ---------------------------
(* normalizeRanges of range.ts: clamp the requested ranges, sort them by      *)
(* their first byte, merge overlapping and adjacent ones in one pass.         *)
EXTENDS Ranges

CONSTANTS
    MaxSize,      \* bound on the size of the representation
    MaxRanges,    \* bound on the number of ranges of a request
    MaxPosition   \* bound on a byte position named by a request

ASSUME NormalizerAssumption ==
    MaxSize \in Nat /\ MaxRanges \in Nat /\ MaxPosition \in Nat

VARIABLES
    requested,   \* the parsed ranges of the request
    size,        \* the size of the representation
    normalized,  \* clamped, then sorted
    merged,
    i,           \* the index of the running loop
    pc           \* "clamp", "merge" or "done"

vars == <<requested, size, normalized, merged, i, pc>>

(* What parseRange can return: 0 <= start <= end, an open or a suffix range. *)
RequestedRange ==
    {range \in [start : 0..MaxPosition, end : 0..MaxPosition] :
        range.start <= range.end}
    \cup [start : 0..MaxPosition, end : {Infinity}]
    \cup [start : (-MaxPosition)..(-1), end : {-1}]

ByteRange == [start : Nat, end : Nat]

Init ==
    /\ \E n \in 1..MaxRanges : requested \in [1..n -> RequestedRange]
    /\ size \in 1..MaxSize
    /\ normalized = <<>> /\ merged = <<>> /\ i = 1 /\ pc = "clamp"

Clamp ==
    /\ pc = "clamp"
    /\ i <= Len(requested)
    /\ \/ /\ Satisfiable(requested[i], size)
          /\ normalized' = Append(normalized, Clamped(requested[i], size))
       \/ /\ ~Satisfiable(requested[i], size)
          /\ normalized' = normalized
    /\ i' = i + 1
    /\ UNCHANGED <<requested, size, merged, pc>>

NothingLeft ==
    /\ pc = "clamp"
    /\ i > Len(requested)
    /\ normalized = <<>>
    /\ pc' = "done"
    /\ UNCHANGED <<requested, size, normalized, merged, i>>

(* Array.prototype.sort is stable. *)
IsSortingOf(order, ranges) ==
    \A j, k \in DOMAIN ranges : j < k =>
        \/ ranges[order[j]].start < ranges[order[k]].start
        \/ /\ ranges[order[j]].start = ranges[order[k]].start
           /\ order[j] < order[k]

(* Mutant: the ranges are merged in the order of the request. *)
SkipSort ==
    /\ pc = "clamp"
    /\ i > Len(requested)
    /\ normalized # <<>>
    /\ merged' = <<normalized[1]>>
    /\ i' = 2
    /\ pc' = "merge"
    /\ UNCHANGED <<requested, size, normalized>>
Sort ==
    /\ pc = "clamp"
    /\ i > Len(requested)
    /\ normalized # <<>>
    /\ \E order \in [DOMAIN normalized -> DOMAIN normalized] :
          /\ IsSortingOf(order, normalized)
          /\ normalized' = [j \in 1..Len(normalized) |-> normalized[order[j]]]
    /\ merged' = <<normalized'[1]>>
    /\ i' = 2
    /\ pc' = "merge"
    /\ UNCHANGED <<requested, size>>

Last(ranges) == ranges[Len(ranges)]

Extend(current) ==
    /\ current.start <= Last(merged).end + 1
    /\ merged' = [merged EXCEPT ![Len(merged)].end =
                      IF current.end > @ THEN current.end ELSE @]

(* Mutant: adjacent ranges are left apart too. *)
PushAdjacent(current) ==
    /\ current.start > Last(merged).end
    /\ merged' = Append(merged, current)
Push(current) ==
    /\ current.start > Last(merged).end + 1
    /\ merged' = Append(merged, current)

Merge ==
    /\ pc = "merge"
    /\ i <= Len(normalized)
    /\ Extend(normalized[i]) \/ Push(normalized[i])
    /\ i' = i + 1
    /\ UNCHANGED <<requested, size, normalized, pc>>

Finish ==
    /\ pc = "merge"
    /\ i > Len(normalized)
    /\ pc' = "done"
    /\ UNCHANGED <<requested, size, normalized, merged, i>>

Next == Clamp \/ NothingLeft \/ Sort \/ Merge \/ Finish

Spec == Init /\ [][Next]_vars

-----------------------------------------------------------------------------
(* Properties.                                                               *)

Names(range, b) == range.start <= b /\ b <= range.end
Covered(ranges) ==
    {b \in 0..(size - 1) : \E k \in DOMAIN ranges : Names(ranges[k], b)}

(* The bytes of the representation a request names, read off the meaning of  *)
(* a suffix, an open and a bounded range and not off the code's clamping.    *)
Asks(range, b) ==
    IF range.end = -1 THEN b >= size + range.start
    ELSE range.start <= b /\ (range.end = Infinity \/ b <= range.end)
Asked == {b \in 0..(size - 1) : \E k \in DOMAIN requested : Asks(requested[k], b)}

(* The loop's variables hold sequences of byte ranges and an index into them.*)
TypeOK ==
    /\ size \in Nat
    /\ normalized \in Seq(ByteRange)
    /\ merged \in Seq(ByteRange)
    /\ i \in Nat \ {0}
    /\ pc \in {"clamp", "merge", "done"}

Inside(range) == range.start <= range.end /\ range.end < size
Apart(ranges) ==
    \A j, k \in DOMAIN ranges : j < k => ranges[j].end + 1 < ranges[k].start

(* The answer is the bytes asked for, no more and no fewer, whatever order   *)
(* and overlap the request has: normalizeRanges loses and invents nothing.   *)
ExactCoverage == pc = "done" => Covered(merged) = Asked

(* The answer's ranges are ascending, inside the representation and at least *)
(* one byte apart: no byte is sent twice and no two parts could be one.      *)
Separated ==
    pc = "done" =>
        (\A k \in DOMAIN merged : Inside(merged[k])) /\ Apart(merged)

(* The loops' invariant, from which the three above follow.                  *)
AskedSoFar ==
    {b \in 0..(size - 1) :
        \E k \in DOMAIN requested : k < i /\ Asks(requested[k], b)}
CoveredSoFar ==
    {b \in 0..(size - 1) :
        \E k \in DOMAIN normalized : k < i /\ Names(normalized[k], b)}

LoopInvariant ==
    /\ TypeOK
    /\ requested \in Seq(RequestedRange)
    /\ size > 0
    /\ \A k \in DOMAIN normalized : Inside(normalized[k])
    /\ pc = "clamp" => /\ i <= Len(requested) + 1
                      /\ Covered(normalized) = AskedSoFar
                      /\ merged = <<>>
    /\ pc = "merge" =>
          /\ i \in 2..(Len(normalized) + 1)
          /\ Covered(normalized) = Asked
          /\ \A j, k \in DOMAIN normalized :
                j < k => normalized[j].start <= normalized[k].start
          /\ merged # <<>>
          /\ \A k \in DOMAIN merged : Inside(merged[k])
          /\ Apart(merged)
          /\ \A k \in DOMAIN normalized :
                i <= k => Last(merged).start <= normalized[k].start
          /\ Covered(merged) = CoveredSoFar
    /\ pc = "done" =>
          /\ Covered(merged) = Asked
          /\ \A k \in DOMAIN merged : Inside(merged[k])
          /\ Apart(merged)
=============================================================================
