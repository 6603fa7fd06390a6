------------------------------- MODULE Ranges -------------------------------
(* Byte ranges of range.ts.  A requested range is what parseRange returns:   *)
(* start = -n and end = -1 for a suffix of n bytes, end = Infinity for an    *)
(* open range.  The text of the header is parsed elsewhere.                  *)
EXTENDS Conditional, Integers, Sequences

CONSTANT Infinity
ASSUME RangesAssumption == Infinity \notin Int

IsSuffix(range) == range.start < 0 /\ range.end = -1

FirstByte(range, size) ==
    IF ~IsSuffix(range) THEN range.start
    ELSE IF size + range.start > 0 THEN size + range.start ELSE 0

LastByte(range, size) ==
    IF IsSuffix(range) \/ range.end = Infinity \/ range.end >= size
    THEN size - 1 ELSE range.end

Satisfiable(range, size) ==
    /\ FirstByte(range, size) >= 0
    /\ FirstByte(range, size) < size
    /\ LastByte(range, size) >= FirstByte(range, size)

Clamped(range, size) ==
    [start |-> FirstByte(range, size), end |-> LastByte(range, size)]

(* Mutant: dates compared in whole seconds, as conditional.ts does.          *)
IfRangeBySecond(ifRange, tag, modified) ==
    IF ifRange.kind = "tag"
    THEN tag # Null /\ CompareETags(ifRange.tag, tag, TRUE)
    ELSE modified # Null /\ WholeSecond(modified) <= ifRange.date
(* ifRangeMatches: a tag is compared strongly, a date to the tick and not to *)
(* the whole second.  The header is a tag or a date.                         *)
IfRangeMatches(ifRange, tag, modified) ==
    IF ifRange.kind = "tag"
    THEN tag # Null /\ CompareETags(ifRange.tag, tag, TRUE)
    ELSE modified # Null /\ modified <= ifRange.date

(* evaluateRange for a GET whose Range header parses to one range: whether   *)
(* the origin answers with all of the representation or a part of it.        *)
EvaluateRange(request, size, tag, modified) ==
    IF request.range = Null THEN "none"
    ELSE IF request.ifRange # Null /\ ~IfRangeMatches(request.ifRange, tag, modified)
    THEN "ignored"
    ELSE IF size <= 0 \/ ~Satisfiable(request.range, size) THEN "unsatisfiable"
    ELSE "partial"

(* A Content-Range: the part and the complete length, each Null where the    *)
(* field has "*".  Its numbers are digits, so none of them is negative.      *)
FormatContentRange(range, size) == [unit |-> "bytes", range |-> range, size |-> size]

ParseContentRange(field) ==
    CASE field.unit # "bytes" -> Null
      [] field.size # Null /\ field.size < 0 -> Null
      [] field.range = Null -> IF field.size = Null THEN Null ELSE [range |-> Null, size |-> field.size]
      [] field.range.start < 0 \/ field.range.end < field.range.start -> Null
      [] field.size # Null /\ field.range.end >= field.size -> Null
      [] OTHER -> [range |-> field.range, size |-> field.size]
=============================================================================
