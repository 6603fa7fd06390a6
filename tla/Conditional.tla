---------------------------- MODULE Conditional ----------------------------
(* Entity tags (etag.ts) and the evaluation of request preconditions        *)
(* (conditional.ts).  A header is already split into its members.           *)
(*                                                                          *)
(* An entity tag is [weak, value].  An If-Match or If-None-Match header is  *)
(* [kind |-> "absent"], [kind |-> "any"] ("*") or [kind |-> "tags"] with    *)
(* the SET of its tags: the code only asks whether some tag matches.  A     *)
(* header that does not parse is the empty list, kind "tags" with {}.       *)
(* A date header is Null (absent), BadDate (present, not an HTTP-date) or a *)
(* time in clock ticks.                                                     *)
EXTENDS Naturals

CONSTANTS
    Null,            \* no tag, no date, no representation
    BadDate,         \* a date header that parseHTTPDate rejects
    TicksPerSecond   \* clock ticks per second: 1000 in the code

ASSUME ConditionalAssumption ==
    /\ TicksPerSecond \in Nat \ {0}
    /\ Null \notin Nat /\ BadDate \notin Nat /\ Null # BadDate

AbsentTags == [kind |-> "absent", tags |-> {}]
AnyTag == [kind |-> "any", tags |-> {}]
TagList(tags) == [kind |-> "tags", tags |-> tags]

CompareETags(a, b, strong) ==
    a.value = b.value /\ (strong => ~a.weak /\ ~b.weak)

WholeSecond(date) == (date \div TicksPerSecond) * TicksPerSecond

IsSafeMethod(method) == method \in {"GET", "HEAD"}

(* Mutants: If-Match satisfied by an absent resource, or by any tag at all.  *)
AbsentPassesIfMatch(header, current) ==
    \/ current = Null
    \/ header.kind = "any"
    \/ \E tag \in header.tags : CompareETags(tag, current, TRUE)
AnyTagPassesIfMatch(header, current) ==
    current # Null /\ (header.kind = "any" \/ header.tags # {})

EvaluateIfMatch(header, current) ==
    /\ current # Null
    /\ \/ header.kind = "any"
       \/ \E tag \in header.tags : CompareETags(tag, current, TRUE)

(* Mutant: the wildcard is read as a list without members. *)
IgnoreAnyIfNoneMatch(header, current) ==
    /\ current # Null
    /\ \E tag \in header.tags : CompareETags(tag, current, FALSE)

EvaluateIfNoneMatch(header, current) ==
    /\ current # Null
    /\ \/ header.kind = "any"
       \/ \E tag \in header.tags : CompareETags(tag, current, FALSE)

EvaluateIfModifiedSince(header, modified) ==
    /\ modified # Null
    /\ header # BadDate
    /\ WholeSecond(modified) <= WholeSecond(header)

(* Mutant: a change in the second after the date still passes. *)
LateIfUnmodifiedSince(header, modified) ==
    \/ header = BadDate
    \/ modified = Null
    \/ WholeSecond(modified) <= WholeSecond(header) + TicksPerSecond

EvaluateIfUnmodifiedSince(header, modified) ==
    \/ header = BadDate
    \/ modified = Null
    \/ WholeSecond(modified) <= WholeSecond(header)

----------------------------------------------------------------------------
(* The precedence of RFC 9110 13.2.2, one operator per step of the code.    *)

FailsIfMatch(req, tag) ==
    req.ifMatch.kind # "absent" /\ ~EvaluateIfMatch(req.ifMatch, tag)

FailsIfUnmodifiedSince(req, modified) ==
    /\ req.ifMatch.kind = "absent"
    /\ req.ifUnmodifiedSince # Null
    /\ ~EvaluateIfUnmodifiedSince(req.ifUnmodifiedSince, modified)

HitsIfNoneMatch(req, tag) ==
    req.ifNoneMatch.kind # "absent" /\ EvaluateIfNoneMatch(req.ifNoneMatch, tag)

(* Mutant: If-Modified-Since is read although If-None-Match is present. *)
AlwaysHitsIfModifiedSince(req, modified) ==
    /\ req.ifModifiedSince # Null
    /\ IsSafeMethod(req.method)
    /\ EvaluateIfModifiedSince(req.ifModifiedSince, modified)

HitsIfModifiedSince(req, modified) ==
    /\ req.ifNoneMatch.kind = "absent"
    /\ req.ifModifiedSince # Null
    /\ IsSafeMethod(req.method)
    /\ EvaluateIfModifiedSince(req.ifModifiedSince, modified)

EvaluatePreconditions(req, tag, modified) ==
    IF FailsIfMatch(req, tag) \/ FailsIfUnmodifiedSince(req, modified)
    THEN "412"
    ELSE IF HitsIfNoneMatch(req, tag)
    THEN IF IsSafeMethod(req.method) THEN "304" ELSE "412"
    ELSE IF HitsIfModifiedSince(req, modified) THEN "304" ELSE "proceed"

(* Mutant: the date is left out. *)
HeadersWithoutDate(tag, modified) == [tag |-> tag, date |-> Null]
(* What a 304 or 412 tells the client: the current validators, the date in  *)
(* the whole seconds of an HTTP-date.                                       *)
BuildConditionalHeaders(tag, modified) ==
    [tag |-> tag,
     date |-> IF modified = Null THEN Null ELSE WholeSecond(modified)]
=============================================================================
