---------------------------- MODULE RangeTransfer ----------------------------
(* A download that is interrupted and resumed: a client asks for the rest of  *)
(* a representation with Range and If-Range, the origin answers through       *)
(* evaluateRange (range.ts), and the representation changes in between.       *)
(* The client and the writer are not part of the repository.                  *)
EXTENDS Ranges

CONSTANTS
    MaxVersion,  \* bound on the number of changes
    SizeOf,      \* the size of each version, in bytes
    TagOf,       \* the value of each version's entity tag
    MaxClock,    \* bound on the clock, in ticks
    ResumeBy,    \* validators If-Range may use: "tag" and "date"
    WeakTags     \* whether the origin's tags are weak

ASSUME TransferAssumption ==
    /\ MaxVersion \in Nat /\ MaxClock \in Nat
    /\ SizeOf \in [0..MaxVersion -> Nat]
    /\ DOMAIN TagOf = 0..MaxVersion
    /\ ResumeBy \subseteq {"tag", "date"}
    /\ WeakTags \in BOOLEAN

EntityTag == [weak : BOOLEAN, value : {TagOf[v] : v \in 0..MaxVersion}]
RequestedRange == [start : Int, end : Int \cup {Infinity}]
IfRange == [kind : {"tag"}, tag : EntityTag] \cup [kind : {"date"}, date : Nat]
Validators == [tag : EntityTag, date : Nat, size : Nat]

ASSUME AbsentAssumption == Null \notin RequestedRange /\ Null \notin IfRange

VARIABLES
    version,   \* the current representation: its bytes all carry its number
    modified,  \* the time of its last change
    clock,
    have,      \* the bytes the client has: the version each one came from
    known,     \* the validators the client was sent with the first of them
    request,   \* the request in flight, or Null
    phase      \* "idle", "waiting" or "complete"

vars == <<version, modified, clock, have, known, request, phase>>

Size == SizeOf[version]
Tag(v) == [weak |-> WeakTags, value |-> TagOf[v]]

Init ==
    /\ version = 0 /\ modified = 0 /\ clock = 0
    /\ have = <<>> /\ known = Null /\ request = Null /\ phase = "idle"

Tick ==
    /\ clock < MaxClock
    /\ clock' = clock + 1
    /\ UNCHANGED <<version, modified, have, known, request, phase>>

(* The representation changes; two versions never share a modification time. *)
Change ==
    /\ version < MaxVersion
    /\ clock > modified
    /\ version' = version + 1
    /\ modified' = clock
    /\ UNCHANGED <<clock, have, known, request, phase>>

Ask(asked) ==
    /\ phase = "idle"
    /\ request' = asked
    /\ phase' = "waiting"
    /\ UNCHANGED <<version, modified, clock, have, known>>

Start == have = <<>> /\ Ask([range |-> Null, ifRange |-> Null])

Resume(by) ==
    /\ have # <<>>
    /\ Ask([range |-> [start |-> Len(have), end |-> Infinity],
            ifRange |-> IF by = "tag" THEN [kind |-> "tag", tag |-> known.tag]
                        ELSE [kind |-> "date", date |-> known.date]])

(* The last bytes, asked for with a suffix, when the size was announced.     *)
ResumeBySuffix(by) ==
    /\ have # <<>>
    /\ Len(have) < known.size
    /\ Ask([range |-> [start |-> Len(have) - known.size, end |-> -1],
            ifRange |-> IF by = "tag" THEN [kind |-> "tag", tag |-> known.tag]
                        ELSE [kind |-> "date", date |-> known.date]])

Answer == EvaluateRange(request, Size, Tag(version), modified)

Bytes(count) == [k \in 1..count |-> version]

(* 200: the whole representation, of which the first `count` bytes arrive.   *)
ReceiveAll(count) ==
    /\ phase = "waiting"
    /\ Answer \in {"none", "ignored"}
    /\ count <= Size
    /\ have' = Bytes(count)
    /\ known' = [tag |-> Tag(version), date |-> WholeSecond(modified), size |-> Size]
    /\ phase' = IF count = Size THEN "complete" ELSE "idle"
    /\ request' = Null
    /\ UNCHANGED <<version, modified, clock>>

(* 206: the part that was asked for, appended to what the client has.  That  *)
(* it was the last one the client knows by the Content-Range.                *)
Part == ParseContentRange(FormatContentRange(Clamped(request.range, Size), Size))
ReceivePart(count) ==
    LET length == Part.range.end - Part.range.start + 1
    IN  /\ phase = "waiting"
        /\ Answer = "partial" /\ Part # Null
        /\ count <= length
        /\ have' = have \o Bytes(count)
        /\ phase' = IF count = length /\ Part.range.end + 1 = Part.size THEN "complete" ELSE "idle"
        /\ request' = Null
        /\ UNCHANGED <<version, modified, clock, known>>

MaxSize == CHOOSE n \in {SizeOf[v] : v \in 0..MaxVersion} :
              \A v \in 0..MaxVersion : SizeOf[v] <= n

Next ==
    \/ Tick \/ Change \/ Start
    \/ \E by \in ResumeBy : Resume(by) \/ ResumeBySuffix(by)
    \/ \E count \in 0..MaxSize : ReceiveAll(count) \/ ReceivePart(count)

Spec == Init /\ [][Next]_vars

TypeOK ==
    /\ version \in 0..MaxVersion /\ modified \in Nat /\ clock \in Nat
    /\ have \in Seq(0..MaxVersion)
    /\ known \in {Null} \cup Validators
    /\ request \in {Null} \cup [range : {Null} \cup RequestedRange,
                                ifRange : {Null} \cup IfRange]
    /\ phase \in {"idle", "waiting", "complete"}

-----------------------------------------------------------------------------
(* Properties.                                                               *)

(* A resumed download never joins bytes of different versions: the strong    *)
(* comparison of a tag, and for dates the comparison to the tick, although   *)
(* the date the client echoes was cut to whole seconds.  What the client     *)
(* takes for a complete file is one version from the first byte to the last, *)
(* also when the representation grew or shrank.                              *)
OneVersion == \A j, k \in DOMAIN have : have[j] = have[k]
CompleteFile ==
    /\ OneVersion
    /\ phase = "complete" =>
          \E v \in 0..version : have = [k \in 1..SizeOf[v] |-> v]
=============================================================================
