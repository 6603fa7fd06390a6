------------------------ MODULE RangeTransfer_proofs ------------------------
(* A resumed download is one version of the file, for every number of        *)
(* versions, every size, and every resolution of the clock.  What the client *)
(* holds pins down one version and the time of the change that made it; an   *)
(* If-Range that the origin accepts can only be about that version.          *)
EXTENDS RangeTransfer, TLAPS

(* The validator of a strong tag says which version it is: no two versions   *)
(* have the same value, if the client may ask by it at all.                  *)
TagsTellVersionsApart ==
    "tag" \in ResumeBy /\ ~WeakTags =>
        \A v, w \in 0..MaxVersion : TagOf[v] = TagOf[w] => v = w

-----------------------------------------------------------------------------
(* The inductive invariant.                                                  *)

(* Version v was made at the time m, and a later change is later.            *)
MadeAt(v, m) ==
    /\ v = version => m = modified
    /\ v < version => m < modified

(* The client has a beginning of version v and its validators.               *)
Holds(v, m) ==
    /\ MadeAt(v, m)
    /\ have = [k \in 1..Len(have) |-> v]
    /\ Len(have) <= SizeOf[v]
    /\ known = [tag |-> Tag(v), date |-> WholeSecond(m), size |-> SizeOf[v]]
    /\ phase = "complete" => Len(have) = SizeOf[v]

HoldsOneVersion ==
    have # <<>> => \E v \in 0..version, m \in 0..modified : Holds(v, m)

(* A request carries the validators of what the client has, and asks for     *)
(* what comes next.                                                          *)
AsksForTheRest ==
    /\ request.range \in {[start |-> Len(have), end |-> Infinity],
                          [start |-> Len(have) - known.size, end |-> -1]}
    /\ request.range.start < 0 => Len(have) < known.size
    /\ \/ "tag" \in ResumeBy /\ request.ifRange = [kind |-> "tag", tag |-> known.tag]
       \/ request.ifRange = [kind |-> "date", date |-> known.date]

RequestFits ==
    phase = "waiting" =>
        IF have = <<>> THEN request = [range |-> Null, ifRange |-> Null]
        ELSE AsksForTheRest

(* A file of no bytes is complete as well.                                   *)
EmptyIsAVersion ==
    have = <<>> /\ phase = "complete" => \E v \in 0..version : SizeOf[v] = 0

IInv ==
    /\ TypeOK
    /\ modified <= clock
    /\ HoldsOneVersion
    /\ RequestFits
    /\ EmptyIsAVersion

-----------------------------------------------------------------------------
(* Lemmas about the operators.                                               *)

(* A date in whole seconds is never after the time it was made from.         *)
LEMMA WholeSecondIsEarlier ==
    ASSUME NEW m \in Nat
    PROVE  WholeSecond(m) \in Nat /\ WholeSecond(m) <= m
<1> DEFINE d == m \div TicksPerSecond
<1>1. TicksPerSecond \in Nat /\ TicksPerSecond > 0
  BY ConditionalAssumption
<1>2. d \in Nat /\ d * TicksPerSecond <= m
  BY <1>1
<1>3. d * TicksPerSecond \in Nat
  BY <1>1, <1>2
<1> QED BY <1>2, <1>3 DEF WholeSecond

(* A beginning of a version, continued by its next bytes, is a longer one.   *)
LEMMA BeginningGrows ==
    ASSUME NEW v, NEW m \in Nat, NEW n \in Nat
    PROVE  [k \in 1..m |-> v] \o [k \in 1..n |-> v] = [k \in 1..(m + n) |-> v]
OBVIOUS

(* What the client was sent are validators and a size.                       *)
LEMMA KnownTypes ==
    ASSUME TypeOK, NEW v \in 0..version, NEW m \in 0..modified, Holds(v, m)
    PROVE  known.tag \in EntityTag /\ known.date \in Nat /\ known.size \in Nat
<1>1. v \in 0..MaxVersion /\ m \in Nat
  BY TransferAssumption DEF TypeOK
<1>2. known = [tag |-> Tag(v), date |-> WholeSecond(m), size |-> SizeOf[v]]
  BY DEF Holds
<1>3. Tag(v) \in EntityTag /\ SizeOf[v] \in Nat
  BY <1>1, TransferAssumption DEF Tag, EntityTag
<1>4. WholeSecond(m) \in Nat
  BY <1>1, WholeSecondIsEarlier
<1> QED BY <1>2, <1>3, <1>4

(* An If-Range that matches is about the current version.                    *)
LEMMA MatchMeansSameVersion ==
    ASSUME TagsTellVersionsApart, TypeOK,
           NEW v \in 0..version, NEW m \in 0..modified, MadeAt(v, m),
           NEW ifRange,
           \/ "tag" \in ResumeBy /\ ifRange = [kind |-> "tag", tag |-> Tag(v)]
           \/ ifRange = [kind |-> "date", date |-> WholeSecond(m)],
           IfRangeMatches(ifRange, Tag(version), modified)
    PROVE  v = version
<1>1. CASE "tag" \in ResumeBy /\ ifRange = [kind |-> "tag", tag |-> Tag(v)]
  <2>1. ~WeakTags /\ TagOf[v] = TagOf[version]
    BY <1>1 DEF IfRangeMatches, CompareETags, Tag
  <2>2. v \in 0..MaxVersion /\ version \in 0..MaxVersion
    BY TransferAssumption DEF TypeOK
  <2> QED BY <1>1, <2>1, <2>2 DEF TagsTellVersionsApart
<1>2. CASE ifRange = [kind |-> "date", date |-> WholeSecond(m)]
  <2>1. modified <= WholeSecond(m)
    BY <1>2 DEF IfRangeMatches
  <2>2. WholeSecond(m) \in Nat /\ WholeSecond(m) <= m
    BY WholeSecondIsEarlier DEF TypeOK
  <2> QED BY <2>1, <2>2, TransferAssumption DEF TypeOK, MadeAt
<1> QED BY <1>1, <1>2

-----------------------------------------------------------------------------
(* One step lemma per action.                                                *)

LEMMA InitHolds == Init => IInv
BY TransferAssumption
   DEF Init, IInv, TypeOK, HoldsOneVersion, RequestFits, EmptyIsAVersion

LEMMA TickStep == IInv /\ Tick => IInv'
<1> SUFFICES ASSUME IInv, Tick PROVE IInv'
  OBVIOUS
<1>1. TypeOK' /\ (modified <= clock)'
  BY DEF IInv, TypeOK, Tick
<1>2. HoldsOneVersion' /\ RequestFits' /\ EmptyIsAVersion'
  BY DEF IInv, Tick, HoldsOneVersion, Holds, MadeAt, Tag, RequestFits,
         AsksForTheRest, EmptyIsAVersion
<1> QED BY <1>1, <1>2 DEF IInv

(* What the client has stays a beginning of its version.                     *)
LEMMA ChangeStep == IInv /\ Change => IInv'
<1> SUFFICES ASSUME IInv, Change PROVE IInv'
  OBVIOUS
<1>1. TypeOK' /\ (modified <= clock)'
  BY TransferAssumption DEF IInv, TypeOK, Change
<1>2. HoldsOneVersion'
  <2>1. SUFFICES ASSUME have # <<>> PROVE HoldsOneVersion'
    BY DEF HoldsOneVersion, Change
  <2>2. PICK v \in 0..version, m \in 0..modified : Holds(v, m)
    BY <2>1 DEF IInv, HoldsOneVersion
  <2>3. v \in 0..version' /\ m \in 0..modified' /\ m < modified' /\ v < version'
    BY <2>2, TransferAssumption DEF IInv, TypeOK, Change
  <2>4. Holds(v, m)'
    BY <2>2, <2>3 DEF Holds, MadeAt, Tag, Change
  <2> QED BY <2>3, <2>4 DEF HoldsOneVersion
<1>3. RequestFits' /\ EmptyIsAVersion'
  <2>1. 0..version \subseteq 0..version'
    BY TransferAssumption DEF IInv, TypeOK, Change
  <2> QED BY <2>1 DEF IInv, Change, RequestFits, AsksForTheRest, EmptyIsAVersion
<1> QED BY <1>1, <1>2, <1>3 DEF IInv

(* A request leaves everything else alone.                                   *)
LEMMA AskStep ==
    ASSUME IInv, NEW asked, Ask(asked),
           asked \in [range : {Null} \cup RequestedRange, ifRange : {Null} \cup IfRange],
           RequestFits'
    PROVE  IInv'
<1>1. TypeOK' /\ (modified <= clock)'
  BY DEF IInv, TypeOK, Ask
<1>2. HoldsOneVersion' /\ EmptyIsAVersion'
  BY DEF IInv, Ask, HoldsOneVersion, Holds, MadeAt, Tag, EmptyIsAVersion
<1> QED BY <1>1, <1>2 DEF IInv

LEMMA StartStep == IInv /\ Start => IInv'
<1> SUFFICES ASSUME IInv, Start PROVE IInv'
  OBVIOUS
<1>1. RequestFits'
  BY DEF Start, Ask, RequestFits
<1> QED BY <1>1, AskStep DEF Start

LEMMA ResumeStep ==
    ASSUME IInv, NEW by \in ResumeBy, Resume(by) \/ ResumeBySuffix(by)
    PROVE  IInv'
<1>1. by \in {"tag", "date"} /\ have # <<>> /\ Len(have) \in Nat
  BY TransferAssumption DEF IInv, TypeOK, Resume, ResumeBySuffix
<1>2. PICK v \in 0..version, m \in 0..modified : Holds(v, m)
  BY <1>1 DEF IInv, HoldsOneVersion
<1>3. known.tag \in EntityTag /\ known.date \in Nat /\ known.size \in Nat
  BY <1>2, KnownTypes DEF IInv
<1> DEFINE validator == IF by = "tag" THEN [kind |-> "tag", tag |-> known.tag]
                        ELSE [kind |-> "date", date |-> known.date]
           rest == [start |-> Len(have), end |-> Infinity]
           suffix == [start |-> Len(have) - known.size, end |-> -1]
<1>4. validator \in IfRange
  BY <1>1, <1>3 DEF IfRange
<1>5. rest \in RequestedRange /\ suffix \in RequestedRange
  BY <1>1, <1>3 DEF RequestedRange
<1>6. CASE Resume(by)
  <2>1. Ask([range |-> rest, ifRange |-> validator])
    BY <1>6 DEF Resume
  <2>2. RequestFits'
    <3>1. request' = [range |-> rest, ifRange |-> validator]
          /\ have' = have /\ known' = known
      BY <2>1 DEF Ask
    <3>2. AsksForTheRest'
      BY <1>1, <3>1 DEF AsksForTheRest
    <3> QED BY <1>1, <3>1, <3>2 DEF RequestFits
  <2> QED BY <1>4, <1>5, <2>1, <2>2, AskStep
<1>7. CASE ResumeBySuffix(by)
  <2>1. Ask([range |-> suffix, ifRange |-> validator]) /\ Len(have) < known.size
    BY <1>7 DEF ResumeBySuffix
  <2>2. RequestFits'
    <3>1. request' = [range |-> suffix, ifRange |-> validator]
          /\ have' = have /\ known' = known
      BY <2>1 DEF Ask
    <3>2. AsksForTheRest'
      BY <1>1, <2>1, <3>1 DEF AsksForTheRest
    <3> QED BY <1>1, <3>1, <3>2 DEF RequestFits
  <2> QED BY <1>4, <1>5, <2>1, <2>2, AskStep
<1> QED BY <1>6, <1>7

(* The whole representation begins the file anew.                            *)
LEMMA ReceiveAllStep ==
    ASSUME IInv, NEW count \in Nat, ReceiveAll(count)
    PROVE  IInv'
<1> DEFINE v == version
<1>1. /\ have' = [k \in 1..count |-> v] /\ count <= SizeOf[v] /\ SizeOf[v] \in Nat
      /\ known' = [tag |-> Tag(v), date |-> WholeSecond(modified), size |-> SizeOf[v]]
      /\ phase' = (IF count = SizeOf[v] THEN "complete" ELSE "idle")
      /\ v \in 0..MaxVersion /\ modified \in Nat
      /\ version' = version /\ modified' = modified /\ clock' = clock
      /\ request' = Null
  BY TransferAssumption DEF IInv, TypeOK, ReceiveAll, Bytes, Size
<1>2. have' \in Seq(0..MaxVersion) /\ Len(have') = count
  BY <1>1
<1>3. Tag(v) \in EntityTag /\ WholeSecond(modified) \in Nat
  BY <1>1, WholeSecondIsEarlier, TransferAssumption DEF Tag, EntityTag
<1>4. TypeOK' /\ (modified <= clock)'
  BY <1>1, <1>2, <1>3 DEF IInv, TypeOK, Validators
<1>5. Holds(v, modified)'
  BY <1>1, <1>2 DEF Holds, MadeAt, Tag
<1>6. HoldsOneVersion'
  BY <1>1, <1>5 DEF HoldsOneVersion
<1>7. RequestFits'
  BY <1>1 DEF RequestFits
<1>8. EmptyIsAVersion'
  BY <1>1, <1>2 DEF EmptyIsAVersion
<1> QED BY <1>4, <1>6, <1>7, <1>8 DEF IInv

(* What formatContentRange writes of a satisfiable range, parseContentRange   *)
(* reads as it was.                                                          *)
LEMMA ContentRangeIsRead ==
    ASSUME NEW range \in RequestedRange, NEW size \in Nat, Satisfiable(range, size)
    PROVE  ParseContentRange(FormatContentRange(Clamped(range, size), size))
               = [range |-> Clamped(range, size), size |-> size]
<1>1. /\ FirstByte(range, size) \in Int /\ LastByte(range, size) \in Int
      /\ LastByte(range, size) < size
  BY RangesAssumption DEF RequestedRange, FirstByte, LastByte, IsSuffix
<1>2. /\ FirstByte(range, size) >= 0
      /\ LastByte(range, size) >= FirstByte(range, size)
  BY DEF Satisfiable
<1>3. Clamped(range, size) # Null
  BY <1>1, AbsentAssumption DEF RequestedRange, Clamped
<1> QED BY <1>1, <1>2, <1>3 DEF ParseContentRange, FormatContentRange, Clamped

(* A part continues what the client has: it is of the same version.          *)
LEMMA ReceivePartStep ==
    ASSUME TagsTellVersionsApart, IInv, NEW count \in Nat, ReceivePart(count)
    PROVE  IInv'
<1>1. /\ phase = "waiting" /\ Answer = "partial" /\ request' = Null
      /\ version' = version /\ modified' = modified /\ clock' = clock /\ known' = known
      /\ have' = have \o Bytes(count)
  BY DEF ReceivePart
<1>2. request.range # Null
  BY <1>1 DEF Answer, EvaluateRange
<1>3. have # <<>> /\ AsksForTheRest
  BY <1>1, <1>2 DEF IInv, RequestFits
<1>4. PICK v \in 0..version, m \in 0..modified : Holds(v, m)
  BY <1>3 DEF IInv, HoldsOneVersion
<1>5. v = version
  <2>1. request.ifRange # Null
    <3>1. known.tag \in EntityTag /\ known.date \in Nat
      BY <1>4, KnownTypes DEF IInv
    <3>2. request.ifRange \in IfRange
      BY <1>3, <3>1 DEF AsksForTheRest, IfRange
    <3> QED BY <3>2, AbsentAssumption
  <2>2. IfRangeMatches(request.ifRange, Tag(version), modified)
    BY <1>1, <2>1 DEF Answer, EvaluateRange
  <2>3. \/ "tag" \in ResumeBy /\ request.ifRange = [kind |-> "tag", tag |-> Tag(v)]
        \/ request.ifRange = [kind |-> "date", date |-> WholeSecond(m)]
    BY <1>3, <1>4 DEF AsksForTheRest, Holds
  <2> QED BY <1>4, <2>2, <2>3, MatchMeansSameVersion DEF IInv, Holds
<1> DEFINE n == Len(have)
<1>6. /\ n \in Nat /\ n > 0 /\ SizeOf[v] \in Nat /\ n <= SizeOf[v] /\ Size = SizeOf[v]
      /\ known.size = SizeOf[v] /\ v \in 0..MaxVersion
  BY <1>3, <1>4, <1>5, TransferAssumption DEF IInv, TypeOK, Holds, Size
<1>7. Clamped(request.range, Size) = [start |-> n, end |-> SizeOf[v] - 1]
  <2>1. CASE request.range = [start |-> n, end |-> Infinity]
    BY <1>6, <2>1, RangesAssumption DEF Clamped, FirstByte, LastByte, IsSuffix
  <2>2. CASE request.range = [start |-> n - known.size, end |-> -1] /\ n < known.size
    BY <1>6, <2>2 DEF Clamped, FirstByte, LastByte, IsSuffix
  <2>3. CASE request.range = [start |-> n - known.size, end |-> -1] /\ n = known.size
    <3>1. request.range = [start |-> 0, end |-> -1]
      BY <1>6, <2>3
    <3>2. LastByte(request.range, Size) = -1 /\ FirstByte(request.range, Size) = 0
      BY <1>6, <3>1, RangesAssumption DEF FirstByte, LastByte, IsSuffix
    <3>3. ~Satisfiable(request.range, Size)
      BY <3>2 DEF Satisfiable
    <3> QED BY <1>1, <3>3 DEF Answer, EvaluateRange
  <2> QED BY <1>3, <1>6, <2>1, <2>2, <2>3 DEF AsksForTheRest
<1>8. /\ count <= SizeOf[v] - n
      /\ phase' = (IF count = SizeOf[v] - n THEN "complete" ELSE "idle")
  <2>1. request.range \in RequestedRange /\ Satisfiable(request.range, Size)
    <3>1. n - known.size \in Int /\ -1 \in Int
      BY <1>6
    <3>2. request.range \in RequestedRange
      BY <1>3, <1>6, <3>1 DEF AsksForTheRest, RequestedRange
    <3>3. Satisfiable(request.range, Size)
      BY <1>1, <1>2 DEF Answer, EvaluateRange
    <3> QED BY <3>2, <3>3
  <2>2. Part = [range |-> [start |-> n, end |-> SizeOf[v] - 1], size |-> SizeOf[v]]
    BY <1>6, <1>7, <2>1, ContentRangeIsRead DEF Part
  <2> QED BY <1>6, <2>2 DEF ReceivePart
<1>9. have' = [k \in 1..(n + count) |-> v]
  BY <1>1, <1>4, <1>5, <1>6, BeginningGrows DEF Bytes, Holds
<1>10. Len(have') = n + count /\ have' \in Seq(0..MaxVersion) /\ have' # <<>>
  BY <1>6, <1>9
<1>11. TypeOK' /\ (modified <= clock)'
  BY <1>1, <1>8, <1>10 DEF IInv, TypeOK
<1>12. Holds(v, m)'
  <2>1. MadeAt(v, m)' /\ Tag(v)' = Tag(v)
    BY <1>1, <1>4 DEF Holds, MadeAt, Tag
  <2>2. known' = [tag |-> Tag(v), date |-> WholeSecond(m), size |-> SizeOf[v]]
    BY <1>1, <1>4 DEF Holds
  <2>3. Len(have') <= SizeOf[v] /\ (phase' = "complete" => Len(have') = SizeOf[v])
    BY <1>6, <1>8, <1>10
  <2>4. have' = [k \in 1..Len(have') |-> v]
    BY <1>9, <1>10
  <2> QED BY <2>1, <2>2, <2>3, <2>4 DEF Holds
<1>13. HoldsOneVersion'
  BY <1>1, <1>4, <1>12 DEF HoldsOneVersion
<1>14. RequestFits' /\ EmptyIsAVersion'
  BY <1>1, <1>8, <1>10 DEF RequestFits, EmptyIsAVersion
<1> QED BY <1>11, <1>13, <1>14 DEF IInv

LEMMA NextStep ==
    ASSUME TagsTellVersionsApart
    PROVE  IInv /\ [Next]_vars => IInv'
<1> SUFFICES ASSUME IInv, [Next]_vars PROVE IInv'
  OBVIOUS
<1>1. ASSUME NEW count \in 0..MaxSize, ReceiveAll(count) \/ ReceivePart(count)
      PROVE  IInv'
  <2>1. count \in Nat
    BY <1>1
  <2> QED BY <1>1, <2>1, ReceiveAllStep, ReceivePartStep
<1>2. CASE UNCHANGED vars
  BY <1>2 DEF vars, IInv, TypeOK, HoldsOneVersion, Holds, MadeAt, Tag,
              RequestFits, AsksForTheRest, EmptyIsAVersion
<1> QED BY <1>1, <1>2, TickStep, ChangeStep, StartStep, ResumeStep DEF Next

-----------------------------------------------------------------------------
(* Theorems.                                                                 *)

LEMMA CompleteFromInvariant == IInv => CompleteFile
<1> SUFFICES ASSUME IInv PROVE CompleteFile
  OBVIOUS
<1>1. CASE have = <<>>
  <2>1. OneVersion
    BY <1>1 DEF OneVersion
  <2>2. ASSUME phase = "complete"
        PROVE  \E v \in 0..version : have = [k \in 1..SizeOf[v] |-> v]
    <3>1. PICK v \in 0..version : SizeOf[v] = 0
      BY <1>1, <2>2 DEF IInv, EmptyIsAVersion
    <3>2. have = [k \in 1..SizeOf[v] |-> v]
      BY <1>1, <3>1
    <3> QED BY <3>2
  <2> QED BY <2>1, <2>2 DEF CompleteFile
<1>2. CASE have # <<>>
  <2>1. PICK v \in 0..version, m \in 0..modified : Holds(v, m)
    BY <1>2 DEF IInv, HoldsOneVersion
  <2> QED BY <2>1 DEF CompleteFile, OneVersion, Holds
<1> QED BY <1>1, <1>2

(* Whatever happens between an interruption and a resumption, what the       *)
(* client takes for a complete file is one version from the first byte to    *)
(* the last: evaluateRange and ifRangeMatches of range.ts never let bytes of *)
(* two versions be joined.  Dates are safe for every resolution of the clock *)
(* as long as two changes never share a tick; tags are safe when no two      *)
(* versions have the same one, and weak tags always.                         *)
THEOREM DownloadIsOneVersion ==
    ASSUME TagsTellVersionsApart
    PROVE  Spec => []CompleteFile
<1>1. Init => IInv
  BY InitHolds
<1>2. IInv /\ [Next]_vars => IInv'
  BY NextStep
<1>3. IInv => CompleteFile
  BY CompleteFromInvariant
<1> QED BY <1>1, <1>2, <1>3, PTL DEF Spec

-----------------------------------------------------------------------------
(* Types need less: validators are there as soon as there are bytes, and a   *)
(* client without bytes asks for everything.                                 *)

TypeInv ==
    /\ TypeOK
    /\ have # <<>> => known \in Validators
    /\ phase = "waiting" /\ have = <<>> => request.range = Null

LEMMA ValidatorsAreTyped ==
    ASSUME TypeInv, have # <<>>
    PROVE  /\ known.tag \in EntityTag /\ known.date \in Nat /\ known.size \in Nat
BY DEF TypeInv, Validators

LEMMA TypeInvAsk ==
    ASSUME TypeInv, NEW by \in ResumeBy, Resume(by) \/ ResumeBySuffix(by)
    PROVE  TypeInv'
<1>1. by \in {"tag", "date"} /\ have # <<>> /\ Len(have) \in Nat
  BY TransferAssumption DEF TypeInv, TypeOK, Resume, ResumeBySuffix
<1>2. known.tag \in EntityTag /\ known.date \in Nat /\ known.size \in Nat
  BY <1>1, ValidatorsAreTyped
<1> DEFINE validator == IF by = "tag" THEN [kind |-> "tag", tag |-> known.tag]
                        ELSE [kind |-> "date", date |-> known.date]
           rest == [start |-> Len(have), end |-> Infinity]
           suffix == [start |-> Len(have) - known.size, end |-> -1]
<1>3. validator \in IfRange /\ rest \in RequestedRange /\ suffix \in RequestedRange
  BY <1>1, <1>2 DEF IfRange, RequestedRange
<1>4. PICK range \in {rest, suffix} : Ask([range |-> range, ifRange |-> validator])
  BY DEF Resume, ResumeBySuffix
<1>5. request' \in [range : {Null} \cup RequestedRange, ifRange : {Null} \cup IfRange]
  BY <1>3, <1>4 DEF Ask
<1>6. phase' = "waiting" /\ UNCHANGED <<version, modified, clock, have, known>>
  BY <1>4 DEF Ask
<1> HIDE DEF validator, rest, suffix
<1>7. TypeOK'
  BY <1>5, <1>6 DEF TypeInv, TypeOK
<1>8. have' # <<>> /\ known' \in Validators
  BY <1>1, <1>6 DEF TypeInv
<1> QED BY <1>7, <1>8 DEF TypeInv

LEMMA BytesAreASequence ==
    ASSUME NEW S, NEW v \in S, NEW n \in Nat
    PROVE  [k \in 1..n |-> v] \in Seq(S)
OBVIOUS

LEMMA TypeInvReceive ==
    ASSUME TypeInv, NEW count \in Nat, ReceiveAll(count) \/ ReceivePart(count)
    PROVE  TypeInv'
<1>1. Bytes(count) \in Seq(0..MaxVersion)
  <2>1. version \in 0..MaxVersion
    BY DEF TypeInv, TypeOK
  <2> QED BY <2>1, BytesAreASequence DEF Bytes
<1>2. CASE ReceiveAll(count)
  <2>1. /\ SizeOf[version] \in Nat /\ Tag(version) \in EntityTag
        /\ WholeSecond(modified) \in Nat
    BY TransferAssumption, WholeSecondIsEarlier DEF TypeInv, TypeOK, Tag, EntityTag
  <2>2. known' \in Validators
    BY <1>2, <2>1 DEF ReceiveAll, Size, Validators
  <2> QED BY <1>1, <1>2, <2>2 DEF ReceiveAll, TypeInv, TypeOK
<1>3. CASE ReceivePart(count)
  <2>1. have # <<>>
    BY <1>3 DEF ReceivePart, Answer, EvaluateRange, TypeInv
  <2>2. have \o Bytes(count) \in Seq(0..MaxVersion)
    BY <1>1 DEF TypeInv, TypeOK
  <2> QED BY <1>3, <2>1, <2>2 DEF ReceivePart, TypeInv, TypeOK
<1> QED BY <1>2, <1>3

(* Every request the client makes and everything it keeps is of the shape    *)
(* that range.ts and the types of its callers describe.                      *)
THEOREM TransferTypes == Spec => []TypeOK
<1>1. Init => TypeInv
  BY TransferAssumption DEF Init, TypeInv, TypeOK
<1>2. TypeInv /\ [Next]_vars => TypeInv'
  <2> SUFFICES ASSUME TypeInv, [Next]_vars PROVE TypeInv'
    OBVIOUS
  <2>1. CASE Tick
    BY <2>1 DEF Tick, TypeInv, TypeOK
  <2>2. CASE Change
    BY <2>2, TransferAssumption DEF Change, TypeInv, TypeOK
  <2>3. CASE Start
    BY <2>3 DEF Start, Ask, TypeInv, TypeOK
  <2>4. ASSUME NEW count \in 0..MaxSize, ReceiveAll(count) \/ ReceivePart(count)
        PROVE  TypeInv'
    BY <2>4, TypeInvReceive
  <2>5. CASE UNCHANGED vars
    BY <2>5 DEF vars, TypeInv, TypeOK
  <2> QED BY <2>1, <2>2, <2>3, <2>4, <2>5, TypeInvAsk DEF Next
<1>3. TypeInv => TypeOK
  BY DEF TypeInv
<1> QED BY <1>1, <1>2, <1>3, PTL DEF Spec
=============================================================================
