---------------------------- MODULE JsonPatching ----------------------------
(* One call of applyJsonPatch or of applyJsonMergePatch, perhaps on what      *)
(* parseJsonPatch or parseJsonMergePatch returned, and a look with pointers   *)
(* into the result.  The caller's target and the values of its patch may      *)
(* share objects with each other.  Both functions work on clones: the first   *)
(* edits its clone in place, one operation at a time, and throws at the first *)
(* that fails; the second builds its result in one recursion.                 *)
EXTENDS JsonPatch

CONSTANTS
    Path,           \* the places a caller means, as reference tokens
    BadPointer,     \* texts that are no JSON Pointers
    CallerHeap,     \* the objects of the caller
    Target,         \* the targets a caller passes to applyJsonPatch
    OperationValue, \* the values its operations carry
    BadValue,       \* targets and values that are no JSON values
    MaxOperations,  \* bound on the length of a patch
    MaxParsed,      \* bound on the length of one that is parsed
    MergeTarget,    \* the targets a caller passes to applyJsonMergePatch
    MergeValue      \* and its merge patches

ASSUME JsonPatchingAssumption ==
    /\ IsFiniteSet(Token) /\ IndexToken \in Seq(Token)
    /\ Path \subseteq Seq(Token)
    /\ {MaxDepth, MaxOperations, MaxParsed} \subseteq Nat

(* A caller writes its pointers with formatJsonPointer and keeps them in      *)
(* links, as fragments.                                                       *)
Written(path) == FromUriFragment(ToUriFragment(FormatJsonPointer(path)))
Pointer == {Written(path) : path \in Path}

OperationsWith(pointers, values) ==
    [op : {"add", "replace", "test"}, path : pointers, value : values]
    \cup [op : {"remove"}, path : pointers]
    \cup [op : {"move", "copy"}, path : pointers, from : pointers]
Operation == OperationsWith(Pointer, OperationValue)

(* An operation that something is wrong with, alone or after a removal. *)
BadOperation == OperationsWith(BadPointer \cup {<<>>}, BadValue \cup OperationValue) \ Operation
BadPatch == {Append(before, bad) : before \in BoundedSeq([op : {"remove"}, path : Pointer], 1),
                                   bad \in BadOperation}

(* parseJsonPointer finds reference tokens or that the text is no pointer. *)
ASSUME PointerAssumption ==
    \A pointer \in Pointer \cup BadPointer :
        LET tokens == ParseJsonPointer(pointer) IN tokens = Null \/ tokens \in Seq(Token)

(* A merge patch is one step of its own. *)
MergeCall == [op : {"merge"}, value : MergeValue]
BadCall ==
    ({<<>>} \X BadValue) \cup ({<<call>> : call \in MergeCall} \X BadValue)
    \cup ([1..1 -> [op : {"merge"}, value : BadValue]] \X MergeTarget)

(* All a caller can have in its hands; a number among it is one of its nodes. *)
CallerValue ==
    {Missing, Null} \cup Target \cup OperationValue \cup BadValue \cup MergeTarget \cup MergeValue
    \cup UNION {Range(CallerHeap[r].items) : r \in DOMAIN CallerHeap}
ASSUME CallerAssumption ==
    /\ Len(CallerHeap) \in Nat
    /\ CallerHeap = [r \in 1..Len(CallerHeap) |-> CallerHeap[r]]
    /\ \A r \in DOMAIN CallerHeap : IsNode(CallerHeap[r], CallerValue)
    /\ \A value \in CallerValue : value \in Nat => value \in DOMAIN CallerHeap
    /\ Missing \notin Nat

-----------------------------------------------------------------------------

VARIABLES
    patch,     \* the operations to come
    target,    \* the caller's target
    work,      \* the heap, the working document, whether the code has thrown
    outcome,   \* "unparsed", "called", "running", "done" or "error"
    found,     \* what the pointers lead to in the result, once it is looked at
    document   \* history: the working document, <<>> if there is none

vars == <<patch, target, work, outcome, found, document>>

Init ==
    /\ \/ patch \in BoundedSeq(Operation, MaxOperations) \cup BadPatch /\ target \in Target
       \/ patch \in {<<call>> : call \in MergeCall} /\ target \in MergeTarget
       \/ \E call \in BadCall : patch = call[1] /\ target = call[2]
    /\ work = [heap |-> CallerHeap, root |-> target, ok |-> TRUE]
    /\ outcome \in IF Len(patch) <= MaxParsed THEN {"unparsed", "called"} ELSE {"called"}
    /\ found = <<>>
    /\ document = IF target \in BadValue THEN <<>> ELSE Document(CallerHeap, target)

IsMergeCall == patch # <<>> /\ Head(patch).op = "merge"

(* parseJsonPatch and parseJsonMergePatch: null, or a patch of their own. *)
Parse ==
    /\ outcome = "unparsed"
    /\ \/ /\ \A k \in DOMAIN patch : IsOperation(work.heap, patch[k])
          /\ LET Parsed[n \in 0..Len(patch)] ==
                     IF n = 0 THEN [heap |-> work.heap, patch |-> <<>>]
                     ELSE ParseOperation(Parsed[n - 1], patch[n])
             IN  /\ work' = [work EXCEPT !.heap = Parsed[Len(patch)].heap]
                 /\ patch' = Parsed[Len(patch)].patch
          /\ outcome' = "called"
          /\ UNCHANGED document
       \/ /\ \E k \in DOMAIN patch : ~IsOperation(work.heap, patch[k])
          /\ outcome' = "error"
          /\ document' = <<>>
          /\ UNCHANGED <<patch, work>>
    /\ UNCHANGED <<target, found>>

Valid ==
    IF IsMergeCall
    THEN IsMergePatchValue(work.heap, target) /\ IsMergePatchValue(work.heap, Head(patch).value)
    ELSE /\ IsJsonValue(work.heap, target)
         /\ \A k \in DOMAIN patch : ValidateOperation(work.heap, patch[k])

Start ==
    /\ outcome = "called" /\ ~IsMergeCall
    /\ Valid
    /\ LET copy == CloneJsonValue(work.heap, target)
       IN  work' = [heap |-> copy.heap, root |-> copy.value, ok |-> TRUE]
    /\ outcome' = "running"
    /\ document' = Document(work'.heap, work'.root)
    /\ UNCHANGED <<patch, target, found>>

Refuse ==
    /\ outcome = "called"
    /\ ~Valid
    /\ outcome' = "error"
    /\ document' = <<>>
    /\ UNCHANGED <<patch, target, work, found>>

Apply ==
    /\ outcome = "running" /\ patch # <<>>
    /\ work' = ApplyOperation(work, Head(patch))
    /\ IF work'.ok
       THEN /\ patch' = Tail(patch)
            /\ document' = Document(work'.heap, work'.root)
            /\ UNCHANGED outcome
       ELSE /\ outcome' = "error"
            /\ document' = <<>>
            /\ UNCHANGED patch
    /\ UNCHANGED <<target, found>>

Merge ==
    /\ outcome = "called" /\ IsMergeCall
    /\ Valid
    /\ LET merged == MergePatch(work.heap, target, Head(patch).value)
       IN  work' = [heap |-> merged.heap, root |-> merged.value, ok |-> TRUE]
    /\ patch' = <<>>
    /\ outcome' = "running"
    /\ document' = Document(work'.heap, work'.root)
    /\ UNCHANGED <<target, found>>

Return ==
    /\ outcome = "running" /\ patch = <<>>
    /\ outcome' = "done"
    /\ UNCHANGED <<patch, target, work, found, document>>

(* The caller looks with evaluateJsonPointer for every place. *)
Look ==
    /\ outcome = "done" /\ found = <<>>
    /\ found' = [path \in Path |-> EvaluateJsonPointer(work.heap, work.root, Written(path))]
    /\ UNCHANGED <<patch, target, work, outcome, document>>

Next == Parse \/ Start \/ Refuse \/ Apply \/ Merge \/ Return \/ Look

Spec == Init /\ [][Next]_vars

-----------------------------------------------------------------------------
(* Properties.                                                                *)

ContainersIn(heap, value) ==
    {p \in DOMAIN Document(heap, value) : IsRef(heap, GetAtPath(heap, value, p))}
RefsIn(heap, value) == {GetAtPath(heap, value, p) : p \in ContainersIn(heap, value)}

(* applyJsonPatch and applyJsonMergePatch return "a new JSON value and [do]   *)
(* not mutate caller inputs" (json-patch.ts:114, json-merge-patch.ts:69): at  *)
(* no point, not even between two operations or before an error, do the target *)
(* and the values of the patch change.                                        *)
CallerUntouched == \A r \in DOMAIN CallerHeap : work.heap[r] = CallerHeap[r]

(* The working document is a tree of its own: no two of its places are one    *)
(* object, and none is the caller's, so an edit at one place is an edit there *)
(* only and the result can be edited freely.                                  *)
WorkingIsATree ==
    outcome \in {"running", "done"} =>
        /\ RefsIn(work.heap, work.root) \cap DOMAIN CallerHeap = {}
        /\ \A p, q \in ContainersIn(work.heap, work.root) :
              GetAtPath(work.heap, work.root, p) = GetAtPath(work.heap, work.root, q) => p = q

(* The patch as it was meant, and what RFC 6902 makes of it: a pointer means  *)
(* the path it was written for, a value its document.                         *)
MeantPath == [pointer \in Pointer |-> CHOOSE path \in Path : Written(path) = pointer]
CallerDocument == [v \in OperationValue \cup MergeValue \cup Target \cup MergeTarget |-> Document(CallerHeap, v)]
DocumentOf(heap, value) ==
    IF value \in DOMAIN CallerDocument THEN CallerDocument[value] ELSE Document(heap, value)
Wrong(operation, member) ==
    operation[member] \in IF member = "value" THEN BadValue ELSE BadPointer
Meant(heap, operation) ==
    IF \E member \in DOMAIN operation \ {"op"} : Wrong(operation, member)
    THEN [op |-> "invalid"]
    ELSE [member \in DOMAIN operation |->
             CASE member = "op" -> operation.op
               [] member = "value" -> DocumentOf(heap, operation.value)
               [] OTHER -> MeantPath[operation[member]]]
MeantOperations == {Meant(CallerHeap, operation) : operation \in Operation \cup MergeCall}
MeantDocuments == {CallerDocument[t] : t \in Target \cup MergeTarget}

Meaning == INSTANCE JsonPatchMeaning WITH
    patch <- [k \in DOMAIN patch |-> Meant(work.heap, patch[k])],
    doc <- document,
    outcome <- IF outcome \in {"unparsed", "called"} THEN "running" ELSE outcome,
    found <- [path \in DOMAIN found |->
                 IF IsRef(work.heap, found[path]) THEN work.heap[found[path]].kind ELSE found[path]],
    Documents <- MeantDocuments,
    Operations <- MeantOperations

(* Sequential, fail-fast application on objects (json-patch.ts:113) gives the *)
(* documents and the errors of RFC 6902, the recursion of mergePatch does at  *)
(* every path what RFC 7396 says of it, a pointer leads to the place it was   *)
(* written for, in a patch and in the result, and nothing is applied of a     *)
(* patch that is invalid anywhere.                                            *)
ImplementsMeaning == Meaning!Spec
=============================================================================
