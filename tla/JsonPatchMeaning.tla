-------------------------- MODULE JsonPatchMeaning --------------------------
(* What RFC 6902 and RFC 7396 make of a patch, said of documents and not of   *)
(* objects in memory: a document is the function from the paths that exist in *)
(* it to what stands there, "object", "array" or a primitive value.           *)
EXTENDS Naturals, FiniteSets, SequencesExt, TLC

CONSTANTS
    IndexToken,  \* the reference tokens "0", "1", ... in order
    MaxDepth,    \* how deep a copied value may be
    Null,        \* the JSON value null
    Missing,     \* no value at a place
    Path         \* the places that are looked at in a result

Index(token) == CHOOSE n \in 1..Len(IndexToken) : IndexToken[n] = token
IsIndex(token) == token \in ToSet(IndexToken)

Below(path, p) == IsPrefix(path, p)
Sub(doc, path) ==
    [q \in {SubSeq(p, Len(path) + 1, Len(p)) : p \in {r \in DOMAIN doc : Below(path, r)}}
        |-> doc[path \o q]]
Without(doc, path) == [p \in {r \in DOMAIN doc : ~Below(path, r)} |-> doc[p]]
With(doc, path, sub) ==
    LET rest == Without(doc, path)
        new == {path \o q : q \in DOMAIN sub}
    IN  [p \in DOMAIN rest \cup new |->
            IF p \in new THEN sub[SubSeq(p, Len(path) + 1, Len(p))] ELSE rest[p]]
Width(doc, path) ==
    Cardinality({p \in DOMAIN doc : Len(p) = Len(path) + 1 /\ Below(path, p)})
Height(doc) == Max({Len(p) : p \in DOMAIN doc})

(* The elements of the array from an index on, all renamed by one.            *)
Renamed(doc, array, from, Rename(_)) ==
    LET depth == Len(array) + 1
        Later(p) == Below(array, p) /\ Len(p) >= depth /\ Index(p[depth]) >= from
        Moved(p) == IF Later(p) THEN [p EXCEPT ![depth] = IndexToken[Rename(Index(@))]] ELSE p
    IN  [q \in {Moved(p) : p \in DOMAIN doc} |-> doc[CHOOSE p \in DOMAIN doc : Moved(p) = q]]

(* Every document has at least a root.                                        *)
None == <<>>

(* Each operation gives a document, or None where RFC 6902 makes it an error. *)
AddTo(doc, path, sub) ==
    IF path = <<>> THEN sub
    ELSE LET parent == Front(path)
             token == IF Last(path) = <<"-">> /\ parent \in DOMAIN doc
                      THEN IndexToken[Width(doc, parent) + 1] ELSE Last(path)
             target == Append(parent, token)
         IN  CASE parent \in DOMAIN doc /\ doc[parent] = "object" -> With(doc, path, sub)
               [] parent \in DOMAIN doc /\ doc[parent] = "array" /\ IsIndex(token)
                  /\ Index(token) <= Width(doc, parent) + 1 ->
                    With(Renamed(doc, parent, Index(token), LAMBDA n : n + 1), target, sub)
               [] OTHER -> None

RemoveFrom(doc, path) ==
    IF path = <<>> \/ path \notin DOMAIN doc THEN None
    ELSE IF doc[Front(path)] = "object" THEN Without(doc, path)
    ELSE Renamed(Without(doc, path), Front(path), Index(Last(path)), LAMBDA n : n - 1)

ReplaceIn(doc, path, sub) ==
    IF path \in DOMAIN doc THEN With(doc, path, sub) ELSE None

MoveIn(doc, from, path) ==
    IF from \notin DOMAIN doc THEN None
    ELSE IF from = path THEN doc
    ELSE LET rest == RemoveFrom(doc, from)
         IN  IF rest = None THEN None ELSE AddTo(rest, path, Sub(doc, from))

CopyIn(doc, from, path) ==
    IF from \notin DOMAIN doc \/ Height(Sub(doc, from)) > MaxDepth THEN None
    ELSE AddTo(doc, path, Sub(doc, from))

TestIn(doc, path, sub) == IF path \in DOMAIN doc /\ Sub(doc, path) = sub THEN doc ELSE None

(* A merge patch, path by path: it speaks of the paths it has, where null     *)
(* means nothing, and overrules the target below all that is no object.       *)
MergeInto(doc, patch) ==
    LET said == {p \in DOMAIN patch : p = <<>> \/ patch[p] # Null}
        left == {p \in DOMAIN doc \ DOMAIN patch :
                    \A q \in DOMAIN patch :
                        IsStrictPrefix(q, p) => patch[q] = "object" /\ doc[q] = "object"}
    IN  [p \in said \cup left |-> IF p \in said THEN patch[p] ELSE doc[p]]

(* An operation carries the document of its value.                            *)
Meaning(doc, operation) ==
    CASE operation.op = "add" -> AddTo(doc, operation.path, operation.value)
      [] operation.op = "remove" -> RemoveFrom(doc, operation.path)
      [] operation.op = "replace" -> ReplaceIn(doc, operation.path, operation.value)
      [] operation.op = "move" -> MoveIn(doc, operation.from, operation.path)
      [] operation.op = "copy" -> CopyIn(doc, operation.from, operation.path)
      [] operation.op = "merge" -> MergeInto(doc, operation.value)
      [] operation.op = "test" -> TestIn(doc, operation.path, operation.value)

IsValid(operation) ==
    /\ operation.op # "invalid"
    /\ operation.op = "move" => ~IsStrictPrefix(operation.from, operation.path)

-----------------------------------------------------------------------------

CONSTANTS Documents, Operations, MaxOperations

VARIABLES
    patch,     \* the operations to come
    doc,       \* the document so far
    outcome,   \* "running", "done" or "error"
    found      \* what stands at every place of the result, once it is looked at

vars == <<patch, doc, outcome, found>>

(* There is no document where the target is no JSON value.                    *)
Init ==
    /\ patch \in Seq(Operations \cup {[op |-> "invalid"]}) /\ Len(patch) <= MaxOperations
    /\ doc \in Documents \cup {None}
    /\ outcome = "running"
    /\ found = <<>>

Apply ==
    /\ outcome = "running" /\ patch # <<>> /\ doc # None
    /\ \A k \in DOMAIN patch : IsValid(patch[k])
    /\ Meaning(doc, Head(patch)) # None
    /\ doc' = Meaning(doc, Head(patch))
    /\ patch' = Tail(patch)
    /\ UNCHANGED <<outcome, found>>

Reject ==
    /\ outcome = "running"
    /\ \/ doc = None
       \/ \E k \in DOMAIN patch : ~IsValid(patch[k])
       \/ patch # <<>> /\ Meaning(doc, Head(patch)) = None
    /\ outcome' = "error"
    /\ doc' = None
    /\ UNCHANGED <<patch, found>>

Finish ==
    /\ outcome = "running" /\ patch = <<>> /\ doc # None
    /\ outcome' = "done"
    /\ UNCHANGED <<patch, doc, found>>

Look ==
    /\ outcome = "done"
    /\ found' = [path \in Path |-> IF path \in DOMAIN doc THEN doc[path] ELSE Missing]
    /\ UNCHANGED <<patch, doc, outcome>>

Next == Apply \/ Reject \/ Finish \/ Look

Spec == Init /\ [][Next]_vars
=============================================================================
