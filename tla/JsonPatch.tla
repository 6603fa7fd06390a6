----------------------------- MODULE JsonPatch -----------------------------
(* JSON values as objects in memory, and pointers into them (json-pointer.ts). *)
(* A value is a primitive or a reference to an array or object of the heap; a  *)
(* node of the heap is [kind, items], where items is a sequence or a function  *)
(* from member names.  A reference is the node's index, which no primitive is. *)
(* A text or a reference token is a sequence of characters.                    *)
EXTENDS Integers, SequencesExt, TLC

CONSTANTS
    Token,       \* reference tokens of JSON Pointers, member names among them
    IndexToken,  \* those that are array indices: "0", "1", ... in order
    Missing,     \* no value at a place (undefined)
    Null,        \* the JSON value null, and what a parser returns for nothing
    NotJson,     \* a value that is none of JSON: a function, NaN, a class instance
    MaxDepth,    \* MAX_JSON_PATCH_VALUE_DEPTH, JSON_MERGE_PATCH_MAX_DEPTH
    PercentEncoded  \* the triplet of each character a fragment encodes

(* An array or object whose items are among the values. *)
IsNode(node, values) ==
    \/ node.kind = "array" /\ node \in [kind : {"array"}, items : Seq(values)]
    \/ \E names \in SUBSET Token :
          node.kind = "object" /\ node \in [kind : {"object"}, items : [names -> values]]

IsRef(heap, value) == value \in DOMAIN heap
IsObject(heap, value) == IsRef(heap, value) /\ heap[value].kind = "object"

(* parseArrayIndex, counted from 1; 0 for a token that is no index.           *)
Position(token) ==
    IF token \in ToSet(IndexToken)
    THEN CHOOSE n \in DOMAIN IndexToken : IndexToken[n] = token ELSE 0

(* One turn of the loops of getAtPath and resolveParent.                      *)
Child(heap, value, token) ==
    IF ~IsRef(heap, value) THEN Missing
    ELSE LET node == heap[value]
             key == IF node.kind = "array" THEN Position(token) ELSE token
         IN  IF key \in DOMAIN node.items THEN node.items[key] ELSE Missing

(* getAtPath, Missing where it throws.                                        *)
GetAtPath(heap, root, path) ==
    LET Reached[n \in 0..Len(path)] ==
            IF n = 0 THEN root ELSE Child(heap, Reached[n - 1], path[n])
    IN  Reached[Len(path)]

(* A recursion into a value comes to its arrays and objects one level after   *)
(* the other.  A place of the value is the list of steps that lead there,     *)
(* a step being a node and the key of one of its items.                       *)
At(heap, value, place) ==
    IF place = <<>> THEN value ELSE heap[Last(place)[1]].items[Last(place)[2]]
Step(heap, value, place, key) == Append(place, <<At(heap, value, place), key>>)
Keys(heap, value, place) == DOMAIN heap[At(heap, value, place)].items
Level(heap, value) ==
    LET Places[depth \in 0..MaxDepth] ==
            IF depth = 0 THEN {place \in {<<>>} : IsRef(heap, value)}
            ELSE UNION {{deeper \in {Step(heap, value, place, key) : key \in Keys(heap, value, place)} :
                            IsRef(heap, At(heap, value, deeper))} :
                        place \in Places[depth - 1]}
    IN  Places
Containers(heap, value) == UNION {Level(heap, value)[depth] : depth \in 0..MaxDepth}

(* Nothing of the value is deeper than MaxDepth, nor is there a cycle.        *)
WithinDepth(heap, value) ==
    \A place \in Level(heap, value)[MaxDepth] : Keys(heap, value, place) = {}

(* JSON throughout, no cycle, not too deep.                                   *)
IsJsonValue(heap, value) ==
    /\ value # NotJson
    /\ WithinDepth(heap, value)
    /\ \A place \in Containers(heap, value) : \A key \in Keys(heap, value, place) :
          heap[At(heap, value, place)].items[key] # NotJson

(* cloneJsonValue: the heap with the copy and the copy, Missing where it      *)
(* throws.  The recursion makes a node for every place at which there is an   *)
(* array or object, so one that is shared is copied more than once.           *)
CloneJsonValue(heap, value) ==
    LET places == SetToSeq(Containers(heap, value))
        Copy(place) == Len(heap) + CHOOSE n \in DOMAIN places : places[n] = place
        CopyOfItem(place, key) ==
            LET item == heap[At(heap, value, place)].items[key]
            IN  IF IsRef(heap, item) THEN Copy(Step(heap, value, place, key)) ELSE item
        CopyOfNode(place) ==
            [kind |-> heap[At(heap, value, place)].kind,
             items |-> [key \in Keys(heap, value, place) |-> CopyOfItem(place, key)]]
    IN  IF ~WithinDepth(heap, value) THEN [heap |-> heap, value |-> Missing]
        ELSE [heap |-> heap \o [n \in DOMAIN places |-> CopyOfNode(places[n])],
              value |-> IF IsRef(heap, value) THEN Copy(<<>>) ELSE value]

(* The document at a value: what stands at each path of it.  Two values are   *)
(* deepEqual if their documents are the same.                                 *)
Document(heap, value) ==
    LET levels == 2 * MaxDepth + 2
        Paths[n \in 0..levels] ==
            IF n = 0 THEN {<<>>}
            ELSE UNION {{path \in {Append(p, t) : t \in Token} : GetAtPath(heap, value, path) # Missing} :
                        p \in Paths[n - 1]}
    IN  [path \in UNION {Paths[n] : n \in 0..levels} |->
            LET at == GetAtPath(heap, value, path)
            IN  IF IsRef(heap, at) THEN heap[at].kind ELSE at]

----------------------------------------------------------------------------
(* The texts of pointers.                                                     *)

ReplacePairs(text, pattern, by) ==
    LET From[i \in 1..(Len(text) + 2)] ==
            IF i > Len(text) THEN <<>>
            ELSE IF IsPrefix(pattern, SubSeq(text, i, Len(text)))
            THEN <<by>> \o From[i + Len(pattern)] ELSE <<text[i]>> \o From[i + 1]
    IN  From[1]

(* First ~1, then ~0: the other way round, ~01 would become a slash.          *)
DecodeToken(token) ==
    ReplacePairs(ReplacePairs(token, <<"~", "1">>, "/"), <<"~", "0">>, "~")
EncodeToken(token) ==
    FlattenSeq([i \in DOMAIN token |->
        CASE token[i] = "~" -> <<"~", "0">>
          [] token[i] = "/" -> <<"~", "1">>
          [] OTHER -> <<token[i]>>])
HasValidEscapes(token) ==
    \A i \in DOMAIN token :
        token[i] = "~" => i < Len(token) /\ token[i + 1] \in {"0", "1"}

(* What follows each slash. *)
RawTokens(pointer) ==
    FoldLeft(LAMBDA tokens, c :
                 IF c = "/" THEN Append(tokens, <<>>) ELSE Append(Front(tokens), Append(Last(tokens), c)),
             <<<<>>>>, Tail(pointer))

(* The reference tokens, Null for a text that is no pointer.                  *)
ParseJsonPointer(pointer) ==
    IF pointer = <<>> THEN <<>>
    ELSE IF Head(pointer) # "/" THEN Null
    ELSE LET raw == RawTokens(pointer)
         IN  IF \A i \in DOMAIN raw : HasValidEscapes(raw[i])
             THEN [i \in DOMAIN raw |-> DecodeToken(raw[i])] ELSE Null

FormatJsonPointer(tokens) ==
    FlattenSeq([i \in DOMAIN tokens |-> <<"/">> \o EncodeToken(tokens[i])])

(* Missing where it returns undefined.                                        *)
EvaluateJsonPointer(heap, document, pointer) ==
    LET tokens == ParseJsonPointer(pointer)
    IN  IF tokens = Null THEN Missing ELSE GetAtPath(heap, document, tokens)

ToUriFragment(pointer) ==
    <<"#">> \o FlattenSeq([i \in DOMAIN pointer |->
                   IF pointer[i] \in DOMAIN PercentEncoded
                   THEN PercentEncoded[pointer[i]] ELSE <<pointer[i]>>])

(* Null for a percent sign that begins no triplet of the table.               *)
DecodePercentComponent(text) ==
    LET EncodedAt(i) ==
            {c \in DOMAIN PercentEncoded : IsPrefix(PercentEncoded[c], SubSeq(text, i, Len(text)))}
        From[i \in 1..(Len(text) + 3)] ==
            IF i > Len(text) THEN <<>>
            ELSE LET encoded == EncodedAt(i)
                     rest == From[i + IF encoded = {} THEN 1 ELSE 3]
                 IN  IF (encoded = {} /\ text[i] = "%") \/ rest = Null THEN Null
                     ELSE (IF encoded = {} THEN <<text[i]>> ELSE SetToSeq(encoded)) \o rest
    IN  From[1]
FromUriFragment(fragment) ==
    LET pointer == DecodePercentComponent(
                       IF IsPrefix(<<"#">>, fragment) THEN Tail(fragment) ELSE fragment)
    IN  IF pointer # Null /\ ParseJsonPointer(pointer) # Null THEN pointer ELSE Null

-----------------------------------------------------------------------------
(* The operations of json-patch.ts on a working state [heap, root, ok]; ok is *)
(* FALSE where the code throws.                                               *)

Throw(work) == [work EXCEPT !.ok = FALSE]

(* addAtPath, and applyAdd once its value is cloned.                          *)
AddAtPath(work, path, value) ==
    IF path = <<>> THEN [work EXCEPT !.root = value]
    ELSE LET parent == GetAtPath(work.heap, work.root, Front(path))
             token == Last(path)
             length == Len(work.heap[parent].items)
             position == IF token = <<"-">> THEN length + 1 ELSE Position(token)
         IN  IF ~IsRef(work.heap, parent) THEN Throw(work)
             ELSE IF work.heap[parent].kind = "object"
             THEN [work EXCEPT !.heap[parent].items =
                                  [key \in {token} \cup DOMAIN @ |-> IF key = token THEN value ELSE @[key]]]
             ELSE IF position \notin 1..(length + 1) THEN Throw(work)
             ELSE [work EXCEPT !.heap[parent].items = InsertAt(@, position, value)]

(* removeAtPath but for the value it returns.                                 *)
RemoveAtPath(work, path) ==
    IF path = <<>> THEN Throw(work)
    ELSE LET parent == GetAtPath(work.heap, work.root, Front(path))
             token == Last(path)
         IN  IF Child(work.heap, parent, token) = Missing THEN Throw(work)
             ELSE IF work.heap[parent].kind = "array"
             THEN [work EXCEPT !.heap[parent].items = RemoveAt(@, Position(token))]
             ELSE [work EXCEPT !.heap[parent].items =
                                  [key \in DOMAIN @ \ {token} |-> @[key]]]

ApplyRemove(work, operation) == RemoveAtPath(work, operation.path)

(* Mutant: the value of the operation is not cloned. *)
ApplyAddUncloned(work, operation) == AddAtPath(work, operation.path, operation.value)
ApplyAdd(work, operation) ==
    LET copy == CloneJsonValue(work.heap, operation.value)
    IN  AddAtPath([work EXCEPT !.heap = copy.heap], operation.path, copy.value)

ApplyReplace(work, operation) ==
    LET copy == CloneJsonValue(work.heap, operation.value)
        parent == GetAtPath(work.heap, work.root, Front(operation.path))
        token == Last(operation.path)
        key == IF work.heap[parent].kind = "array" THEN Position(token) ELSE token
    IN  IF operation.path = <<>> THEN [heap |-> copy.heap, root |-> copy.value, ok |-> work.ok]
        ELSE IF Child(work.heap, parent, token) = Missing THEN Throw(work)
        ELSE [work EXCEPT !.heap = [copy.heap EXCEPT ![parent].items[key] = copy.value]]

(* Mutant: the value is added before it is removed. *)
ApplyMoveAddFirst(work, operation) ==
    LET value == GetAtPath(work.heap, work.root, operation.from)
        added == AddAtPath(work, operation.path, value)
    IN  IF value = Missing \/ ~added.ok THEN Throw(work)
        ELSE IF operation.from = operation.path THEN work
        ELSE RemoveAtPath(added, operation.from)
ApplyMove(work, operation) ==
    LET value == GetAtPath(work.heap, work.root, operation.from)
        removed == RemoveAtPath(work, operation.from)
    IN  IF operation.from = operation.path
        THEN IF value = Missing THEN Throw(work) ELSE work
        ELSE IF ~removed.ok THEN removed
        ELSE AddAtPath(removed, operation.path, value)

(* Mutant: the copy is the value itself. *)
ApplyCopyShared(work, operation) ==
    LET value == GetAtPath(work.heap, work.root, operation.from)
    IN  IF value = Missing THEN Throw(work) ELSE AddAtPath(work, operation.path, value)
ApplyCopy(work, operation) ==
    LET value == GetAtPath(work.heap, work.root, operation.from)
        copy == CloneJsonValue(work.heap, value)
    IN  IF value = Missing \/ copy.value = Missing THEN Throw(work)
        ELSE AddAtPath([work EXCEPT !.heap = copy.heap], operation.path, copy.value)

(* deepEqual compares the documents.                                          *)
ApplyTest(work, operation) ==
    LET value == GetAtPath(work.heap, work.root, operation.path)
    IN  IF value # Missing
           /\ Document(work.heap, value) = Document(work.heap, operation.value)
        THEN work ELSE Throw(work)

ApplyParsed(work, operation) ==
    CASE operation.op = "add" -> ApplyAdd(work, operation)
      [] operation.op = "remove" -> ApplyRemove(work, operation)
      [] operation.op = "replace" -> ApplyReplace(work, operation)
      [] operation.op = "move" -> ApplyMove(work, operation)
      [] operation.op = "copy" -> ApplyCopy(work, operation)
      [] operation.op = "test" -> ApplyTest(work, operation)

(* Every handler begins with the tokens of its pointers; an operation's       *)
(* pointers are equal as texts just where they are as tokens.                 *)
ParsePointerTokens(operation) ==
    [member \in DOMAIN operation |->
        IF member \in {"path", "from"} THEN ParseJsonPointer(operation[member])
        ELSE operation[member]]
ApplyOperation(work, operation) == ApplyParsed(work, ParsePointerTokens(operation))

(* What parseOperation and validateOperation ask of an operation, its op      *)
(* being one of the six.                                                      *)
IsOperation(heap, operation) ==
    /\ \A member \in {"path", "from"} \cap DOMAIN operation :
          ParseJsonPointer(operation[member]) # Null
    /\ "value" \in DOMAIN operation => IsJsonValue(heap, operation.value)

IsProperPrefixPointer(from, path) ==
    IsStrictPrefix(ParseJsonPointer(from), ParseJsonPointer(path))

(* A value is not moved into itself. *)
ValidateOperation(heap, operation) ==
    /\ IsOperation(heap, operation)
    /\ operation.op = "move" => ~IsProperPrefixPointer(operation.from, operation.path)

(* parseOperation of one that is well-formed: its value is cloned.            *)
ParseOperation(parsed, operation) ==
    IF "value" \notin DOMAIN operation
    THEN [parsed EXCEPT !.patch = Append(@, operation)]
    ELSE LET copy == CloneJsonValue(parsed.heap, operation.value)
         IN  [heap |-> copy.heap,
              patch |-> Append(parsed.patch, [operation EXCEPT !.value = copy.value])]

----------------------------------------------------------------------------
(* mergePatch of json-merge-patch.ts: the heap with the result, and the       *)
(* result.  Its checks of the depth never fail: both inputs were found to be  *)
(* within the limit, and nothing the recursion builds is deeper than both.    *)

(* validateJsonMergePatchValueInternal, which also says what is wrong.        *)
IsMergePatchValue(heap, value) == IsJsonValue(heap, value)

CloneMergePatchValue(heap, value) == CloneJsonValue(heap, value)

(* cloneJsonObject of a target that is an object, or {}. *)
NextTarget(heap, target) ==
    IF IsObject(heap, target) THEN CloneMergePatchValue(heap, target)
    ELSE [heap |-> Append(heap, [kind |-> "object", items |-> <<>>]), value |-> Len(heap) + 1]

(* The members of a patch that is an object, those of its objects included,   *)
(* an object before its members.                                              *)
MembersAt(heap, patch, depth) ==
    LET objects == {place \in Level(heap, patch)[depth] :
                       /\ IsObject(heap, At(heap, patch, place))
                       /\ \A i \in DOMAIN place : IsObject(heap, place[i][1])}
    IN  UNION {{Step(heap, patch, place, name) : name \in Keys(heap, patch, place)} :
               place \in objects}
MergeMembers(heap, patch) ==
    LET Upto[depth \in 0..MaxDepth] ==
            IF depth = 0 THEN <<>>
            ELSE Upto[depth - 1] \o SetToSeq(MembersAt(heap, patch, depth - 1))
    IN  Upto[MaxDepth]

(* Each is deleted from the result, or merged with what the result has there. *)
MergeMember(work, names, change) ==
    LET current == GetAtPath(work.heap, work.root, names)
        member == IF IsObject(work.heap, change) THEN NextTarget(work.heap, current)
                  ELSE CloneMergePatchValue(work.heap, change)
    IN  IF change = Null THEN IF current = Missing THEN work ELSE RemoveAtPath(work, names)
        ELSE AddAtPath([work EXCEPT !.heap = member.heap], names, member.value)
MergePatch(heap, target, patch) ==
    IF ~IsObject(heap, patch) THEN CloneMergePatchValue(heap, patch)
    ELSE LET start == NextTarget(heap, target)
             members == MergeMembers(heap, patch)
             Names(member) == [i \in DOMAIN member |-> member[i][2]]
             Merged[n \in 0..Len(members)] ==
                IF n = 0 THEN [heap |-> start.heap, root |-> start.value, ok |-> TRUE]
                ELSE MergeMember(Merged[n - 1], Names(members[n]), At(heap, patch, members[n]))
             result == Merged[Len(members)]
         IN  [heap |-> result.heap, value |-> result.root]
=============================================================================
