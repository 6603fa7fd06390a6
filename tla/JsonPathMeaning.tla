-------------------------- MODULE JsonPathMeaning ---------------------------
(* What RFC 9535 makes of a query, apart from how it is computed: in how many *)
(* ways a query leads from a value down a path, when a filter holds, and      *)
(* which values are equal.  No order, stack, counter or limit appears here.   *)
(* Objects that hold themselves are no JSON values; for them the descendants  *)
(* are those reached without passing an object twice, and equality goes on.   *)
EXTENDS JsonPathEval

SumOver(set, Weight(_)) == FoldSet(LAMBDA e, sum : Weight(e) + sum, 0, set)

HasChild(heap, value, key) == IsRef(value) /\ key \in DOMAIN heap[value.v].at
Child(heap, value, key) == heap[value.v].at[key]
Follow(heap, value, path) == FoldLeft(LAMBDA at, key : Child(heap, at, key), value, path)

RECURSIVE PathsFrom(_, _, _)
PathsFrom(heap, value, longest) ==
    {<<>>} \cup
        IF longest = 0 THEN {}
        ELSE UNION {{<<key>> \o path : path \in PathsFrom(heap, Child(heap, value, key), longest - 1)} :
                      key \in ToSet(Keys(heap, value))}

(* Equal after any number of steps down: two values that differ do so within  *)
(* as many steps as the heap has nodes.                                       *)
RECURSIVE AlikeWithin(_, _, _, _)
AlikeWithin(heap, left, right, steps) ==
    \/ left = right
    \/ /\ IsRef(left) /\ IsRef(right)
       /\ heap[left.v].kind = heap[right.v].kind
       /\ DOMAIN heap[left.v].at = DOMAIN heap[right.v].at
       /\ steps > 0 => \A key \in DOMAIN heap[left.v].at :
             AlikeWithin(heap, Child(heap, left, key), Child(heap, right, key), steps - 1)
Alike(heap, left, right) == AlikeWithin(heap, left, right, Len(heap))

(* An index from the end counts back from the length.                         *)
InSlice(slice, index, len) ==
    LET step == IF slice.step = Absent THEN 1 ELSE slice.step
        FromEnd(i) == IF i < 0 THEN i + len ELSE i
        Start(default) == IF slice.start = Absent THEN default ELSE FromEnd(slice.start)
        Before == slice.end # Absent => index < FromEnd(slice.end)
        After == slice.end # Absent => index > FromEnd(slice.end)
        low == IF Start(0) < 0 THEN 0 ELSE Start(0)
        high == IF Start(len - 1) >= len THEN len - 1 ELSE Start(len - 1)
    IN  \/ step > 0 /\ Before /\ \E n \in 0..len : index = low + n * step
        \/ step < 0 /\ After /\ \E n \in 0..len : index = high + n * step

RECURSIVE Ways(_, _, _, _, _), Holds(_, _, _, _)

Selects(selector, heap, root, value, key) ==
    LET array == IsKind(heap, value, "array")
        len == Len(Keys(heap, value))
    IN  /\ HasChild(heap, value, key)
        /\ CASE selector.kind = "wildcard" -> TRUE
             [] selector.kind = "name" -> ~array /\ key = selector.name
             [] selector.kind = "index" -> array /\ key.v \in {selector.index, len + selector.index}
             [] selector.kind = "slice" -> array /\ InSlice(selector, key.v, len)
             [] selector.kind = "filter" -> Holds(selector.expr, heap, root, Child(heap, value, key))

(* A descendant is reached without passing an object twice.                   *)
WaysThrough(segment, heap, root, value, path) ==
    LET passed(n) == Follow(heap, value, SubSeq(path, 1, n))
        apart == \A i, j \in 0..Len(path) - 1 : i # j => passed(i) # passed(j)
    IN  IF path = <<>> \/ (Len(path) > 1 /\ ~(segment.descend /\ apart)) THEN 0
        ELSE Cardinality({n \in DOMAIN segment.selectors :
                            Selects(segment.selectors[n], heap, root, passed(Len(path) - 1), Last(path))})

Ways(segments, heap, root, value, path) ==
    IF segments = <<>> THEN IF path = <<>> THEN 1 ELSE 0
    ELSE LET Cut(n) ==
                 LET rest == SubSeq(path, n + 1, Len(path))
                     there == Follow(heap, value, SubSeq(path, 1, n))
                     From(before) ==
                         IF before = 0 THEN 0
                         ELSE before * WaysThrough(Last(segments), heap, root, there, rest)
                 IN  From(Ways(Front(segments), heap, root, value, SubSeq(path, 1, n)))
         IN  SumOver(0..Len(path) - 1, Cut)

(* The nodes of a query in a filter: their values' paths, with how many of    *)
(* each.  Each segment goes down one step, or one for each node of the heap   *)
(* and one more.                                                              *)
WaysOf(query, heap, root, current) ==
    LET start == IF query.root = "ROOT" THEN root ELSE current
        longest == SumOver(DOMAIN query.segments,
                           LAMBDA n : IF query.segments[n].descend THEN Len(heap) + 1 ELSE 1)
        paths == {path \in PathsFrom(heap, start, longest) :
                     Ways(query.segments, heap, root, start, path) > 0}
    IN  [path \in paths |-> [value |-> Follow(heap, start, path),
                             ways |-> Ways(query.segments, heap, root, start, path)]]
CountOf(query, heap, root, current) ==
    LET found == WaysOf(query, heap, root, current)
    IN  SumOver(DOMAIN found, LAMBDA path : found[path].ways)

(* A query stands for a value only if it has exactly one node.                *)
RECURSIVE ValueOf(_, _, _, _)
ValueOf(operand, heap, root, current) ==
    LET Argument(n) == ValueOf(operand.arguments[n], heap, root, current)
        Single(query) ==
            LET found == WaysOf(query, heap, root, current)
            IN  IF CountOf(query, heap, root, current) = 1
                THEN found[CHOOSE path \in DOMAIN found : TRUE].value ELSE Nothing
        Matches == /\ Argument(1).type = "string" /\ Argument(2).type = "string"
                   /\ Regex[Argument(2).v].valid
                   /\ Argument(1).v \in IF operand.name = "match" THEN Regex[Argument(2).v].full
                                        ELSE Regex[Argument(2).v].part
    IN  CASE operand.kind = "literal" -> operand.value
          [] operand.kind = "query" -> Single(operand)
          [] operand.name = "count" -> Num(CountOf(operand.arguments[1], heap, root, current))
          [] operand.name = "value" -> Single(operand.arguments[1])
          [] operand.name = "length" ->
                CASE Argument(1).type = "string" -> Num(StringLength[Argument(1).v])
                  [] IsRef(Argument(1)) -> Num(Cardinality(DOMAIN heap[Argument(1).v].at))
                  [] OTHER -> Nothing
          [] OTHER -> Bool(Matches)

(* RFC 9535 2.3.5.2.2: nothing equals nothing, != is the negation of ==, and  *)
(* <= is < or ==, for values that have no order too.                          *)
HasOrder(value) == value.type \in {"number", "string"}
Less(left, right) == left.type = right.type /\ HasOrder(left) /\ left.v < right.v
Relates(operator, heap, left, right) ==
    CASE operator = "EQ" -> Alike(heap, left, right)
      [] operator = "NE" -> ~Alike(heap, left, right)
      [] operator = "LT" -> Less(left, right)
      [] operator = "GT" -> Less(right, left)
      [] operator = "LE" -> Less(left, right) \/ Alike(heap, left, right)
      [] operator = "GE" -> Less(right, left) \/ Alike(heap, left, right)

Holds(expr, heap, root, current) ==
    CASE expr.kind = "or" -> \E n \in DOMAIN expr.operands : Holds(expr.operands[n], heap, root, current)
      [] expr.kind = "and" -> \A n \in DOMAIN expr.operands : Holds(expr.operands[n], heap, root, current)
      [] expr.kind = "not" -> ~Holds(expr.operand, heap, root, current)
      [] expr.kind = "test" -> DOMAIN WaysOf(expr.query, heap, root, current) # {}
      [] expr.kind = "function" -> ValueOf(expr, heap, root, current) = Bool(TRUE)
      [] expr.kind = "comparison" ->
            Relates(expr.operator, heap, ValueOf(expr.left, heap, root, current),
                    ValueOf(expr.right, heap, root, current))

-----------------------------------------------------------------------------
(* Where compare of evaluator.ts departs from this: it answers false whenever *)
(* a side is Nothing, and to <= and >= of values that have no order.          *)
Departs(operator, heap, left, right) ==
    /\ Relates(operator, heap, left, right)
    /\ Nothing \in {left, right} \/ (operator \in {"LE", "GE"} /\ ~HasOrder(left))

(* The values a filter can be asked about.                                    *)
Standing(heap) == UNION {Range(heap[n].at) : n \in DOMAIN heap}

(* The filters of the segments, and those within them, compare a pair on      *)
(* which the library departs.                                                 *)
RECURSIVE DepartsIn(_, _, _)
DepartingSegments(segments, heap, root) ==
    \E n \in DOMAIN segments : \E selector \in ToSet(segments[n].selectors) :
        selector.kind = "filter" /\ DepartsIn(selector.expr, heap, root)
DepartsIn(it, heap, root) ==
    CASE it.kind \in {"or", "and"} -> \E n \in DOMAIN it.operands : DepartsIn(it.operands[n], heap, root)
      [] it.kind = "not" -> DepartsIn(it.operand, heap, root)
      [] it.kind = "test" -> DepartingSegments(it.query.segments, heap, root)
      [] it.kind = "query" -> DepartingSegments(it.segments, heap, root)
      [] it.kind = "function" -> \E n \in DOMAIN it.arguments : DepartsIn(it.arguments[n], heap, root)
      [] it.kind = "literal" -> FALSE
      [] it.kind = "comparison" ->
            \/ DepartsIn(it.left, heap, root) \/ DepartsIn(it.right, heap, root)
            \/ \E current \in Standing(heap) :
                  Departs(it.operator, heap, ValueOf(it.left, heap, root, current),
                          ValueOf(it.right, heap, root, current))
=============================================================================
