---------------------------- MODULE JsonPathEval ----------------------------
(* The JSONPath parser and evaluator.  A value is [type, v]: a null, boolean, number or  *)
(* string with its rank, or a reference to a node of the heap, which is       *)
(* [kind, keys, at] with its keys in order.  env is what the code's context   *)
(* holds and does not change: heap, root, current, path and limits.  Its      *)
(* counter is the meter: visited is nodesVisited; work counts every visit and *)
(* reach their greatest depth, which the code does not keep.  Absent is also   *)
(* an option that is not given, and Null no cause.                            *)
EXTENDS Integers, SequencesExt

CONSTANTS
    Null,               \* null: nothing parsed
    Absent,             \* a slice bound that is not written
    FunctionName,       \* from the names of the built-in functions to which one it is
    MaxExpressionDepth, \* DEFAULT_MAX_EXPRESSION_DEPTH
    StringLength,   \* the length of each string, by rank
    Regex,          \* of each string as a pattern: [unsafe, valid, full, part]
    DefaultLimits   \* DEFAULT_EVAL_LIMITS: [nodes, depth, pattern, input, rejectUnsafe]

----------------------------------------------------------------------------
(* The parser, over the lexer's tokens.  A token is [type, value, integral]:  *)
(* integral says that a number was written as an integer.  Every parse gives  *)
(* [at, ast]: the token it stopped before, and what it read or Null.  As in   *)
(* the code, a parse that fails keeps the tokens it consumed.  Where the      *)
(* parser throws, at is 0: no token is there, so nothing matches.             *)

Got(at, ast) == [at |-> at, ast |-> ast]
Failed(at) == Got(at, Null)
Thrown == Failed(0)

Peek(text, at) == IF at \in DOMAIN text THEN text[at].type ELSE "EOF"
IsAtEnd(text, at) == Peek(text, at) = "EOF"

(* A parse goes on after another one that did not fail.                       *)
Then(parse, Rest(_, _)) == IF parse.ast = Null THEN parse ELSE Rest(parse.at, parse.ast)

(* Mutant: a parse does not look for the closing token.                         *)
ClosedByAnything(text, parse, type) ==
    IF parse.ast # Null THEN Got(parse.at + 1, parse.ast) ELSE Failed(parse.at)

(* parse with the next token, of this type, consumed after it.                *)
Closed(text, parse, type) ==
    IF parse.ast # Null /\ Peek(text, parse.at) = type
    THEN Got(parse.at + 1, parse.ast) ELSE Failed(parse.at)

Operator == {"EQ", "NE", "LT", "LE", "GT", "GE"}
ReturnType(name) == IF name \in {"match", "search"} THEN "logical" ELSE "value"
ArgumentTypes(name) ==
    CASE name = "length" -> <<"value">>
      [] name \in {"count", "value"} -> <<"nodes">>
      [] OTHER -> <<"value", "value">>

IsSingular(segments) ==
    \A n \in DOMAIN segments :
        /\ ~segments[n].descend
        /\ Len(segments[n].selectors) = 1
        /\ segments[n].selectors[1].kind \in {"name", "index"}

IsWellTyped(name, arguments) ==
    LET types == ArgumentTypes(name)
        TypeOf(a) == CASE a.kind = "literal" -> "value"
                       [] a.kind = "query" -> IF IsSingular(a.segments) THEN "value" ELSE "nodes"
                       [] OTHER -> ReturnType(a.name)
        Fits(a, type) == IF type = "nodes" THEN a.kind = "query" ELSE TypeOf(a) = type
    IN  /\ Len(arguments) = Len(types)
        /\ \A n \in DOMAIN types : Fits(arguments[n], types[n])

(* An integer, Absent if no number stands here.                               *)
ParseBound(text, at) ==
    IF Peek(text, at) # "NUMBER" THEN Got(at, Absent)
    ELSE IF text[at].integral THEN Got(at + 1, text[at].value.v) ELSE Failed(at + 1)

ParseIndexOrSlice(text, at) ==
    Then(ParseBound(text, at), LAMBDA colon, start :
        IF Peek(text, colon) # "COLON" THEN Got(colon, [kind |-> "index", index |-> start])
        ELSE Then(ParseBound(text, colon + 1), LAMBDA next, end :
            Then(IF Peek(text, next) = "COLON" THEN ParseBound(text, next + 1) ELSE Got(next, Absent),
                 LAMBDA stop, step :
                    Got(stop, [kind |-> "slice", start |-> start, end |-> end, step |-> step]))))

ParseLiteral(text, at) ==
    IF Peek(text, at) \in {"STRING", "NUMBER", "TRUE", "FALSE", "NULL"}
    THEN Got(at + 1, [kind |-> "literal", value |-> text[at].value]) ELSE Failed(at)

RECURSIVE ParseSegments(_, _, _, _), ParseItems(_, _, _, _, _), ParseBasicExpr(_, _, _)

(* parseSegments: ends before the first segment that does not parse.          *)
ParseSegments(text, at, depth, done) ==
    LET next == Peek(text, at)
        start == IF next = "LBRACKET" THEN at ELSE at + 1
        Selectors ==
            CASE Peek(text, start) = "LBRACKET" /\ next # "DOT" ->
                    Closed(text, ParseItems("selector", text, start + 1, depth, <<>>), "RBRACKET")
              [] Peek(text, start) = "WILDCARD" -> Got(start + 1, <<[kind |-> "wildcard"]>>)
              [] Peek(text, start) = "NAME" ->
                    Got(start + 1, <<[kind |-> "name", name |-> text[start].value]>>)
              [] OTHER -> Failed(start)
        GoOn(selectors) ==
            IF selectors.ast = Null THEN Got(selectors.at, done)
            ELSE ParseSegments(text, selectors.at, depth,
                     Append(done, [descend |-> next = "DOTDOT", selectors |-> selectors.ast]))
    IN  GoOn(IF next \in {"DOTDOT", "LBRACKET", "DOT"} THEN Selectors ELSE Failed(at))

ParseQuery(text, at, depth) ==
    Then(ParseSegments(text, at + 1, depth, <<>>), LAMBDA end, segments :
        Got(end, [kind |-> "query", root |-> Peek(text, at), segments |-> segments]))

Combined(kind, operands) ==
    IF Len(operands) > 1 THEN [kind |-> kind, operands |-> operands] ELSE Head(operands)

(* An expression in the scope of one more level.                              *)
ParseLogicalExpr(text, at, depth) ==
    IF depth = MaxExpressionDepth THEN Thrown
    ELSE Then(ParseItems("or", text, at, depth + 1, <<>>), LAMBDA end, operands :
            Got(end, Combined("or", operands)))

ParseSelector(text, at, depth) ==
    CASE Peek(text, at) = "QUESTION" ->
            Then(ParseLogicalExpr(text, at + 1, depth), LAMBDA end, expr :
                Got(end, [kind |-> "filter", expr |-> expr]))
      [] Peek(text, at) = "WILDCARD" -> Got(at + 1, [kind |-> "wildcard"])
      [] Peek(text, at) = "STRING" -> Got(at + 1, [kind |-> "name", name |-> text[at].value])
      [] Peek(text, at) \in {"NUMBER", "COLON"} -> ParseIndexOrSlice(text, at)
      [] OTHER -> Failed(at)

ParseFunctionExpr(text, at, depth) ==
    LET name == FunctionName[text[at].value]
        Arguments == IF Peek(text, at + 2) = "RPAREN" THEN Got(at + 2, <<>>)
                     ELSE ParseItems("argument", text, at + 2, depth + 1, <<>>)
    IN  IF depth = MaxExpressionDepth THEN Thrown
        ELSE IF text[at].value \notin DOMAIN FunctionName \/ Peek(text, at + 1) # "LPAREN"
        THEN Failed(at + 1)
        ELSE Then(Closed(text, Arguments, "RPAREN"), LAMBDA end, arguments :
                IF IsWellTyped(name, arguments)
                THEN Got(end, [kind |-> "function", name |-> name, arguments |-> arguments])
                ELSE Failed(end))

(* parseFunctionArg, and what parseComparable and parseComparisonOrTest read  *)
(* before they look at what it is.                                            *)
ParseOperand(text, at, depth) ==
    CASE Peek(text, at) = "NAME" -> ParseFunctionExpr(text, at, depth)
      [] Peek(text, at) \in {"ROOT", "CURRENT"} -> ParseQuery(text, at, depth)
      [] OTHER -> ParseLiteral(text, at)

ParseComparable(text, at, depth) ==
    Then(ParseOperand(text, at, depth), LAMBDA end, operand :
        IF \/ operand.kind = "function" /\ ReturnType(operand.name) # "value"
           \/ operand.kind = "query" /\ ~IsSingular(operand.segments)
        THEN Failed(end) ELSE Got(end, operand))

ParseComparisonOrTest(text, at, depth) ==
    Then(ParseOperand(text, at, depth), LAMBDA end, left :
        IF Peek(text, end) \in Operator
        THEN Then(ParseComparable(text, end + 1, depth), LAMBDA stop, right :
                IF left.kind = "query" /\ ~IsSingular(left.segments) THEN Failed(stop)
                ELSE Got(stop, [kind |-> "comparison", operator |-> Peek(text, end),
                                left |-> left, right |-> right]))
        ELSE CASE left.kind = "query" -> Got(end, [kind |-> "test", query |-> left])
               [] left.kind = "function" /\ ReturnType(left.name) = "logical" -> Got(end, left)
               [] OTHER -> Failed(end))

ParseBasicExpr(text, at, depth) ==
    CASE Peek(text, at) = "LPAREN" ->
            Closed(text, ParseLogicalExpr(text, at + 1, depth), "RPAREN")
      [] Peek(text, at) = "NOT" ->
            IF depth = MaxExpressionDepth THEN Thrown
            ELSE Then(ParseBasicExpr(text, at + 1, depth + 1), LAMBDA end, operand :
                    Got(end, [kind |-> "not", operand |-> operand]))
      [] OTHER -> ParseComparisonOrTest(text, at, depth)

ParseLogicalAndExpr(text, at, depth) ==
    Then(ParseItems("and", text, at, depth, <<>>), LAMBDA end, operands :
        Got(end, Combined("and", operands)))

(* item *( separator item ): the lists of selectors, arguments and operands.  *)
ParseItems(kind, text, at, depth, done) ==
    LET separator == CASE kind = "or" -> "OR" [] kind = "and" -> "AND" [] OTHER -> "COMMA"
        Item == CASE kind = "selector" -> ParseSelector(text, at, depth)
                  [] kind = "argument" -> ParseOperand(text, at, depth)
                  [] kind = "or" -> ParseLogicalAndExpr(text, at, depth)
                  [] kind = "and" -> ParseBasicExpr(text, at, depth)
    IN  Then(Item, LAMBDA end, item :
            IF Peek(text, end) = separator
            THEN ParseItems(kind, text, end + 1, depth, Append(done, item))
            ELSE Got(end, Append(done, item)))

(* The query's AST, Null for a query that does not parse.                     *)
ParseJsonPath(text) ==
    IF Peek(text, 1) # "ROOT" THEN Null
    ELSE Then(ParseQuery(text, 1, 0), LAMBDA end, query :
            IF end # 0 /\ IsAtEnd(text, end) THEN Got(end, query) ELSE Failed(end)).ast

----------------------------------------------------------------------------
(* The evaluator.                                                             *)

NoVisits == [visited |-> 0, work |-> 0, reach |-> 0, cause |-> Null]
Nothing == [type |-> "nothing", v |-> 0]
Num(n) == [type |-> "number", v |-> n]
Bool(b) == [type |-> "boolean", v |-> IF b THEN 1 ELSE 0]

IsRef(value) == value.type = "ref"
IsKind(heap, value, kind) == IsRef(value) /\ heap[value.v].kind = kind
Keys(heap, value) == IF IsRef(value) THEN heap[value.v].keys ELSE <<>>
ChildOf(heap, node, key) ==
    [value |-> heap[node.value.v].at[key], path |-> Append(node.path, key)]

ResolveEvalLimits(options) ==
    LET Given(limit, least) == options[limit] # Absent /\ options[limit] >= least
        Limit(limit, least) == IF Given(limit, least) THEN options[limit] ELSE DefaultLimits[limit]
    IN  [nodes |-> Limit("nodes", 1), depth |-> Limit("depth", 0),
         pattern |-> Limit("pattern", 1), input |-> Limit("input", 1),
         rejectUnsafe |-> IF options.rejectUnsafe = Absent THEN DefaultLimits.rejectUnsafe
                          ELSE options.rejectUnsafe]

(* Mutant: the check is made before the visit counts.                         *)
TrackNodeVisitLate(m, depth, limits) ==
    IF m.cause # Null THEN m
    ELSE IF depth > limits.depth THEN [m EXCEPT !.cause = "maxDepth", !.reach = depth]
    ELSE [visited |-> m.visited + 1, work |-> m.work + 1,
          reach |-> IF depth > m.reach THEN depth ELSE m.reach,
          cause |-> IF m.visited > limits.nodes THEN "maxNodesVisited" ELSE Null]

(* trackNodeVisit; a limit that is exceeded ends all work.                    *)
TrackNodeVisit(m, depth, limits) ==
    IF m.cause # Null THEN m
    ELSE IF depth > limits.depth THEN [m EXCEPT !.cause = "maxDepth", !.reach = depth]
    ELSE [visited |-> m.visited + 1, work |-> m.work + 1,
          reach |-> IF depth > m.reach THEN depth ELSE m.reach,
          cause |-> IF m.visited + 1 > limits.nodes THEN "maxNodesVisited" ELSE Null]

(* Every evaluation gives [m, out]: the meter after it, and its result.       *)
Result(m, out) == [m |-> m, out |-> out]
With(r, Rest(_, _)) == Rest(r.m, r.out)
AddResultNode(r, node, env) ==
    Result(TrackNodeVisit(r.m, Len(node.path), env.limits), Append(r.out, node))

(* The indices of an array of length len that a slice visits, in its order.   *)
SliceIndices(slice, len) ==
    LET step == IF slice.step = Absent THEN 1 ELSE slice.step
        Normalize(i) == IF i >= 0 THEN i ELSE len + i
        Clamp(i, low, high) == IF i < low THEN low ELSE IF i > high THEN high ELSE i
        nStart == Normalize(IF slice.start # Absent THEN slice.start
                            ELSE IF step >= 0 THEN 0 ELSE len - 1)
        nEnd == Normalize(IF slice.end # Absent THEN slice.end
                          ELSE IF step >= 0 THEN len ELSE -len - 1)
        first == IF step > 0 THEN Clamp(nStart, 0, len) ELSE Clamp(nStart, -1, len - 1)
        bound == IF step > 0 THEN Clamp(nEnd, 0, len) ELSE Clamp(nEnd, -1, len - 1)
        forward == SetToSortSeq({i \in first..bound - 1 : (i - first) % step = 0}, <)
        backward == SetToSortSeq({i \in bound + 1..first : (first - i) % (-step) = 0}, >)
    IN  IF step = 0 THEN <<>> ELSE IF step > 0 THEN forward ELSE backward

(* The keys of a value that a selector other than a filter selects.           *)
SelectedKeys(selector, heap, value) ==
    LET len == Len(Keys(heap, value))
        index == IF selector.index < 0 THEN len + selector.index ELSE selector.index
    IN  CASE selector.kind = "wildcard" -> Keys(heap, value)
          [] selector.kind = "name" /\ IsKind(heap, value, "object") ->
                SelectSeq(Keys(heap, value), LAMBDA key : key = selector.name)
          [] selector.kind = "index" /\ IsKind(heap, value, "array") ->
                IF index \in 0..len - 1 THEN <<Num(index)>> ELSE <<>>
          [] selector.kind = "slice" /\ IsKind(heap, value, "array") ->
                LET indices == SliceIndices(selector, len)
                IN  [n \in DOMAIN indices |-> Num(indices[n])]
          [] OTHER -> <<>>

(* deepEqual's stack of pairs, the last one first; seen are the pairs of      *)
(* references already compared.                                               *)
RECURSIVE DeepEqualLoop(_, _, _, _)
DeepEqualLoop(stack, seen, env, m) ==
    IF stack = <<>> \/ m.cause # Null THEN Result(m, TRUE)
    ELSE LET frame == Last(stack)
             left == frame.left
             right == frame.right
             tracked == TrackNodeVisit(m, frame.depth, env.limits)
             keys == Keys(env.heap, left)
             Pair(key) == [left |-> env.heap[left.v].at[key], right |-> env.heap[right.v].at[key],
                           depth |-> frame.depth + 1]
         IN  IF left = right \/ <<left, right>> \in seen
             THEN DeepEqualLoop(Front(stack), seen, env, tracked)
             ELSE IF /\ IsRef(left) /\ IsRef(right)
                     /\ env.heap[left.v].kind = env.heap[right.v].kind
                     /\ Len(keys) = Len(Keys(env.heap, right))
                     /\ ToSet(keys) \subseteq ToSet(Keys(env.heap, right))
             THEN DeepEqualLoop(Front(stack) \o [n \in DOMAIN keys |-> Pair(keys[n])],
                                seen \cup {<<left, right>>}, env, tracked)
             ELSE Result(tracked, FALSE)

Compare(left, operator, right, env, m) ==
    LET ordered == left.type = right.type /\ left.type \in {"number", "string"}
    IN  IF Nothing \in {left, right} THEN Result(m, FALSE)
        ELSE CASE operator \in {"EQ", "NE"} ->
                    With(DeepEqualLoop(<<[left |-> left, right |-> right, depth |-> 0]>>, {}, env, m),
                         LAMBDA after, equal : Result(after, equal = (operator = "EQ")))
               [] operator = "LT" -> Result(m, ordered /\ left.v < right.v)
               [] operator = "LE" -> Result(m, ordered /\ left.v <= right.v)
               [] operator = "GT" -> Result(m, ordered /\ right.v < left.v)
               [] operator = "GE" -> Result(m, ordered /\ right.v <= left.v)

EnforceRegexPolicy(pattern, input, env, m) ==
    IF \/ StringLength[pattern] > env.limits.pattern
       \/ StringLength[input] > env.limits.input
       \/ env.limits.rejectUnsafe /\ Regex[pattern].unsafe
    THEN [m EXCEPT !.cause = IF @ = Null THEN "regex" ELSE @] ELSE m

(* fnMatch and fnSearch, which differ in what the pattern must cover.          *)
FnMatch(name, value, pattern, env, m) ==
    LET regex == Regex[pattern.v]
        matched == IF name = "match" THEN regex.full ELSE regex.part
    IN  IF value.type # "string" \/ pattern.type # "string" THEN Result(m, Bool(FALSE))
        ELSE Result(EnforceRegexPolicy(pattern.v, value.v, env, m),
                    Bool(regex.valid /\ value.v \in matched))

RECURSIVE EvaluateSegments(_, _, _, _), EvaluateLogicalExpr(_, _, _), EvaluateFunction(_, _, _),
          DescendLoop(_, _, _, _, _)

(* evaluateFilterSelector: each child is tried in a copy of the context, so   *)
(* what the expression visited is forgotten before the next child.            *)
EvaluateFilterSelector(selector, node, env, m) ==
    LET Try(r, key) ==
            LET child == ChildOf(env.heap, node, key)
                tracked == TrackNodeVisit(r.m, Len(child.path), env.limits)
                inside == [env EXCEPT !.current = child.value, !.path = child.path]
                Keep(after, holds) ==
                    LET forgotten == Result([after EXCEPT !.visited = tracked.visited], r.out)
                    IN  IF holds THEN AddResultNode(forgotten, child, env) ELSE forgotten
            IN  IF r.m.cause # Null THEN r
                ELSE With(EvaluateLogicalExpr(selector.expr, inside, tracked), Keep)
    IN  FoldLeft(Try, Result(m, <<>>), Keys(env.heap, node.value))

EvaluateSelector(selector, node, env, m) ==
    IF selector.kind = "filter" THEN EvaluateFilterSelector(selector, node, env, m)
    ELSE FoldLeft(LAMBDA r, key : AddResultNode(r, ChildOf(env.heap, node, key), env),
                  Result(m, <<>>), SelectedKeys(selector, env.heap, node.value))

ApplySelectors(selectors, node, env, r) ==
    FoldLeft(LAMBDA sofar, selector :
                With(EvaluateSelector(selector, node, env, sofar.m),
                     LAMBDA m, out : Result(m, sofar.out \o out)),
             r, selectors)

(* Mutant: an object that is left stays an ancestor of what follows.           *)
NeverLeave(ancestors, node) == ancestors

(* The ancestors once an exiting frame is popped.                             *)
Leave(ancestors, node) == ancestors \ {node.value}

(* forEachDescendant: a stack of nodes to visit, the last one first, and of   *)
(* objects to leave; an object that is its own ancestor is not entered again. *)
DescendLoop(stack, ancestors, selectors, env, r) ==
    IF stack = <<>> \/ r.m.cause # Null THEN r
    ELSE LET frame == Last(stack)
             node == frame.node
             keys == Reverse(Keys(env.heap, node.value))
             tracked == TrackNodeVisit(r.m, Len(node.path), env.limits)
             below == [n \in DOMAIN keys |-> [node |-> ChildOf(env.heap, node, keys[n]),
                                              exiting |-> FALSE]]
             entered == IF IsRef(node.value) THEN <<[node |-> node, exiting |-> TRUE]>> \o below ELSE <<>>
         IN  IF frame.exiting
             THEN DescendLoop(Front(stack), Leave(ancestors, node), selectors, env, r)
             ELSE IF node.value \in ancestors THEN DescendLoop(Front(stack), ancestors, selectors, env, r)
             ELSE DescendLoop(Front(stack) \o entered,
                              IF IsRef(node.value) THEN ancestors \cup {node.value} ELSE ancestors,
                              selectors, env,
                              ApplySelectors(selectors, node, env, Result(tracked, r.out)))

EvaluateSegment(segment, nodes, env, m) ==
    FoldLeft(LAMBDA r, node :
                IF segment.descend
                THEN DescendLoop(<<[node |-> node, exiting |-> FALSE]>>, {}, segment.selectors, env, r)
                ELSE ApplySelectors(segment.selectors, node, env, r),
             Result(m, <<>>), nodes)

EvaluateSegments(segments, nodes, env, m) ==
    IF segments = <<>> THEN Result(m, nodes)
    ELSE With(EvaluateSegment(Head(segments), nodes, env, m),
              LAMBDA after, out : EvaluateSegments(Tail(segments), out, env, after))

(* evaluateFilterQuery.                                                       *)
EvaluateFilterQuery(query, env, m) ==
    LET start == IF query.root = "ROOT" THEN [value |-> env.root, path |-> <<>>]
                 ELSE [value |-> env.current, path |-> env.path]
    IN  EvaluateSegments(query.segments, <<start>>, env,
                         TrackNodeVisit(m, Len(start.path), env.limits))

OnlyValue(r) == Result(r.m, IF Len(r.out) = 1 THEN r.out[1].value ELSE Nothing)

(* evaluateComparable and evaluateFunctionArg.                                *)
EvaluateOperand(operand, env, m) ==
    CASE operand.kind = "literal" -> Result(m, operand.value)
      [] operand.kind = "query" -> OnlyValue(EvaluateFilterQuery(operand, env, m))
      [] operand.kind = "function" -> EvaluateFunction(operand, env, m)

EvaluateFunction(expr, env, m) ==
    LET Length(after, value) ==
            Result(after, CASE value.type = "string" -> Num(StringLength[value.v])
                            [] IsRef(value) -> Num(Len(Keys(env.heap, value)))
                            [] OTHER -> Nothing)
        Match(after, value) ==
            With(EvaluateOperand(expr.arguments[2], env, after),
                 LAMBDA last, pattern : FnMatch(expr.name, value, pattern, env, last))
    IN  CASE expr.name = "length" -> With(EvaluateOperand(expr.arguments[1], env, m), Length)
          [] expr.name = "count" ->
                With(EvaluateFilterQuery(expr.arguments[1], env, m),
                     LAMBDA after, nodes : Result(after, Num(Len(nodes))))
          [] expr.name = "value" -> OnlyValue(EvaluateFilterQuery(expr.arguments[1], env, m))
          [] expr.name \in {"match", "search"} ->
                With(EvaluateOperand(expr.arguments[1], env, m), Match)

EvaluateLogicalExpr(expr, env, m) ==
    CASE expr.kind = "or" ->
            FoldLeft(LAMBDA r, e : IF r.out THEN r ELSE EvaluateLogicalExpr(e, env, r.m),
                     Result(m, FALSE), expr.operands)
      [] expr.kind = "and" ->
            FoldLeft(LAMBDA r, e : IF r.out THEN EvaluateLogicalExpr(e, env, r.m) ELSE r,
                     Result(m, TRUE), expr.operands)
      [] expr.kind = "not" ->
            With(EvaluateLogicalExpr(expr.operand, env, m), LAMBDA after, out : Result(after, ~out))
      [] expr.kind = "comparison" ->
            With(EvaluateOperand(expr.left, env, m), LAMBDA between, left :
                With(EvaluateOperand(expr.right, env, between), LAMBDA after, right :
                    Compare(left, expr.operator, right, env, after)))
      [] expr.kind = "test" ->
            With(EvaluateFilterQuery(expr.query, env, m), LAMBDA after, nodes : Result(after, nodes # <<>>))
      [] expr.kind = "function" ->
            With(EvaluateFunction(expr, env, m), LAMBDA after, out : Result(after, out = Bool(TRUE)))
=============================================================================
