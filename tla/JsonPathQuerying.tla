-------------------------- MODULE JsonPathQuerying --------------------------
(* A call of the JSONPath library: queryJsonPath, with or without             *)
(* throwOnError, or a function compileJsonPath made.  The text is read and    *)
(* parsed, then its segments are applied one after the other under the call's *)
(* limits.                                                                    *)
EXTENDS JsonPathLexer

CONSTANTS
    Sentences,  \* queries that RFC 9535 says are well formed, as token sequences
    Documents,  \* the values queried
    Heap,       \* the objects they are made of
    Options,    \* the limits a caller may give
    DamagedOn,  \* the one that a damaged query is asked of
    Entries     \* the ways to call: "query", "throwOnError", "compiled"

VARIABLES
    sentence,  \* the query its author means, as tokens
    text,      \* what the library is given, as code units
    lexed,     \* what the lexer reads in it
    call,      \* [entry, options, document]
    ast,       \* the parsed query
    position,  \* how many of its segments are applied
    nodes,     \* the nodes selected so far
    meter,     \* the counter of visits
    outcome    \* "parsing", "evaluating", "nodes", "null" or "thrown"

vars == <<sentence, text, lexed, call, ast, position, nodes, meter, outcome>>

(* How a token is spelled: at even places a string is in single quotes and a  *)
(* number is short, at odd ones a string is in double quotes with \u for what *)
(* has four digits; blanks are of every kind, but never after a dot.          *)
SpelledString(units, place) ==
    IF place % 2 = 0 THEN <<"'">> \o EscapeNormalizedPathString(units) \o <<"'">>
    ELSE <<"\"">> \o FlattenSeq([n \in DOMAIN units |->
            CASE units[n] \in DOMAIN Hex -> <<"\\", "u">> \o Hex[units[n]]
              [] units[n] \in {"\"", "\\"} -> <<"\\", units[n]>>
              [] OTHER -> <<units[n]>>]) \o <<"\"">>
SpelledNumber(token, place) ==
    Decimal(token.value.v) \o IF token.integral THEN <<>>
                              ELSE IF place % 2 = 0 THEN <<".", "0">> ELSE <<"e", "0">>
SpelledToken(token, place) ==
    CASE token.type = "STRING" -> SpelledString(Spelling(token.value), place)
      [] token.type = "NUMBER" -> SpelledNumber(token, place)
      [] token.type = "NAME" -> Spelling(token.value)
      [] token.type \in {"TRUE", "FALSE", "NULL"} ->
            CHOOSE name \in DOMAIN Keywords : Keywords[name] = token.value
      [] \E pair \in DOMAIN TwoCharacterTokens : TwoCharacterTokens[pair] = token.type ->
            CHOOSE pair \in DOMAIN TwoCharacterTokens : TwoCharacterTokens[pair] = token.type
      [] OTHER -> <<CHOOSE unit \in DOMAIN SingleCharacterTokens :
                        SingleCharacterTokens[unit] = token.type>>
BlankAfter(token, place) ==
    CASE token.type \in {"DOT", "DOTDOT"} -> <<>>
      [] token.type \in {"LBRACKET", "STRING", "WILDCARD"} /\ place % 3 = 0 -> <<>>
      [] OTHER -> << <<" ", "\t", "\n", "\r">>[(place % 4) + 1] >>
Spelled(tokenized) ==
    FlattenSeq([n \in DOMAIN tokenized |->
        SpelledToken(tokenized[n], n) \o BlankAfter(tokenized[n], n)])

(* A query is also met unfinished, and with one of its units missing.         *)
Damaged(whole) == {SubSeq(whole, 1, n) : n \in 0..Len(whole) - 1}
                  \cup {RemoveAt(whole, n) : n \in DOMAIN whole}

NoOption == [nodes |-> Absent, depth |-> Absent, pattern |-> Absent, input |-> Absent,
             rejectUnsafe |-> Absent]

(* A compiled query takes no limits from the caller.                          *)
Limits == ResolveEvalLimits(IF call.entry = "compiled" THEN NoOption ELSE call.options)
Env == [heap |-> Heap, root |-> call.document, current |-> call.document, path |-> <<>>,
        limits |-> Limits]

(* What the caller gets when parsing, or a limit, ends the call.              *)
Unparsed == IF call.entry = "throwOnError" THEN "thrown" ELSE "null"
Refused == IF call.entry = "query" THEN "null" ELSE "thrown"

Init ==
    /\ sentence \in Sentences
    /\ \E whole \in {Spelled(sentence)} :
        \/ /\ text = whole
           /\ call \in [entry : Entries, options : Options, document : Documents]
        \/ /\ text \in Damaged(whole)
           /\ call \in [entry : Entries, options : {NoOption}, document : {DamagedOn}]
    /\ lexed = <<>>
    /\ ast = Null
    /\ position = 0
    /\ nodes = <<>>
    /\ meter = NoVisits
    /\ outcome = "parsing"

Parse ==
    /\ outcome = "parsing"
    /\ lexed' = Tokenize(text)
    /\ ast' = IF lexed' = Null THEN Null ELSE ParseJsonPath(lexed')
    /\ IF ast' = Null
       THEN outcome' = Unparsed /\ UNCHANGED <<nodes, meter>>
       ELSE /\ outcome' = "evaluating"
            /\ meter' = TrackNodeVisit(meter, 0, Limits)
            /\ nodes' = <<[value |-> call.document, path |-> <<>>]>>
    /\ UNCHANGED <<sentence, text, call, position>>

(* What a segment leaves, unless a limit was met.                             *)
GoOn(m, out) ==
    /\ meter' = m
    /\ nodes' = IF m.cause = Null THEN out ELSE <<>>
    /\ outcome' = IF m.cause = Null THEN outcome ELSE Refused

ApplySegment ==
    /\ outcome = "evaluating"
    /\ position < Len(ast.segments)
    /\ With(EvaluateSegment(ast.segments[position + 1], nodes, Env, meter), GoOn)
    /\ position' = position + 1
    /\ UNCHANGED <<sentence, text, lexed, call, ast>>

Return ==
    /\ outcome = "evaluating"
    /\ position = Len(ast.segments)
    /\ outcome' = "nodes"
    /\ UNCHANGED <<sentence, text, lexed, call, ast, position, nodes, meter>>

Next == Parse \/ ApplySegment \/ Return
Spec == Init /\ [][Next]_vars
-----------------------------------------------------------------------------
(* How a query is written, with every segment in brackets.                    *)
Joined(pieces, separator) ==
    FoldLeft(LAMBDA all, n : all \o (IF n = 1 THEN <<>> ELSE <<Token(separator)>>) \o pieces[n],
             <<>>, [n \in DOMAIN pieces |-> n])
Parenthesised(written) == <<Token("LPAREN")>> \o written \o <<Token("RPAREN")>>
Bound(i) == IF i = Absent THEN <<>> ELSE <<ValueToken(Num(i))>>

RECURSIVE Written(_)
WrittenSegment(segment) ==
    (IF segment.descend THEN <<Token("DOTDOT")>> ELSE <<>>)
    \o <<Token("LBRACKET")>>
    \o Joined([n \in DOMAIN segment.selectors |-> Written(segment.selectors[n])], "COMMA")
    \o <<Token("RBRACKET")>>
WrittenWithin(outer, expr) ==
    IF expr.kind = "or" \/ (expr.kind \in {"and", "comparison"} /\ outer = "not")
    THEN Parenthesised(Written(expr)) ELSE Written(expr)
Written(it) ==
    CASE it.kind = "query" ->
            <<Token(it.root)>> \o FlattenSeq([n \in DOMAIN it.segments |-> WrittenSegment(it.segments[n])])
      [] it.kind = "name" -> <<ValueToken(it.name)>>
      [] it.kind = "wildcard" -> <<Token("WILDCARD")>>
      [] it.kind = "index" -> Bound(it.index)
      [] it.kind = "slice" ->
            Bound(it.start) \o <<Token("COLON")>> \o Bound(it.end)
            \o IF it.step = Absent THEN <<>> ELSE <<Token("COLON")>> \o Bound(it.step)
      [] it.kind = "filter" -> <<Token("QUESTION")>> \o Written(it.expr)
      [] it.kind \in {"or", "and"} ->
            Joined([n \in DOMAIN it.operands |-> WrittenWithin(it.kind, it.operands[n])],
                   IF it.kind = "or" THEN "OR" ELSE "AND")
      [] it.kind = "not" -> <<Token("NOT")>> \o WrittenWithin("not", it.operand)
      [] it.kind = "test" -> Written(it.query)
      [] it.kind = "comparison" -> Written(it.left) \o <<Token(it.operator)>> \o Written(it.right)
      [] it.kind = "literal" -> <<ValueToken(it.value)>>
      [] it.kind = "function" ->
            <<NameToken(CHOOSE name \in DOMAIN FunctionName : FunctionName[name] = it.name)>>
            \o Parenthesised(Joined([n \in DOMAIN it.arguments |-> Written(it.arguments[n])], "COMMA"))

(* The same tokens with .a, .*, ..a and ..* in brackets, and a number as such. *)
InBrackets(read) ==
    LET Short(n) == n \in DOMAIN read /\ n > 1 /\ read[n].type \in {"NAME", "WILDCARD"}
                    /\ read[n - 1].type \in {"DOT", "DOTDOT"}
        Plain(token) == IF token.type = "NUMBER" THEN ValueToken(token.value) ELSE token
        Long(n) == IF Short(n)
                   THEN <<Token("LBRACKET"),
                          IF read[n].type = "NAME" THEN ValueToken(read[n].value) ELSE read[n],
                          Token("RBRACKET")>>
                   ELSE IF read[n].type = "DOT" /\ Short(n + 1) THEN <<>>
                   ELSE <<Plain(read[n])>>
    IN  FlattenSeq([n \in DOMAIN read |-> Long(n)])

IsSubsequence(short, long) ==
    LET Matched(n, token) == IF n < Len(short) /\ short[n + 1] = token THEN n + 1 ELSE n
    IN  FoldLeft(Matched, 0, long) = Len(short)
-----------------------------------------------------------------------------
Boundless == [nodes |-> 1000000, depth |-> 1000000, pattern |-> 1000000,
              input |-> 1000000, rejectUnsafe |-> FALSE]

(* A node's value is what its path leads to, and the normalized path the      *)
(* caller gets (formatNormalizedPath), asked again, gives that node and no    *)
(* other, whatever the names on the way are made of.                          *)
PathsLeadBack ==
    LET Again(path) == ParseJsonPath(Tokenize(FormatNormalizedPath(path)))
        Alone(node, query) ==
            /\ query # Null
            /\ EvaluateSegments(query.segments, <<[value |-> call.document, path |-> <<>>]>>,
                    [Env EXCEPT !.limits = Boundless], NoVisits).out = <<node>>
    IN  outcome = "nodes" =>
            \A n \in DOMAIN nodes :
                /\ nodes[n].value = Follow(Heap, call.document, nodes[n].path)
                /\ Alone(nodes[n], Again(nodes[n].path))

(* At each segment the evaluator, with its stacks of descendants and pairs,   *)
(* its index arithmetic and its short cuts, holds the nodes RFC 9535 selects, *)
(* each as often as there are ways to it, on shared and cyclic documents too. *)
(* Left out are queries with a comparison that RFC 9535 2.3.5.2.2 has true    *)
(* and compare of evaluator.ts answers with false, see Departs.               *)
SelectsExactly ==
    outcome \in {"evaluating", "nodes"} =>
        LET applied == SubSeq(ast.segments, 1, position)
            paths == PathsFrom(Heap, call.document, Limits.depth + 1)
            Found(path) == Cardinality({n \in DOMAIN nodes : nodes[n].path = path})
        IN  \/ DepartingSegments(applied, Heap, call.document)
            \/ \A path \in paths :
                   Found(path) = Ways(applied, Heap, call.document, call.document, path)

(* The whole query under no limits.                                           *)
Unlimited ==
    EvaluateSegments(ast.segments, <<[value |-> call.document, path |-> <<>>]>>,
        [Env EXCEPT !.limits = Boundless],
        [NoVisits EXCEPT !.visited = 1, !.work = 1])

IsSimple(query) ==
    \A n \in DOMAIN query.segments :
        \A k \in DOMAIN query.segments[n].selectors : query.segments[n].selectors[k].kind # "filter"

(* A call is refused only if the query needs more visits or a greater depth   *)
(* than the caller allowed, and a query without filters always then; a limit  *)
(* that makes no sense counts as the default.                                 *)
RefusedOverLimit ==
    LET Fits(over) ==
            /\ meter.cause \in {"maxDepth", "maxNodesVisited"} => over
            /\ outcome = "nodes" /\ IsSimple(ast) => ~over
            /\ outcome = "nodes" <=> meter.cause = Null
        Over(needs) == needs.work > Limits.nodes \/ needs.reach > Limits.depth
    IN  ast # Null /\ outcome \in {"null", "thrown", "nodes"} => Fits(Over(Unlimited.m))

(* A well-formed query is read as it is written, whichever quotes, escapes,   *)
(* blanks and numerals it is spelled with; of any text, what is read is in    *)
(* the text, in its order.                                                    *)
ReadsWhatIsWritten ==
    outcome # "parsing" =>
        /\ text = Spelled(sentence) =>
              lexed = sentence /\ ast # Null /\ Written(ast) = InBrackets(sentence)
        /\ ast # Null => IsSubsequence(Written(ast), InBrackets(lexed))
=============================================================================
