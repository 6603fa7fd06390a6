--------------------------- MODULE OpenApiRuntime ---------------------------
(* Runtime expressions, and the links and callbacks that are filled in by   *)
(* them.  An expression is [type, name, pointer]: name is the name after    *)
(* header., query. or path., pointer what follows body# (Null without it).  *)
(* Names that are not names, pointers that are not pointers and texts that  *)
(* are no expression at all are the type "malformed".                       *)
EXTENDS OpenApiParameters

Expression(type, name) == [type |-> type, name |-> name, pointer |-> Null]
Malformed == Expression("malformed", Null)

ExpressionTypes ==
    {"url", "method", "statusCode",
     "request.header", "request.query", "request.path", "request.body",
     "response.header", "response.query", "response.path", "response.body"}

IsRuntimeExpression(expression) == expression.type \in ExpressionTypes

----------------------------------------------------------------------------
(* Evaluation.  Undefined values are Null.                                  *)

FieldOf(map, name) ==
    IF map = Null THEN Null ELSE IF name \in DOMAIN map THEN map[name] ELSE Null

(* Field names in the model that differ only in case share FoldCase(name); the  *)
(* first field with the folded name answers.                                *)
CONSTANT FoldCase(_)
ReadHeader(headers, name, caseInsensitive) ==
    IF headers = Null THEN Null
    ELSE LET index == SelectInSeq(headers, LAMBDA field :
                 IF caseInsensitive THEN FoldCase(field.name) = FoldCase(name)
                 ELSE field.name = name)
         IN  IF index = 0 THEN Null ELSE headers[index].value

(* parsePathParameterMap: the ";name=value" parts of every segment of a raw *)
(* path; what cannot be decoded is passed over, the last of a name stands.  *)
MatrixParts(segment) ==
    LET parts == SplitAt(segment, Raw(";"))
    IN  [i \in 1..Len(parts) - 1 |-> ReadAssignment(parts[i + 1])]
ParsePathParameterMap(segments) ==
    LET all == SelectSeq(FlattenSeq([i \in DOMAIN segments |-> MatrixParts(segments[i])]),
                         LAMBDA read : read # Null)
    IN  FoldLeft(LAMBDA map, read : (read.key :> Primitive(read.value)) @@ map, <<>>, all)

(* A path is a raw text (its segments) or already a map of values. *)
ReadPath(path, name) ==
    IF path = Null THEN Null
    ELSE IF path.kind = "map" THEN FieldOf(path.map, name)
    ELSE FieldOf(ParsePathParameterMap(path.segments), name)

(* A body is a function from pointers to values, Null for the whole. *)
ReadBody(body, pointer) == FieldOf(body, pointer)

(* A context without a response has Null there. *)
Evaluate(expression, context, options) ==
    LET type == expression.type
        request == context.request
        response == context.response
        Header(headers) ==
            ReadHeader(headers, expression.name, options.caseInsensitiveHeaders)
    IN  CASE ~IsRuntimeExpression(expression) -> Null
          [] type = "url" -> request.url
          [] type = "method" -> request.method
          [] type = "request.header" -> Header(request.headers)
          [] type = "request.query" -> FieldOf(request.query, expression.name)
          [] type = "request.path" -> ReadPath(request.path, expression.name)
          [] type = "request.body" -> ReadBody(request.body, expression.pointer)
          [] IsRuntimeExpression(expression) /\ response = Null -> Null
          [] type = "statusCode" /\ response # Null -> response.status
          [] type = "response.header" /\ response # Null -> Header(response.headers)
          [] type = "response.query" /\ response # Null ->
                FieldOf(response.query, expression.name)
          [] type = "response.path" /\ response # Null ->
                ReadPath(response.path, expression.name)
          [] type = "response.body" /\ response # Null ->
                ReadBody(response.body, expression.pointer)

----------------------------------------------------------------------------
(* Links.  The value of a link's parameter is a sequence of tokens: "text", *)
(* "open" and "close" braces, and the expressions between them.  A value    *)
(* that is one expression alone is evaluated, not spliced into text.        *)

Token(kind, value) == [kind |-> kind, value |-> value]
IsExpressionToken(token) == token.kind = "expression"

(* The text a value is spliced in as; a value that JSON cannot write (a     *)
(* function, a cycle) is Null.                                              *)
SerializeRuntimeValue(value) ==
    IF value.type = "unserializable" THEN Null ELSE value

(* What lies between a brace and the next closing one is an expression only *)
(* if it is exactly one expression token.                                   *)
RawExpression(tokens, open, close) ==
    IF close = open + 2 /\ IsExpressionToken(tokens[open + 1])
    THEN tokens[open + 1].value ELSE Malformed

Resolve(expression, context, options) ==
    LET value == Evaluate(expression, context, options)
    IN  IF value = Null THEN Null ELSE SerializeRuntimeValue(value)

NextOf(tokens, kind, from) ==
    SelectInSubSeq(tokens, from, Len(tokens), LAMBDA token : token.kind = kind)

(* The loop shared by resolveRuntimeTemplateValue and resolveOpenApiCall-   *)
(* backUrl: text is copied, each {expression} is replaced, and an issue is  *)
(* noted for each that cannot be; an opening brace without a closing one    *)
(* ends the loop.  Only a callback refuses a closing brace that stands      *)
(* alone.  The result is [chunks, issues].                                  *)
Filled(chunks, issues) == [chunks |-> chunks, issues |-> issues]
Splice(before, value, rest) ==
    IF value = Null THEN Filled(before \o rest.chunks, rest.issues + 1)
    ELSE Filled(before \o <<Token("value", value)>> \o rest.chunks, rest.issues)

LoneClose(open, close) == close # 0 /\ (open = 0 \/ close < open)

(* From a cursor to the end of the template, where "later" has what lies    *)
(* beyond the next expression.                                              *)
FillFrom(tokens, context, options, refuseLoneClose, later, cursor) ==
    LET open == NextOf(tokens, "open", cursor)
        end == NextOf(tokens, "close", open + 1)
        before == SubSeq(tokens, cursor, open - 1)
        value == Resolve(RawExpression(tokens, open, end), context, options)
    IN  IF refuseLoneClose /\ LoneClose(open, NextOf(tokens, "close", cursor)) THEN Filled(<<>>, 1)
        ELSE IF open = 0 THEN Filled(SubSeq(tokens, cursor, Len(tokens)), 0)
        ELSE IF end = 0 THEN Filled(before, 1)
        ELSE Splice(before, value, later[end + 1])
FillTemplate(tokens, context, options, refuseLoneClose) ==
    LET Fill[cursor \in 1..Len(tokens) + 1] ==
            FillFrom(tokens, context, options, refuseLoneClose, Fill, cursor)
    IN  Fill[1]

Resolved(value, issues) == [value |-> value, issues |-> issues]

(* resolveRuntimeValue: Null stands for the unresolved value. *)
HasTemplate(tokens) ==
    \E i \in 1..Len(tokens) - 1 : tokens[i].kind = "open" /\ IsExpressionToken(tokens[i + 1])
WholeValue(value) == IF value = Null THEN Resolved(Null, 1) ELSE Resolved(value, 0)
AllOrNone(filled) ==
    IF filled.issues > 0 THEN Resolved(Null, filled.issues) ELSE Resolved(filled.chunks, 0)
ResolveRuntimeValue(tokens, context, options) ==
    IF IsExpressionToken(tokens[1])
    THEN IF Len(tokens) > 1 THEN Resolved(Null, 1)
         ELSE WholeValue(Evaluate(tokens[1].value, context, options))
    ELSE IF ~HasTemplate(tokens) THEN Resolved(tokens, 0)
    ELSE AllOrNone(FillTemplate(tokens, context, options, FALSE))

EnforceResolutionMode(issues, options) == options.mode = "strict" /\ issues > 0

(* The parameters that resolve; the others are reported and left out.  In   *)
(* strict mode the first issue is thrown.                                   *)
Materialized(results, options) ==
    LET issues == SumFunction([name \in DOMAIN results |-> results[name].issues])
    IN  [parameters |-> [name \in {n \in DOMAIN results : results[n].value # Null} |->
                            results[name].value],
         issues |-> issues, throws |-> EnforceResolutionMode(issues, options)]
MaterializeLinkValues(parameters, context, options) ==
    Materialized([name \in DOMAIN parameters |->
                     ResolveRuntimeValue(parameters[name], context, options)], options)

Callback(filled, options) ==
    [url |-> IF filled.issues > 0 THEN Null ELSE filled.chunks, issues |-> filled.issues,
     throws |-> EnforceResolutionMode(filled.issues, options)]
WholeUrl(value) ==
    IF value = Null THEN Filled(<<>>, 1) ELSE Filled(<<Token("value", value)>>, 0)

(* A name of a path or query parameter may have any character but a space   *)
(* or "#", that of a header any but braces: a key that begins with such an  *)
(* expression is one expression, and its name is none the context knows.    *)
ReadsAsName(tokens) ==
    /\ Len(tokens) > 1 /\ IsExpressionToken(tokens[1])
    /\ \/ tokens[1].value.type \in {"request.query", "request.path",
                                    "response.query", "response.path"}
       \/ /\ tokens[1].value.type \in {"request.header", "response.header"}
          /\ \A i \in DOMAIN tokens : tokens[i].kind \notin {"open", "close"}

(* Mutant: a callback with an unresolved expression keeps the rest. *)
PartialCallbackUrl(tokens, context, options) ==
    LET filled == FillTemplate(tokens, context, options, TRUE)
    IN  [url |-> filled.chunks, issues |-> filled.issues,
         throws |-> EnforceResolutionMode(filled.issues, options)]
(* A callback's url is whole or Null. *)
ResolveCallbackUrl(tokens, context, options) ==
    IF ReadsAsName(tokens) THEN Callback(WholeUrl(Null), options)
    ELSE IF Len(tokens) = 1 /\ IsExpressionToken(tokens[1])
            /\ IsRuntimeExpression(tokens[1].value)
    THEN Callback(WholeUrl(Resolve(tokens[1].value, context, options)), options)
    ELSE Callback(FillTemplate(tokens, context, options, TRUE), options)
=============================================================================
