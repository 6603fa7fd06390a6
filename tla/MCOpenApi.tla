------------------------------ MODULE MCOpenApi ------------------------------
(* Small documents and calls for OpenApiCall, in four families: every style *)
(* and value of a parameter, sets of path templates in every order,         *)
(* security requirements with credentials, and callback keys.               *)
EXTENDS OpenApiCall

z == <<"z">>
MCFold(name) == IF name = <<"location">> THEN <<"Location">> ELSE name

(* Texts of templates are compared by their first difference. *)
KindRank(segment) == CASE segment.kind = "literal" -> 1
                       [] segment.kind = "mixed" -> 2
                       [] OTHER -> 3
CharRank(c) == CASE c = "a" -> 1 [] c = "b" -> 2 [] c = "x" -> 3 [] c = "y" -> 4
                 [] OTHER -> 5
SegmentRank(segment) == 10 * KindRank(segment) + CharRank(segment.name[1])
MCCollation(left, right) ==
    LET l == left.segments r == right.segments
        differ == {i \in DOMAIN l \cap DOMAIN r : l[i] # r[i]}
        first == CHOOSE i \in differ : \A j \in differ : i <= j
    IN  IF differ = {} THEN Len(l) < Len(r) \/ (Len(l) = Len(r) /\ ~left.slash)
        ELSE SegmentRank(l[first]) < SegmentRank(r[first])

PathParameter(name) ==
    [name |-> name, in |-> "path", required |-> TRUE, schema |-> TRUE,
     contentEntries |-> Null]

TemplateOf(segments, slash, parameters, security) ==
    [segments |-> segments, slash |-> slash, methods |-> {"get"},
     parameters |-> parameters, operations |-> [m \in {"get"} |-> <<>>],
     operationIds |-> [m \in {"get"} |-> Null], servers |-> Null,
     operationServers |-> [m \in {"get"} |-> Null],
     security |-> [m \in {"get"} |-> security]]

DocumentOf(paths, security, registry) ==
    [paths |-> paths, components |-> <<>>, servers |-> Null,
     security |-> security, registry |-> registry]

NoOverrides == [root |-> <<>>, path |-> <<>>, operation |-> <<>>]
Tolerant == [mode |-> "tolerant", unknownSchemes |-> Null,
             enforceScopeDeclarations |-> FALSE]

SpecOf(in, style, explode, allowReserved, type) ==
    [name |-> z, in |-> in, style |-> style, explode |-> explode,
     allowReserved |-> allowReserved, valueType |-> type]
Simple == SpecOf("path", Null, Null, Null, "primitive")

Base == [document |-> DocumentOf(<<>>, Null, <<>>), template |-> Null, method |-> "get",
         parameter |-> Simple, value |-> Primitive(z), source |-> "query-string",
         credentials |-> <<>>, securityOptions |-> Tolerant,
         variables |-> <<>>, overrides |-> NoOverrides,
         rawPath |-> FALSE, mode |-> "tolerant", link |-> FALSE, callback |-> Null]

----------------------------------------------------------------------------
(* Parameters.                                                              *)

Fixed == TemplateOf(<<Literal(<<"u">>), Param(z)>>, FALSE, <<PathParameter(z)>>, Null)

Marks == {"z", ",", ".", " ", "|", "&", "%", "+"}
SomeTexts == {<<>>} \cup {<<c>> : c \in Marks} \cup {<<"z", ",">>, <<".", "=">>}
FewTexts == {<<>>, <<"z">>, <<",">>, <<".", "z">>, <<" ">>, <<"|">>, <<"&">>}
SomeKeys == {<<>>, <<"z">>, <<",">>, <<"=">>, <<"[">>}
SomeValues ==
    {Primitive(t) : t \in SomeTexts}
    \cup {List(items) : items \in {<<>>} \cup {<<t>> : t \in SomeTexts}
                                        \cup (FewTexts \X FewTexts)}
    \cup {Object(<<>>)}
    \cup {Object(k :> t) : k \in SomeKeys, t \in FewTexts}
    \cup {Object((k :> t) @@ (z :> u)) : k \in SomeKeys \ {z}, t \in {<<",">>, <<".">>},
                                          u \in {z, <<>>, <<"&">>}}
Styles == {Null, "simple", "label", "matrix", "form", "spaceDelimited",
           "pipeDelimited", "deepObject"}
AllSpecs ==
    {SpecOf(in, style, explode, reserved, type) :
        in \in {"query", "path", "header", "cookie"}, style \in Styles,
        explode \in {Null, TRUE, FALSE}, reserved \in {Null, TRUE},
        type \in {"primitive", "array", "object"}}
(* Defaults are tried where they are unlike what is spelled out. *)
Supported ==
    {s \in AllSpecs : /\ Normalize(s) # Null
                      /\ s.style = Null \/ s.explode # Null
                      /\ s.style = Null => s.explode = Null /\ s.valueType # "object"}
Refused == {s \in AllSpecs : Normalize(s) = Null /\ s.explode # Null /\ s.style # Null}

SourcesFor(spec) ==
    IF spec.in = "query" THEN {"query-string", "url-search-params", "entries"}
    ELSE {"query-string"}
ParameterScenario(s) ==
    \/ \E spec \in Supported, v \in SomeValues : \E source \in SourcesFor(spec) :
          /\ v.type = spec.valueType
          /\ s = [Base EXCEPT !.document.paths = <<Fixed>>, !.template = Fixed,
                             !.parameter = spec, !.value = v, !.source = source]
    \/ \E spec \in Refused :
          s = [Base EXCEPT !.document.paths = <<Fixed>>, !.template = Fixed,
                           !.parameter = spec]
    \/ \E style \in {"simple", "label", "matrix"}, t \in SomeTexts, raw \in BOOLEAN :
          s = [Base EXCEPT !.document.paths = <<Fixed>>, !.template = Fixed,
                           !.parameter = SpecOf("path", style, FALSE, Null, "primitive"),
                           !.value = Primitive(t), !.rawPath = raw, !.link = TRUE]

----------------------------------------------------------------------------
(* Path templates.                                                          *)

a == <<"a">>
b == <<"b">>
x == <<"x">>
y == <<"y">>
Shapes == {<<Literal(a)>>, <<Param(x)>>, <<Param(y)>>, <<Mixed(x)>>,
           <<Literal(a), Literal(b)>>, <<Param(x), Literal(b)>>, <<Param(y), Literal(b)>>,
           <<Literal(a), Param(y)>>, <<Param(x), Param(y)>>, <<Param(x), Param(x)>>}
NamesIn(segments) ==
    {segments[i].name : i \in {j \in DOMAIN segments : segments[j].kind # "literal"}}
Declared(segments) ==
    LET names == SetToSeq(NamesIn(segments))
    IN  [i \in DOMAIN names |-> PathParameter(names[i])]
Undeclared == [PathParameter(x) EXCEPT !.required = FALSE]
TemplatePool ==
    {TemplateOf(s, FALSE, Declared(s), Null) : s \in Shapes}
    \cup {TemplateOf(<<Param(x)>>, FALSE, <<>>, Null),
          TemplateOf(<<Param(x)>>, FALSE, <<Undeclared>>, Null),
          TemplateOf(<<Literal(b)>>, FALSE, <<PathParameter(x)>>, Null),
          TemplateOf(<<Param(x)>>, FALSE, <<[ref |-> "p"]>>, Null),
          TemplateOf(<<Param(x)>>, TRUE, <<PathParameter(x)>>, Null)}
PlainPool == {TemplateOf(t, FALSE, Declared(t), Null) : t \in Shapes}
TemplateScenario(s) ==
    \E paths \in [1..2 -> TemplatePool] \cup [1..3 -> PlainPool],
       v \in {Primitive(a), Primitive(y), Primitive(<<>>)} :
        /\ IsInjective(paths)
        /\ s = [Base EXCEPT !.document = [DocumentOf(paths, Null, <<>>) EXCEPT
                                            !.components = "p" :> PathParameter(x)],
                            !.template = paths[Len(paths)], !.value = v,
                            !.parameter = [Simple EXCEPT !.name = x]]

----------------------------------------------------------------------------
(* Security.                                                                *)

Registry == ("basic" :> [type |-> "http", scheme |-> "basic", declared |-> {}])
         @@ ("oauth" :> [type |-> "oauth2", scheme |-> Null, declared |-> {"r"}])
Requirement == {<<>>, "basic" :> {}, "oauth" :> {"r"}, "oauth" :> {"w"},
                ("basic" :> {}) @@ ("oauth" :> {"r"}), "gone" :> {},
                ("gone" :> {}) @@ ("basic" :> {})}
Lists == {<<>>} \cup {<<r>> : r \in Requirement} \cup (Requirement \X Requirement)
Credentials ==
    {<<>>, "basic" :> Told(TRUE), "basic" :> HttpCredential("basic"),
     "basic" :> HttpCredential("bearer"), "basic" :> ScopeList({"r"}),
     "oauth" :> ScopeList({}), "oauth" :> ScopeList({"r"}), "oauth" :> AccessToken({"r", "w"}),
     "oauth" :> Told(FALSE),
     ("basic" :> Told(TRUE)) @@ ("oauth" :> AccessToken({"r"}))}
SecurityOptions ==
    {[mode |-> mode, unknownSchemes |-> unknown, enforceScopeDeclarations |-> enforce] :
        mode \in {"tolerant", "strict"}, unknown \in {Null, "error", "ignore"},
        enforce \in BOOLEAN}
Guarded(security) == [Fixed EXCEPT !.security = [m \in {"get"} |-> security]]
SecurityScenario(s) ==
    \E pair \in ({Null} \X Lists) \cup ({<<"basic" :> {}>>, Null} \X {Null, Invalid, <<>>}),
       credentials \in Credentials, options \in SecurityOptions :
        s = [Base EXCEPT !.document = DocumentOf(<<Guarded(pair[2])>>, pair[1], Registry),
                         !.template = Guarded(pair[2]), !.credentials = credentials,
                         !.securityOptions = options]

----------------------------------------------------------------------------
(* Callbacks and servers.                                                   *)

TextToken == [kind |-> "text", value |-> z]
Open == [kind |-> "open", value |-> Null]
Close == [kind |-> "close", value |-> Null]
ExpressionToken(type, name) ==
    [kind |-> "expression", value |-> Expression(type, name)]
Tokens == {TextToken, Open, Close, ExpressionToken("request.path", z),
           ExpressionToken("response.header", <<"location">>),
           ExpressionToken("request.query", z), ExpressionToken("response.body", Null)}
FewTokens == {TextToken, Open, Close, ExpressionToken("request.path", z)}
CallbackKeys ==
    UNION {[1..n -> Tokens] : n \in 1..4} \cup [1..6 -> FewTokens]
        \cup {<<[kind |-> "expression", value |-> Malformed]>>,
              <<Open, [kind |-> "expression", value |-> Malformed], Close>>}
Host == Param(<<"h">>)
ServerWith(default) ==
    [url |-> <<Host, Literal(z)>>,
     variables |-> <<"h">> :> [default |-> default, enum |-> {a, b}]]
CallbackScenario(s) ==
    \E key \in CallbackKeys :
        s = [Base EXCEPT !.document.paths = <<Fixed>>, !.template = Fixed, !.callback = key]
ServerScenario(s) ==
    \E root \in {Null, <<>>, <<ServerWith(a)>>, <<[ServerWith(a) EXCEPT !.url = <<>>]>>},
       paths \in {Null, <<>>, <<ServerWith(Null)>>},
       direct \in {<<>>, <<"h">> :> b, <<"h">> :> y},
       overrides \in {NoOverrides, [NoOverrides EXCEPT !.root = <<"h">> :> b],
                      [NoOverrides EXCEPT !.root = <<"h">> :> b, !.path = <<"h">> :> a]} :
        s = [Base EXCEPT !.document = [DocumentOf(<<[Fixed EXCEPT !.servers = paths]>>,
                                                  Null, <<>>) EXCEPT !.servers = root],
                         !.template = [Fixed EXCEPT !.servers = paths],
                         !.variables = direct, !.overrides = overrides]

MCScenario(s) == \/ ParameterScenario(s) \/ TemplateScenario(s) \/ SecurityScenario(s)
                 \/ CallbackScenario(s) \/ ServerScenario(s)
=============================================================================
