---------------------------- MODULE OpenApiCall ----------------------------
(* One call of an API that both sides read from the same document: the      *)
(* client resolves the server, writes a parameter into the path or a field  *)
(* and sends credentials; the server matches the path, checks the security  *)
(* of the operation, reads the parameter, and answers with a link or calls  *)
(* back.  Following the link is a second call, whose parameter was taken    *)
(* from the first one by a runtime expression.                              *)
(*                                                                          *)
(* The library's functions are the steps; that they are called in this      *)
(* order, and that the matcher is asked not to decode what the parameter    *)
(* parser decodes, is the application's part.                               *)
EXTENDS OpenApiRouting, OpenApiSecurity, OpenApiRuntime

CONSTANT IsScenario(_)    \* a document with a call of it, see MCOpenApi

VARIABLES
    scenario,    \* [document, template, method, parameter, value, ...]
    phase,
    value,       \* the parameter's value of this call
    request,     \* [path, field, credentials, servers]
    match,       \* the matcher's answer
    access,      \* the verdict of the security requirements
    argument,    \* what the server reads
    round,       \* 1, and 2 for the call that follows the link
    callback     \* the url called back, with the issues

vars == <<scenario, phase, value, request, match, access, argument, round, callback>>

Document == scenario.document
Template == scenario.template
Parameter == Normalize(scenario.parameter)

MatcherOptions == [caseSensitive |-> TRUE, decodePathSegments |-> FALSE]

(* Path segments of the call: the parameter where the template has it. *)
FilledPath(template, spec, written) ==
    [i \in DOMAIN template.segments |->
        LET segment == template.segments[i]
        IN  IF segment.kind = "param" /\ spec.in = "path" /\ segment.name = spec.name
            THEN written
            ELSE IF segment.kind = "param" THEN RawText(<<"y">>) ELSE LiteralText(segment)]

(* An operation of the document is called. *)
IsCall ==
    /\ IsDocument(Document) /\ KnownSchemes(Document.registry)
    /\ Template \in ToSet(Document.paths)
    /\ scenario.method \in Template.methods \ {Null}
    /\ scenario.callback # Null => IsSequence(scenario.callback)

Init ==
    /\ IsScenario(scenario) /\ IsCall
    /\ value = scenario.value
    /\ phase = "prepare" /\ round = 1
    /\ request = Null /\ match = Null /\ access = Null
    /\ argument = Null /\ callback = Null

ServersOf(template, method) ==
    ListServerCandidates(Document.servers, template.servers,
                         template.operationServers[method])

(* The formatter throws for a specification it does not support, and for a  *)
(* value of another type.                                                   *)
Refuse ==
    /\ phase = "prepare"
    /\ Parameter = Null \/ scenario.parameter.valueType # value.type
    /\ phase' = "refused"
    /\ UNCHANGED <<scenario, value, request, match, access, argument, round, callback>>

Prepare ==
    /\ phase = "prepare"
    /\ Parameter # Null /\ scenario.parameter.valueType = value.type
    /\ LET written == FormatParameter(Parameter, value)
           servers == ServersOf(Template, scenario.method)
       IN  request' = [path |-> FilledPath(Template, Parameter, written),
                       field |-> written,
                       credentials |-> scenario.credentials,
                       servers |-> [i \in DOMAIN servers |->
                           ResolveServerUrl(servers[i].server, scenario.variables,
                                            scenario.overrides, servers[i].level)]]
    /\ phase' = "route"
    /\ UNCHANGED <<scenario, value, match, access, argument, round, callback>>

Route ==
    /\ phase = "route"
    /\ match' = Match(Document.paths, request.path, scenario.method, MatcherOptions)
    /\ phase' = IF match' = Null THEN "notFound" ELSE "authorize"
    /\ UNCHANGED <<scenario, value, request, access, argument, round, callback>>

Security == ResolveEffectiveSecurity(Document.security,
                                     match.template.security[scenario.method])

Authorize ==
    /\ phase = "authorize"
    /\ access' = EvaluateSecurity(Security, Document.registry, request.credentials,
                                  scenario.securityOptions)
    /\ phase' = IF access'.allowed THEN "extract" ELSE "forbidden"
    /\ UNCHANGED <<scenario, value, request, match, argument, round, callback>>

(* The raw segment bound to the parameter, or the field that carries it. *)
Extract ==
    /\ phase = "extract"
    /\ LET raw == IF Parameter.in # "path" THEN request.field
                  ELSE IF Parameter.name \in DOMAIN match.params
                  THEN match.params[Parameter.name] ELSE Null
       IN  argument' = IfRead(raw, LAMBDA r : ParseParameter(Parameter, r, scenario.source))
    /\ phase' = "respond"
    /\ UNCHANGED <<scenario, value, request, match, access, round, callback>>

(* What runtime expressions see: the path as it was sent, or the parameters *)
(* the server has read from it.                                             *)
Context ==
    [request |->
        [url |-> Primitive(<<"z">>), method |-> Primitive(<<"g">>),
         path |-> IF scenario.rawPath THEN [kind |-> "raw", segments |-> request.path]
                  ELSE [kind |-> "map", map |-> Parameter.name :> argument],
         query |-> <<>>, headers |-> <<>>, body |-> <<>>],
     response |->
        [status |-> Primitive(<<"2">>), path |-> Null, query |-> <<>>,
         headers |-> <<[name |-> <<"Location">>, value |-> Primitive(<<"y">>)]>>,
         body |-> Null :> [type |-> "unserializable"]]]

RuntimeOptions == [caseInsensitiveHeaders |-> TRUE, mode |-> scenario.mode]

CallBack ==
    /\ phase = "respond"
    /\ scenario.callback # Null
    /\ callback' = ResolveCallbackUrl(scenario.callback, Context, RuntimeOptions)
    /\ phase' = "done"
    /\ UNCHANGED <<scenario, value, request, match, access, argument, round>>

(* The link's parameter is the request's own path parameter. *)
LinkParameters ==
    Parameter.name :> <<Token("expression", Expression("request.path", Parameter.name))>>
Linked == MaterializeLinkValues(LinkParameters, Context, RuntimeOptions).parameters

FollowLink ==
    /\ phase = "respond"
    /\ scenario.callback = Null /\ scenario.link
    /\ round = 1
    /\ \E linked \in {Linked} : /\ Parameter.name \in DOMAIN linked
                               /\ value' = linked[Parameter.name]
    /\ round' = 2
    /\ phase' = "prepare"
    /\ request' = Null /\ match' = Null /\ access' = Null /\ argument' = Null
    /\ UNCHANGED <<scenario, callback>>

Answer ==
    /\ phase = "respond"
    /\ scenario.callback = Null
    /\ ~scenario.link \/ round = 2 \/ Parameter.name \notin DOMAIN Linked
    /\ phase' = "done"
    /\ UNCHANGED <<scenario, value, request, match, access, argument, round, callback>>

Next == \/ Refuse \/ Prepare \/ Route \/ Authorize \/ Extract
        \/ CallBack \/ FollowLink \/ Answer

Spec == Init /\ [][Next]_vars

----------------------------------------------------------------------------
(* Properties.                                                              *)

(* A call reaches the operation it was written for: in a document the lint  *)
(* rules pass, whatever the order of its paths, the matcher answers with    *)
(* the client's template, or with one that spells out in a literal what the *)
(* client sent as a value.  comparePathCandidates decides it, and           *)
(* lintPathTemplateCollisions must report what it cannot decide.  A value   *)
(* that is written as nothing leaves no segment, and makes another path.    *)
Indistinct(left, right) ==
    left # right /\ left.segments = right.segments
Distinct == \A l, r \in ToSet(Document.paths) : ~Indistinct(l, r)
LintedRoutesHome ==
    (phase = "authorize" /\ Distinct /\ RequestSegments(request.path) = request.path
        /\ LintedClean(Document.components, Document.paths)) =>
      \/ match.template = Template
      \/ \E i \in DOMAIN Template.segments :
            Template.segments[i].kind = "param" /\ match.template.segments[i].kind # "param"

(* What the lint rules pass, the matcher can serve: the path parameters it  *)
(* binds are those the matched operation declares, unless a placeholder     *)
(* stands inside a segment, which only the lint rules see, or a parameter   *)
(* is a reference, of which they say less.                                  *)
LintedParametersAreBound ==
    (phase = "authorize" /\ LintedClean(Document.components, Document.paths)) =>
      (\/ \E i \in DOMAIN match.template.segments :
             match.template.segments[i].kind = "mixed"
       \/ DOMAIN match.params =
             DOMAIN MergedPathDeclarations(Document.components, match.template,
                                           scenario.method)
       \/ HasPotentialReference(match.template.parameters
                                \o match.template.operations[scenario.method]))

(* Between the items of a list: a delimiter that is not encoded because it  *)
(* is unreserved, or that is looked for only after decoding.                *)
Delimits(p, c) ==
    CASE p.in = "path" -> p.style = "label" /\ p.explode /\ c = "."
      [] p.in = "cookie" -> c = ","
      [] p.in = "query" /\ p.style = "deepObject" -> FALSE
      [] p.in = "query" /\ p.style # "deepObject" ->
            /\ ~p.explode /\ c = Delimiter(p.style)
            /\ scenario.source # "query-string" \/ p.allowReserved
      [] OTHER -> FALSE
(* What allowReserved leaves in a query, although the query is made of it.  *)
BreaksQuery(p, c) ==
    p.allowReserved /\ c \in (IF scenario.source = "url-search-params" THEN {"&", "+"} ELSE {"&"})

Texts(v) ==
    CASE v.type = "primitive" -> {v.text}
      [] v.type = "array" -> ToSet(v.items)
      [] v.type = "object" -> DOMAIN v.members \cup Range(v.members)
Characters(v) == UNION {ToSet(text) : text \in Texts(v)}

(* The values a style can tell apart from every other.  The list of one     *)
(* empty text is written as the empty list is; members need names, without  *)
(* brackets in a deepObject; exploded lists and objects cannot be empty,    *)
(* nor an object of a form that has been decoded; and the members of a      *)
(* form's exploded object look like other parameters, so that they are read *)
(* only from entries the caller has picked.                                 *)
Writable(p, v) ==
    /\ \A c \in Characters(v) :
          /\ ~BreaksQuery(p, c)
          /\ v.type # "primitive" => ~Delimits(p, c)
    /\ v.type = "array" => v.items # <<<<>>>> \/ (p.explode /\ p.style \in {"form", "matrix"})
    /\ v.type = "object" =>
          /\ <<>> \notin DOMAIN v.members
          /\ p.style = "deepObject" =>
                \A key \in DOMAIN v.members : {"[", "]"} \cap ToSet(key) = {}
          /\ p.style = "form" /\ p.explode => scenario.source = "entries"
    /\ v.type # "primitive" /\ Texts(v) = {} =>
          /\ ~(p.explode /\ p.style \in {"form", "matrix", "deepObject"})
          /\ v.type = "object" /\ p.in = "query" => scenario.source = "query-string"

(* The server reads the value the client wrote, whatever characters are in  *)
(* it, and reads it again after it went through a link: encoding, splitting *)
(* and decoding happen in the one order that keeps items apart.             *)
ParameterComesBack ==
    phase = "respond" /\ match.template = Template /\ Writable(Parameter, scenario.value)
        /\ (Parameter.in = "path" => Parameter.name \in DOMAIN match.params)
        /\ ~(Parameter.style = "spaceDelimited" /\ scenario.source = "query-string"
             /\ Len(scenario.value.items) > 1)
        /\ value.type = scenario.value.type
    => argument = scenario.value

(* One more credential, for a scheme that had none. *)
WithCredential(credentials, name, extra) ==
    [n \in DOMAIN credentials \cup {name} |-> IF n = name THEN extra ELSE credentials[n]]

(* Credentials a caller adds never close a door that was open, and move the *)
(* verdict of evaluateOpenApiSecurity only to an earlier requirement.       *)
MoreCredentialsNeverDeny ==
    phase = "extract" =>
        \A name \in DOMAIN Document.registry \ DOMAIN request.credentials :
          \A extra \in {Told(TRUE), HttpCredential("basic"), AccessToken({})} :
            LET more == EvaluateSecurity(Security, Document.registry,
                            WithCredential(request.credentials, name, extra),
                            scenario.securityOptions)
            IN  more.allowed /\ (more.anonymous => access.anonymous
                                   \/ more.matchedRequirementIndex
                                        < access.matchedRequirementIndex)

(* The url called back is whole: every brace encloses one expression that   *)
(* resolved, and the url is the key with each of these replaced where it    *)
(* stood and everything else in its place; any other key gives no url, nor  *)
(* does one that begins with an expression and goes on.                     *)
Resolves(token) ==
    IsExpressionToken(token) /\ Resolve(token.value, Context, RuntimeOptions) # Null
Paired(tokens) ==
    \A i \in DOMAIN tokens :
        /\ tokens[i].kind = "open" =>
              i + 2 <= Len(tokens) /\ Resolves(tokens[i + 1]) /\ tokens[i + 2].kind = "close"
        /\ tokens[i].kind = "close" => i > 2 /\ tokens[i - 2].kind = "open"
(* The tokens up to a place that are no braces, and what each becomes. *)
Plain(tokens, n) == {i \in 1..n : tokens[i].kind \notin {"open", "close"}}
Piece(tokens, i) ==
    IF i > 1 /\ tokens[i - 1].kind = "open"
    THEN Token("value", Resolve(tokens[i].value, Context, RuntimeOptions)) ELSE tokens[i]
CallbackUrlIsWhole ==
    callback # Null /\ Len(scenario.callback) # 1 =>
        LET tokens == scenario.callback
        IN  IF Paired(tokens) /\ ~ReadsAsName(tokens)
            THEN /\ Len(callback.url) = Cardinality(Plain(tokens, Len(tokens)))
                 /\ \A i \in Plain(tokens, Len(tokens)) :
                       callback.url[Cardinality(Plain(tokens, i))] = Piece(tokens, i)
            ELSE callback.url = Null
=============================================================================
