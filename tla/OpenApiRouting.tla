--------------------------- MODULE OpenApiRouting ---------------------------
(* Path templates, the matcher compiled from a document's paths, the        *)
(* servers a call may go to, and the lint rules about templates.            *)
(*                                                                          *)
(* A segment of a template is "literal" (its text), "param" ("{name}", the  *)
(* whole segment) or "mixed" (a "{name}" inside other text): the matcher    *)
(* takes a mixed segment for a literal, the lint rules see its placeholder. *)
(* Empty segments are dropped by splitPathSegments, so that a trailing      *)
(* slash only distinguishes the texts of two templates.                     *)
EXTENDS OpenApiParameters, FiniteSets

Literal(text) == [kind |-> "literal", name |-> text]
Param(name) == [kind |-> "param", name |-> name]
Mixed(name) == [kind |-> "mixed", name |-> name]

----------------------------------------------------------------------------
(* The matcher.                                                             *)

(* The text of a segment as it stands in the template. *)
LiteralText(segment) ==
    IF segment.kind = "mixed"
    THEN RawText(<<"{">> \o segment.name \o <<"}", "z">>) ELSE RawText(segment.name)

IsTemplated(segments) == \E i \in DOMAIN segments : segments[i].kind = "param"

LiteralCount(segments) == Cardinality({i \in DOMAIN segments : segments[i].kind # "param"})

(* The order of the texts of two templates, which decides last. *)
CONSTANT Collation(_, _)

(* comparePathCandidates: concrete paths, then more literal segments, then  *)
(* longer ones, then by text.                                               *)
ComesFirst(left, right) ==
    LET literals(p) == LiteralCount(p.segments)
    IN  IF IsTemplated(left.segments) # IsTemplated(right.segments)
        THEN ~IsTemplated(left.segments)
        ELSE IF literals(left) # literals(right) THEN literals(left) > literals(right)
        ELSE IF Len(left.segments) # Len(right.segments)
        THEN Len(left.segments) > Len(right.segments)
        ELSE Collation(left, right)

(* Mutant: templates are tried in the order of the document. *)
DocumentOrder(paths) == paths
(* The entries of the document in the order in which they are tried. *)
CompilePathMatcher(paths) ==
    LET entries == ToSet(paths)
    IN  CHOOSE order \in [1..Cardinality(entries) -> entries] :
            \A i, j \in DOMAIN order :
                i < j => order[i] # order[j] /\ ComesFirst(order[i], order[j])

LowerCase(symbols) ==
    [i \in DOMAIN symbols |->
        IF symbols[i] = Raw("A") THEN Raw("a") ELSE symbols[i]]

SegmentEquals(left, right, caseSensitive) ==
    IF caseSensitive THEN left = right ELSE LowerCase(left) = LowerCase(right)

DecodeSegment(symbols, decode) ==
    IF decode THEN IfRead(DecodeComponent(symbols), RawText) ELSE symbols

SegmentMatches(segment, symbols, options) ==
    IF segment.kind = "param"
    THEN options.decodePathSegments => DecodeComponent(symbols) # Null
    ELSE SegmentEquals(LiteralText(segment), symbols, options.caseSensitive)

(* A name that stands twice in a template is bound to its last segment. *)
BoundParams(template, request, options) ==
    LET segments == template.segments
        params == {i \in DOMAIN segments : segments[i].kind = "param"}
        Names == {segments[i].name : i \in params}
        LastOf(name) == CHOOSE i \in params :
            /\ segments[i].name = name
            /\ \A j \in params : segments[j].name = name => j <= i
    IN  [name \in Names |->
            DecodeSegment(request[LastOf(name)], options.decodePathSegments)]

(* method is Null when the caller does not say. *)
CandidateMatches(template, request, method, options) ==
    /\ method # Null => method \in template.methods
    /\ Len(template.segments) = Len(request)
    /\ \A i \in DOMAIN request : SegmentMatches(template.segments[i], request[i], options)

RequestSegments(request) == SelectSeq(request, LAMBDA segment : segment # <<>>)

MatchOf(template, request, method, options) ==
    [template |-> template, params |-> BoundParams(template, request, options),
     method |-> method]

(* The first entry that fits. *)
Match(paths, request, method, options) ==
    LET entries == CompilePathMatcher(paths)
        segments == RequestSegments(request)
        index == SelectInSeq(entries,
                     LAMBDA entry : CandidateMatches(entry, segments, method, options))
    IN  IF index = 0 THEN Null ELSE MatchOf(entries[index], segments, method, options)

----------------------------------------------------------------------------
(* Servers.  An absent list is Null; an explicit list of an operation or a  *)
(* path stands even when it is empty, a blank url counts only at the root.  *)

Candidates(servers, level, ignoreBlank) ==
    LET usable == SelectSeq([i \in DOMAIN servers |->
                               [level |-> level, index |-> i, server |-> servers[i]]],
                    LAMBDA c : /\ c.server.url # Null
                               /\ ~(ignoreBlank /\ c.server.url = <<>>))
    IN  usable

DefaultServer == [url |-> <<Literal(<<"/">>)>>, variables |-> <<>>]

ListServerCandidates(rootServers, pathServers, operationServers) ==
    LET root == IF rootServers = Null THEN <<>>
                ELSE Candidates(rootServers, "root", TRUE)
    IN  CASE operationServers # Null -> Candidates(operationServers, "operation", FALSE)
          [] operationServers = Null /\ pathServers # Null ->
                Candidates(pathServers, "path", FALSE)
          [] operationServers = Null /\ pathServers = Null /\ root # <<>> -> root
          [] OTHER -> Candidates(<<DefaultServer>>, "root", FALSE)

LevelsUpTo(level) ==
    CASE level = "root" -> <<"root">>
      [] level = "path" -> <<"root", "path">>
      [] level = "operation" -> <<"root", "path", "operation">>

(* The nearest level that has a value for the variable. *)
MergeVariableOverridesByLevel(overrides, level) ==
    FoldLeft(LAMBDA merged, scope : overrides[scope] @@ merged, <<>>, LevelsUpTo(level))

(* Direct values, then those of the level and the levels around it, then    *)
(* the defaults of the document (Null where a variable has none).           *)
ResolveServerVariableValues(server, direct, overrides, level) ==
    LET defaults == [v \in {w \in DOMAIN server.variables :
                               server.variables[w].default # Null} |->
                        server.variables[v].default]
    IN  direct @@ overrides[level] @@ MergeVariableOverridesByLevel(overrides, level)
               @@ defaults

(* A variable without a value stays in the url as it is and is reported; a  *)
(* value outside the enum is reported and used.                             *)
ServerDiagnostics(server, values) ==
    {part \in ToSet(server.url) :
        /\ part.kind = "param"
        /\ \/ part.name \notin DOMAIN values
           \/ /\ part.name \in DOMAIN server.variables
              /\ server.variables[part.name].enum # {}
              /\ values[part.name] \notin server.variables[part.name].enum}

SubstituteServerVariables(server, values) ==
    [i \in DOMAIN server.url |->
        LET part == server.url[i]
        IN  IF part.kind = "param" /\ part.name \in DOMAIN values
            THEN Literal(values[part.name]) ELSE part]

ResolveServerUrl(server, direct, overrides, level) ==
    LET values == ResolveServerVariableValues(server, direct, overrides, level)
    IN  [url |-> SubstituteServerVariables(server, values),
         diagnostics |-> ServerDiagnostics(server, values), variables |-> values]

----------------------------------------------------------------------------
(* Lint rules about templates and their parameters.  A parameter of a path  *)
(* is [name, in, required], or a reference: [ref |-> key] to a component.   *)

Placeholders(template) ==
    {template.segments[i].name :
        i \in {j \in DOMAIN template.segments : template.segments[j].kind # "literal"}}

IsReference(parameter) == "ref" \in DOMAIN parameter

(* dereferenceLocalObject: references are followed until one repeats, which *)
(* it does after as many as there are components, or leads nowhere.         *)
Referred(components, p) ==
    IF IsReference(p) /\ p.ref \in DOMAIN components THEN components[p.ref] ELSE p
Dereference(components, parameter) ==
    LET Follow[n \in 0..Cardinality(DOMAIN components)] ==
            IF n = 0 THEN parameter ELSE Referred(components, Follow[n - 1])
        last == Follow[Cardinality(DOMAIN components)]
    IN  IF IsReference(last) THEN Null ELSE last

(* The path parameters a list declares, as a function from name to required;*)
(* a later declaration of a name stands for the earlier ones.               *)
PathDeclarations(components, parameters) ==
    LET declared == [i \in DOMAIN parameters |-> Dereference(components, parameters[i])]
        OfPath == {i \in DOMAIN declared : declared[i] # Null /\ declared[i].in = "path"}
        LastOf(name) == Max({i \in OfPath : declared[i].name = name})
    IN  [name \in {declared[i].name : i \in OfPath} |-> declared[LastOf(name)].required]

MergedPathDeclarations(components, template, method) ==
    PathDeclarations(components, template.parameters \o template.operations[method])

HasPotentialReference(parameters) ==
    \E i \in DOMAIN parameters : IsReference(parameters[i])

(* Mutant: a placeholder nobody declares is passed over. *)
NoneRequired(components, template) ==
    IF HasPotentialReference(template.parameters) THEN {}
    ELSE {use \in template.methods \X Placeholders(template) :
            use[2] \in DOMAIN MergedPathDeclarations(components, template, use[1])
               /\ ~MergedPathDeclarations(components, template, use[1])[use[2]]}
(* lintMissingRequiredPathParams: placeholders not declared, or optional. *)
MissingRequired(components, template) ==
    {use \in template.methods \X Placeholders(template) :
        LET declared == MergedPathDeclarations(components, template, use[1])
        IN  IF use[2] \in DOMAIN declared THEN ~declared[use[2]]
            ELSE ~HasPotentialReference(template.parameters
                                          \o template.operations[use[1]])}

(* lintPathParamNotInTemplate. *)
NotInTemplate(components, template) ==
    LET Undeclared(list) ==
            DOMAIN PathDeclarations(components, list) \ Placeholders(template)
    IN  Undeclared(template.parameters)
           \cup (UNION {Undeclared(template.operations[m]) : m \in template.methods})

(* lintPathTemplateCollisions: one shape, different names somewhere. *)
SameShape(left, right) ==
    /\ IsTemplated(left.segments) /\ IsTemplated(right.segments)
    /\ Len(left.segments) = Len(right.segments)
    /\ \A i \in DOMAIN left.segments :
          LET l == left.segments[i] r == right.segments[i]
          IN  l.kind # "param" \/ r.kind # "param" => l = r
Collide(left, right) ==
    /\ SameShape(left, right)
    /\ \E i \in DOMAIN left.segments : left.segments[i].name # right.segments[i].name
Collisions(paths) ==
    {pair \in ToSet(paths) \X ToSet(paths) : Collide(pair[1], pair[2])}

(* lintDuplicateOperationId: pairs of operations that share an identifier.  *)
OperationsOf(paths) ==
    UNION {{<<p, m>> : m \in p.methods} : p \in ToSet(paths)}
DuplicateOperationIds(paths) ==
    LET IdOf(operation) == operation[1].operationIds[operation[2]]
    IN  {pair \in OperationsOf(paths) \X OperationsOf(paths) :
            /\ pair[1] # pair[2]
            /\ IdOf(pair[1]) # Null
            /\ IdOf(pair[1]) = IdOf(pair[2])}

(* lintParameterSchemaAndContent and lintParameterContentTooManyEntries     *)
(* look at parameters that are written out, never through a reference.      *)
ParameterObjects(template) ==
    {p \in ToSet(template.parameters)
              \cup (UNION {ToSet(template.operations[m]) : m \in template.methods}) :
        ~IsReference(p)}
SchemaAndContent(paths) ==
    {p \in UNION {ParameterObjects(t) : t \in ToSet(paths)} :
        p.schema /\ p.contentEntries # Null}
TooManyContentEntries(paths) ==
    {p \in UNION {ParameterObjects(t) : t \in ToSet(paths)} :
        p.contentEntries # Null /\ p.contentEntries > 1}

(* A document as it is held: the paths are the keys of an object, so that   *)
(* their texts differ and are ordered, and a segment is known by its text.  *)
IsSequence(s) == s \in Seq(ToSet(s))
IsSegment(segment) ==
    segment \in {Literal(segment.name), Param(segment.name), Mixed(segment.name)}
IsTemplate(template) ==
    /\ IsSequence(template.segments) /\ IsSequence(template.parameters)
    /\ \A m \in template.methods : IsSequence(template.operations[m])
    /\ \A segment \in ToSet(template.segments) : IsSegment(segment)
LiteralSegments(paths) ==
    {segment \in UNION {ToSet(t.segments) : t \in ToSet(paths)} : segment.kind # "param"}
TextsDiffer(paths) ==
    /\ \A l, r \in LiteralSegments(paths) : LiteralText(l) = LiteralText(r) => l = r
    /\ \A l, r \in ToSet(paths) : l # r => (Collation(l, r) <=> ~Collation(r, l))
    /\ \A l, m, r \in ToSet(paths) : Collation(l, m) /\ Collation(m, r) => Collation(l, r)
IsDocument(document) ==
    /\ IsSequence(document.paths) /\ TextsDiffer(document.paths)
    /\ \A template \in ToSet(document.paths) : IsTemplate(template)
    /\ IsFiniteSet(DOMAIN document.components)

(* A document no rule about paths has anything to say of. *)
LintedClean(components, paths) ==
    /\ \A template \in ToSet(paths) : /\ MissingRequired(components, template) = {}
                                      /\ NotInTemplate(components, template) = {}
    /\ Collisions(paths) = {}
    /\ DuplicateOperationIds(paths) = {}
    /\ SchemaAndContent(paths) = {}
    /\ TooManyContentEntries(paths) = {}
=============================================================================
