-------------------------- MODULE MessageIntegrity --------------------------
(* Message signatures and digests: the signature base of a message, the     *)
(* fields that carry signatures and digests, and their comparison.          *)
(*                                                                          *)
(* A message is [method, targetUri, authority, scheme, path, query, status, *)
(* headers, trailers, request]; what it lacks is Null, and headers map the  *)
(* names of fields to their lines.  A component is [name, params], its      *)
(* params [sf, key, bs, req, tr] with key Null or a text.                   *)
EXTENDS HeaderText

CONSTANTS
    Upper,             \* toUpperCase of words
    Decode,            \* what a percent-encoded symbol of a query stands for
    Wrap(_),           \* base64 of a line, for binary-wrapped fields
    Hash               \* the algorithms' digests: Hash[algorithm][content]

DerivedComponents == {"@method", "@target-uri", "@authority", "@scheme",
    "@request-target", "@path", "@query", "@query-param", "@status"}
NoParams == [sf |-> FALSE, key |-> Null, bs |-> FALSE, req |-> FALSE, tr |-> FALSE]
Component(name, params) == [name |-> name, params |-> params]

(* Derived names are known, names of fields are lower-case tokens. *)
IsComponentName(name) ==
    IF Len(name) > 0 /\ name[1] \in DerivedComponents THEN Len(name) = 1
    ELSE /\ name # <<>>
         /\ ToSet(name) \subseteq (TokenChars \ (UpperWords \cup {":", "/"}))

----------------------------------------------------------------------------
(* Component identifiers.                                                   *)

Flags == <<"sf", "bs", "req", "tr">>

FlagText(params, flag) == IF params[flag] THEN <<";", flag>> ELSE <<>>
KeyText(params) ==
    IF params.key = Null THEN <<>>
    ELSE Concat(<< <<";", "key", "=">>, QuotedString(params.key) >>)
FormatComponentIdentifier(component) ==
    IF ~IsComponentName(component.name) THEN Null
    ELSE Concat(<<Quoted(component.name), FlagText(component.params, "sf"),
                  KeyText(component.params), FlagText(component.params, "bs"),
                  FlagText(component.params, "req"), FlagText(component.params, "tr")>>)

(* From the parameters of an item; Null for one that is unknown or of       *)
(* another type than its own.                                               *)
ComponentParam(pair) ==
    \/ pair.key = <<"key">> /\ pair.value.type \in {"string", "token"}
    \/ pair.key \in {<<flag>> : flag \in ToSet(Flags)} /\ pair.value = True
ParseComponentParams(pairs) ==
    IF \E i \in DOMAIN pairs : ~ComponentParam(pairs[i]) THEN Null
    ELSE [sf |-> Lookup(pairs, <<"sf">>) # Null, bs |-> Lookup(pairs, <<"bs">>) # Null,
          req |-> Lookup(pairs, <<"req">>) # Null, tr |-> Lookup(pairs, <<"tr">>) # Null,
          key |-> IF Lookup(pairs, <<"key">>) = Null THEN Null
                  ELSE Lookup(pairs, <<"key">>).text]

ParseComponentFromItem(item) ==
    IF \/ item.value.type # "string" \/ ~IsComponentName(item.value.text)
       \/ ParseComponentParams(item.params) = Null
    THEN Null ELSE Component(item.value.text, ParseComponentParams(item.params))

(* The separate parser of a lone identifier.  It takes any escape, and a    *)
(* parameter only once.                                                     *)
RECURSIVE IdentifierParams(_, _)
IdentifierFlag(name, text, params) ==
    IF name = "key" \/ params[name] THEN Null
    ELSE IdentifierParams(text, [params EXCEPT ![name] = TRUE])
IdentifierKey(value, params) ==
    IF value.value = Null \/ params.key # Null THEN Null
    ELSE IdentifierParams(value.rest, [params EXCEPT !.key = value.value])
KeyValue(text) ==
    IF Starts(text, "\"") THEN QuotedRun(Tail(text), <<>>)
    ELSE LET run == RunOf(text, TokenChars)
         IN  IF run.value = <<>> THEN Read(Null, text) ELSE run
IdentifierParam(name, rest, params) ==
    IF Len(name) # 1 \/ name[1] \notin DOMAIN NoParams THEN Null
    ELSE IF ~Starts(SkipOWS(rest), "=") THEN IdentifierFlag(name[1], rest, params)
    ELSE IF name[1] # "key" THEN Null
    ELSE IdentifierKey(KeyValue(SkipOWS(Tail(SkipOWS(rest)))), params)
IdentifierName(run, params) == IdentifierParam(run.value, run.rest, params)
IdentifierParams(text, params) ==
    LET rest == SkipOWS(text)
    IN  IF rest = <<>> THEN params
        ELSE IF ~Starts(rest, ";") THEN Null
        ELSE IdentifierName(RunOf(SkipOWS(Tail(rest)), KeyChars), params)
IdentifierAfterName(name) ==
    IF name.value = Null \/ ~IsComponentName(name.value) THEN Null
    ELSE LET params == IdentifierParams(name.rest, NoParams)
         IN  IF params = Null THEN Null ELSE Component(name.value, params)
ParseComponentIdentifier(text) ==
    IF ~Starts(Trim(text), "\"") THEN Null
    ELSE IdentifierAfterName(QuotedRun(Tail(Trim(text)), <<>>))

----------------------------------------------------------------------------
(* Component values.                                                        *)

(* A fold is a line end with the blanks after it; one space takes its place *)
Folded(text, i) == text[i] = "\n" /\ i < Len(text) /\ text[i + 1] \in {" ", "\t"}
BlankOfFold(text, i) ==
    \E j \in 1..i - 1 : Folded(text, j) /\ \A k \in j + 1..i : text[k] \in {" ", "\t"}
Unfold(text) ==
    FlattenSeq([i \in DOMAIN text |->
        IF Folded(text, i) THEN <<" ">> ELSE IF BlankOfFold(text, i) THEN <<>> ELSE <<text[i]>>])
(* Mutant: folded lines are left as they are. *)
KeepFolds(lines) == Separated([i \in DOMAIN lines |-> Trim(lines[i])], <<",", " ">>)
CanonicalizeFieldValue(lines) ==
    Separated([i \in DOMAIN lines |-> Trim(Unfold(lines[i]))], <<",", " ">>)

(* Each line in base64 between colons, and the list of them in base64. *)
BinaryWrapFieldValues(lines) ==
    <<":", "(">> \o Separated([i \in DOMAIN lines |-> <<":", Wrap(Trim(lines[i])), ":">>],
                              <<",", " ">>) \o <<")", ":">>

DeriveFieldValue(context, component) ==
    LET headers == IF context = Null THEN Null
                   ELSE IF component.params.tr THEN context.trailers ELSE context.headers
    IN  IF headers = Null THEN Null
        ELSE IF component.name \notin DOMAIN headers THEN Null
        ELSE IF headers[component.name] = <<>> THEN Null
        ELSE IF component.params.bs THEN BinaryWrapFieldValues(headers[component.name])
        ELSE CanonicalizeFieldValue(headers[component.name])

UpperCase(text) == [i \in DOMAIN text |-> IF text[i] \in DOMAIN Upper THEN Upper[text[i]] ELSE text[i]]

(* URLSearchParams.get: the decoded value of the first pair of the name. *)
QueryPairs(query) ==
    LET text == IF Starts(query, "?") THEN Tail(query) ELSE query
        cuts == SetToSortSeq({0, Len(text) + 1} \cup {i \in DOMAIN text : text[i] = "&"}, <)
    IN  [k \in 1..Len(cuts) - 1 |-> SubSeq(text, cuts[k] + 1, cuts[k + 1] - 1)]
Decoded(text) == [i \in DOMAIN text |-> IF text[i] \in DOMAIN Decode THEN Decode[text[i]] ELSE text[i]]
PairName(pair) == Decoded(SubSeq(pair, 1, RunLength(pair, {c \in ToSet(pair) : c # "="})))
PairValue(pair) == Decoded(From(pair, RunLength(pair, {c \in ToSet(pair) : c # "="}) + 2))
DeriveQueryParam(query, key) ==
    IF query = Null \/ query = <<>> \/ key = Null \/ key = <<>> THEN Null
    ELSE LET pairs == QueryPairs(query)
             i == SelectInSeq(pairs, LAMBDA p : p # <<>> /\ PairName(p) = key)
         IN  IF i = 0 THEN Null ELSE PairValue(pairs[i])

(* "@request-target" takes the first character of the query for its "?". *)
RequestTarget(context) ==
    IF context.path = Null \/ context.query \in {Null, <<>>} THEN context.path
    ELSE context.path \o <<"?">> \o Tail(context.query)
QueryValue(query) ==
    IF query = Null THEN Null ELSE IF Starts(query, "?") THEN query ELSE <<"?">> \o query

DeriveDerived(context, message, component) ==
    LET name == component.name[1]
        Of(text, Case(_)) == IF text = Null THEN Null ELSE Case(text)
    IN  IF context = Null THEN Null
        ELSE CASE name = "@method" -> Of(context.method, UpperCase)
               [] name = "@target-uri" -> context.targetUri
               [] name = "@authority" -> context.authority
               [] name = "@scheme" -> Of(context.scheme, LowerCase)
               [] name = "@request-target" -> RequestTarget(context)
               [] name = "@path" -> context.path
               [] name = "@query" -> QueryValue(context.query)
               [] name = "@query-param" -> DeriveQueryParam(context.query, component.params.key)
               [] name = "@status" -> message.status

DeriveComponentValue(message, component) ==
    LET context == IF component.params.req THEN message.request ELSE message
    IN  IF ~IsComponentName(component.name) THEN Null
        ELSE IF component.name[1] \in DerivedComponents
        THEN DeriveDerived(context, message, component)
        ELSE DeriveFieldValue(context, component)

----------------------------------------------------------------------------
(* The signature base and its parameters.                                   *)

(* created and expires are numbers, the others texts; Null when absent. *)
SignatureParamNames == <<"created", "expires", "nonce", "alg", "keyid", "tag">>
IsIntegerParam(name) == name \in {"created", "expires"}
IsInteger(numeral) == "." \notin ToSet(numeral)

SignatureParamText(params, name) ==
    LET value == params[name]
    IN  IF value = Null THEN <<>>
        ELSE IF IsIntegerParam(name)
        THEN IF IsInteger(value) THEN <<";", name, "=">> \o value ELSE Null
        ELSE Concat(<< <<";", name, "=">>, QuotedString(value) >>)

BuildSignatureParamsValue(components, params) ==
    Concat(<< <<"(">>,
              Separated([i \in DOMAIN components |->
                           FormatComponentIdentifier(components[i])], <<" ">>),
              <<")">> >>
           \o [i \in DOMAIN SignatureParamNames |->
                 SignatureParamText(params, SignatureParamNames[i])])

(* Mutant: a value may hold the end of its line. *)
LineEndsPass(value) == FALSE
HoldsLineEnd(value) ==
    ToSet(value) \cap {"\n", "\r"} # {}

BaseLine(identifier, value) ==
    IF identifier = Null \/ value = Null THEN Null
    ELSE IF HoldsLineEnd(value) THEN Null
    ELSE identifier \o <<":", " ">> \o value \o <<"\n">>

Distinct(identifiers) == Cardinality(ToSet(identifiers)) = Len(identifiers)

SignatureParamsLine == Quoted(<<"@signature-params">>) \o <<":", " ">>

(* Null when a component is invalid, duplicated or missing, or when its     *)
(* value would end the line.                                                *)
CreateSignatureBase(message, components, params) ==
    LET identifiers == [i \in DOMAIN components |-> FormatComponentIdentifier(components[i])]
    IN  IF ~Distinct(identifiers) THEN Null
        ELSE Concat([i \in DOMAIN components |->
                        BaseLine(identifiers[i], DeriveComponentValue(message, components[i]))]
                    \o <<SignatureParamsLine, BuildSignatureParamsValue(components, params)>>)

----------------------------------------------------------------------------
(* The Signature-Input and Signature fields.                                *)

Pair(key, value) == [key |-> key, value |-> value]

(* The pairs that are there, in the order of the names. *)
SignatureParamPairs(params) ==
    LET present == SelectSeq(SignatureParamNames, LAMBDA name : params[name] # Null)
    IN  [i \in DOMAIN present |->
            Pair(<<present[i]>>, Bare(IF IsIntegerParam(present[i]) THEN "number" ELSE "string",
                                      params[present[i]]))]
ComponentPairs(params) ==
    LET flag(name) == IF params[name] THEN <<Pair(<<name>>, True)>> ELSE <<>>
    IN  flag("sf")
        \o (IF params.key = Null THEN <<>> ELSE <<Pair(<<"key">>, Bare("string", params.key))>>)
        \o flag("bs") \o flag("req") \o flag("tr")
ComponentItem(component) == Item(Bare("string", component.name), ComponentPairs(component.params))

SignatureInput(label, components, params) ==
    [label |-> label, components |-> components, params |-> params]
InputEntry(input) ==
    InnerList([i \in DOMAIN input.components |-> ComponentItem(input.components[i])],
              SignatureParamPairs(input.params))

(* A label that is used again takes over the place of the first one. *)
InputDict(inputs) ==
    FoldLeft(LAMBDA dict, input : Put(dict, input.label, InputEntry(input)), <<>>, inputs)
Formattable(input) ==
    /\ \A i \in DOMAIN input.components : IsComponentName(input.components[i].name)
    /\ \A name \in {"created", "expires"} :
          input.params[name] # Null => IsInteger(input.params[name])
FormatSignatureInput(inputs) ==
    IF \E i \in DOMAIN inputs : ~Formattable(inputs[i]) THEN Null
    ELSE SerializeSfDict(InputDict(inputs))

(* A mistyped created or expires is refused, another mistyped or unknown    *)
(* parameter is passed over.                                                *)
ParsedParam(pairs, name) ==
    LET bare == Lookup(pairs, <<name>>)
    IN  IF bare = Null THEN Null
        ELSE IF bare.type = (IF IsIntegerParam(name) THEN "number" ELSE "string")
        THEN bare.text ELSE Null
ParamsRefused(pairs) ==
    \E name \in {"created", "expires"} :
        LET bare == Lookup(pairs, <<name>>)
        IN  bare # Null /\ (bare.type # "number" \/ ~IsInteger(bare.text))
ParseSignatureParams(pairs) ==
    [name \in ToSet(SignatureParamNames) |-> ParsedParam(pairs, name)]

ParsedComponents(items) == [i \in DOMAIN items |-> ParseComponentFromItem(items[i])]
InputRefused(member) ==
    \/ member.kind # "list"
    \/ Null \in ToSet(ParsedComponents(member.items))
    \/ ParamsRefused(member.params)
ParseSignatureInput(text) ==
    LET dict == ParseSfDict(text)
    IN  IF dict = Null THEN Null
        ELSE IF \E i \in DOMAIN dict : InputRefused(dict[i].value) THEN Null
        ELSE [i \in DOMAIN dict |->
                SignatureInput(dict[i].key, ParsedComponents(dict[i].value.items),
                               ParseSignatureParams(dict[i].value.params))]

Signature(label, value) == [label |-> label, value |-> value]
FormatSignature(signatures) ==
    SerializeSfDict(FoldLeft(LAMBDA dict, s : Put(dict, s.label, Item(Bare("bytes", s.value), <<>>)),
                             <<>>, signatures))
ParseSignature(text) ==
    LET dict == ParseSfDict(text)
    IN  IF dict = Null THEN Null
        ELSE IF \E i \in DOMAIN dict : \/ dict[i].value.kind = "list"
                                       \/ dict[i].value.value.type # "bytes"
        THEN Null
        ELSE [i \in DOMAIN dict |-> Signature(dict[i].key, dict[i].value.value.text)]

----------------------------------------------------------------------------
(* Digest fields.                                                           *)

Digest(algorithm, value) == [algorithm |-> algorithm, value |-> value]
ActiveAlgorithms == {<<"sha-256">>, <<"sha-512">>}

(* Members that are no byte sequences are passed over. *)
ParseDigestField(text) ==
    LET dict == ParseSfDict(text)
        bytes(pair) == pair.value.kind = "item" /\ pair.value.value.type = "bytes"
    IN  IF dict = Null THEN Null
        ELSE LET kept == SelectSeq(dict, bytes)
             IN  [i \in DOMAIN kept |-> Digest(LowerCase(kept[i].key), kept[i].value.value.text)]
FormatDigestField(digests) ==
    SerializeSfDict(FoldLeft(LAMBDA dict, d : Put(dict, d.algorithm, Item(Bare("bytes", d.value), <<>>)),
                             <<>>, digests))

Weights == {<<d>> : d \in Digits} \cup {<<"1", "0">>}
Preference(algorithm, weight) == [algorithm |-> algorithm, weight |-> weight]
ParseWantDigestField(text) ==
    LET dict == ParseSfDict(text)
        weighted(pair) == /\ pair.value.kind = "item" /\ pair.value.value.type = "number"
                          /\ pair.value.value.text \in Weights
    IN  IF dict = Null THEN Null
        ELSE LET kept == SelectSeq(dict, weighted)
             IN  [i \in DOMAIN kept |-> Preference(LowerCase(kept[i].key), kept[i].value.value.text)]
FormatWantDigestField(preferences) ==
    LET kept == SelectSeq(preferences, LAMBDA p : p.weight \in Weights)
    IN  SerializeSfDict(FoldLeft(LAMBDA dict, p :
            Put(dict, p.algorithm, Item(Bare("number", p.weight), <<>>)), <<>>, kept))

(* Only the lower-case names are known to the generator, which throws for   *)
(* another one even where isActiveAlgorithm takes it.                       *)
IsActiveAlgorithm(algorithm) == LowerCase(algorithm) \in ActiveAlgorithms
GenerateDigest(content, algorithm) ==
    IF algorithm \in ActiveAlgorithms THEN Digest(algorithm, Hash[algorithm][content]) ELSE Null
ConstantTimeEqualBytes(expected, actual) == expected = actual
=============================================================================
