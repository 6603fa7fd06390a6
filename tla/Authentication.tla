--------------------------- MODULE Authentication ---------------------------
(* The WWW-Authenticate and Authorization fields: schemes with a token68 or *)
(* with parameters, as they are read and written, and the schemes: Basic,   *)
(* Bearer and Digest challenges and credentials, the Digest response and    *)
(* the answer to it, and the proof key of a code.                           *)
(*                                                                          *)
(* Parameters are sequences of [key, value] pairs of texts.                 *)
EXTENDS HeaderText, TLC

CONSTANTS
    Counters,      \* symbols for eight hexadecimal digits
    Invalid,       \* what becomes of a value that a parameter may not have
    Encoded,       \* base64 of texts: from the texts to the symbols of Base64
    Hash(_, _),    \* of an algorithm and a text: another text, never the same
    VerifierSize   \* 43 characters

Param(key, value) == [key |-> key, value |-> value]

(* A challenge, or credentials; token68 is Null and params are empty where  *)
(* there are none.                                                          *)
Challenge(scheme, token68, params) ==
    [scheme |-> scheme, token68 |-> token68, params |-> params]

Token68Chars == LowerWords \cup UpperWords \cup Digits \cup Base64
                \cup {"-", ".", "_", "~", "+", "/"}
IsToken68(text) ==
    LET run == RunLength(text, Token68Chars)
    IN  run > 0 /\ ToSet(From(text, run + 1)) \subseteq {"="}

----------------------------------------------------------------------------
(* Reading.                                                                 *)

TokenRun(text) == RunOf(text, HeaderTokenChars)
TokenOrQuoted(text) ==
    IF Starts(text, "\"") THEN QuotedRun(Tail(text), <<>>)
    ELSE LET run == TokenRun(text) IN IF run.value = <<>> THEN Read(Null, text) ELSE run

(* Everything up to a blank or a comma. *)
Token68Run(text) ==
    LET run == RunOf(text, ToSet(text) \ {" ", "\t", ","})
    IN  IF IsToken68(run.value) THEN run ELSE Read(Null, text)

NamedValue(name, value) ==
    IF value.value = Null THEN value
    ELSE Read(Param(LowerCase(name), value.value), SkipOWS(value.rest))
ParamAfterName(name) ==
    IF name.value = <<>> \/ ~Starts(SkipOWS(name.rest), "=") THEN Read(Null, name.rest)
    ELSE NamedValue(name.value, TokenOrQuoted(SkipOWS(Tail(SkipOWS(name.rest)))))
ReadParam(text) == ParamAfterName(TokenRun(text))

RECURSIVE ParamsFrom(_, _)
ParamsAfter(param, params) ==
    CASE param.value = Null -> Null
      [] Starts(param.rest, ",") -> ParamsFrom(SkipOWS(Tail(param.rest)), Append(params, param.value))
      [] param.rest = <<>> -> Append(params, param.value)
      [] OTHER -> Null
ParamsFrom(text, params) ==
    IF text = <<>> THEN params ELSE ParamsAfter(ReadParam(text), params)
ParseAuthParamsList(text) == ParamsFrom(SkipOWS(text), <<>>)

(* Mutant: a name after a comma is taken for a parameter. *)
AnyNameIsAParam(text) == TokenRun(SkipOWS(text)).value # <<>>
(* After a comma: another parameter, or the next challenge. *)
IsNextParam(text) ==
    LET name == TokenRun(SkipOWS(text))
    IN  name.value # <<>> /\ Starts(SkipOWS(name.rest), "=")

(* The parameters of one challenge. *)
RECURSIVE ChallengeParams(_, _)
ChallengeParamsAfter(param, params) ==
    CASE param.value = Null -> param
      [] Starts(param.rest, ",") /\ IsNextParam(Tail(param.rest)) ->
            ChallengeParams(SkipOWS(Tail(param.rest)), Append(params, param.value))
      [] OTHER -> Read(Append(params, param.value), param.rest)
ChallengeParams(text, params) ==
    IF TokenRun(text).value = <<>> THEN Read(params, text)
    ELSE ChallengeParamsAfter(ReadParam(text), params)

RECURSIVE ChallengesFrom(_, _)
SkipCommas(text) == From(text, RunLength(text, {" ", "\t", ","}) + 1)
ChallengeWithParams(scheme, params, read) ==
    IF params.value = Null THEN Null
    ELSE ChallengesFrom(SkipCommas(params.rest), Append(read, Challenge(scheme, Null, params.value)))
ChallengeAfterScheme(scheme, text, token68, read) ==
    CASE text = <<>> \/ Starts(text, ",") ->
            ChallengesFrom(SkipCommas(text), Append(read, Challenge(scheme, Null, <<>>)))
      [] token68.value # Null ->
            ChallengesFrom(SkipCommas(token68.rest), Append(read, Challenge(scheme, token68.value, <<>>)))
      [] OTHER -> ChallengeWithParams(scheme, ChallengeParams(text, <<>>), read)
ChallengeFrom(scheme, text, read) ==
    IF scheme = <<>> THEN Null ELSE ChallengeAfterScheme(scheme, text, Token68Run(text), read)
ChallengesFrom(text, read) ==
    IF text = <<>> THEN read
    ELSE LET scheme == TokenRun(text)
         IN  ChallengeFrom(scheme.value, SkipOWS(scheme.rest), read)
ParseChallenges(text) == ChallengesFrom(SkipCommas(text), <<>>)

(* A field that is not well formed offers nothing. *)
ParseWWWAuthenticate(text) ==
    LET challenges == ParseChallenges(text)
    IN  IF challenges = Null THEN <<>> ELSE challenges

CredentialsFrom(scheme, text, token68) ==
    CASE scheme = <<>> -> Null
      [] text = <<>> -> Challenge(scheme, Null, <<>>)
      [] token68.value # Null /\ SkipOWS(token68.rest) = <<>> ->
            Challenge(scheme, token68.value, <<>>)
      [] OTHER -> LET params == ParseAuthParamsList(text)
                  IN  IF params = Null THEN Null ELSE Challenge(scheme, Null, params)
CredentialsAfter(scheme, text) == CredentialsFrom(scheme, text, Token68Run(text))
ParseAuthorization(text) ==
    LET scheme == TokenRun(Trim(text)) IN CredentialsAfter(scheme.value, SkipOWS(scheme.rest))

----------------------------------------------------------------------------
(* Writing.  Null where the formatter throws.                               *)

IsNc(text) == Len(text) = 1 /\ text[1] \in Counters

BareValue(param) ==
    IF param.key = <<"nc">> THEN IsNc(param.value) ELSE IsHeaderToken(param.value)
AuthParam(param, bare) ==
    IF ~IsHeaderToken(param.key) \/ ~Mentionable(param.value) THEN Null
    ELSE IF LowerCase(param.key) \notin bare THEN param.key \o <<"=">> \o Quoted(param.value)
    ELSE IF BareValue(param) THEN param.key \o <<"=">> \o param.value
    ELSE Null
FormatAuthParamsWithBareValues(params, bare) ==
    Separated([i \in DOMAIN params |-> AuthParam(params[i], bare)], <<",", " ">>)
FormatAuthParams(params) == FormatAuthParamsWithBareValues(params, {})

SchemeWith(scheme, text) ==
    IF text = Null THEN Null ELSE scheme \o <<" ">> \o text
FormatAuthorization(challenge) ==
    IF ~IsHeaderToken(challenge.scheme) THEN Null
    ELSE IF challenge.token68 \notin {Null, <<>>}
    THEN IF Mentionable(challenge.token68) THEN SchemeWith(challenge.scheme, challenge.token68) ELSE Null
    ELSE IF challenge.params = <<>> THEN challenge.scheme
    ELSE SchemeWith(challenge.scheme, FormatAuthParams(challenge.params))
FormatWWWAuthenticate(challenges) ==
    Separated([i \in DOMAIN challenges |-> FormatAuthorization(challenges[i])], <<",", " ">>)

----------------------------------------------------------------------------
(* Parameters by schema.                                                    *)

(* What Convert makes of the value of each key, Null where it is skipped;   *)
(* Null for all of them when one is given twice or is invalid.              *)
GivenTwice(params) == Cardinality({params[i].key : i \in DOMAIN params}) # Len(params)
ValidOrNull(read) == IF \E key \in DOMAIN read : read[key] = Invalid THEN Null ELSE read
ParseAuthParamsBySchema(params, keys, Convert(_, _)) ==
    LET value(key) == LET text == Lookup(params, <<key>>)
                      IN  IF text = Null THEN Null ELSE Convert(key, text)
    IN  IF GivenTwice(params) THEN Null
        ELSE ValidOrNull([key \in ToSet(keys) |-> value(key)])
UnknownParams(params, keys) == SelectSeq(params, LAMBDA p : p.key \notin {<<key>> : key \in ToSet(keys)})

(* The values in the order of the schema; Write answers Null for one that   *)
(* is left out.                                                             *)
ParamsInOrder(texts, keys) ==
    LET written == SelectSeq(keys, LAMBDA key : texts[key] # Null)
    IN  [i \in DOMAIN written |-> Param(<<written[i]>>, texts[written[i]])]
BuildAuthParamsBySchema(source, keys, Write(_, _)) ==
    LET text(key) == IF source[key] = Null THEN Null ELSE Write(key, source[key])
    IN  ParamsInOrder([key \in ToSet(keys) |-> text(key)], keys)

----------------------------------------------------------------------------
(* The schemes.                                                             *)

(* A challenge of one scheme is read from the first of its kind. *)
FirstOfScheme(challenges, scheme) ==
    LET i == SelectInSeq(challenges, LAMBDA c : LowerCase(c.scheme) = scheme)
    IN  IF i = 0 THEN Null ELSE challenges[i]
OfScheme(challenge, scheme) ==
    challenge # Null /\ LowerCase(challenge.scheme) = scheme

Utf8 == <<"UTF-8">>
ReadCharset(text) == IF LowerCase(text) = <<"utf-8">> THEN Utf8 ELSE Null
Text(key, text) == text
NonEmpty(text) == IF text = <<>> THEN Null ELSE text

----------------------------------------------------------------------------
(* Basic.                                                                   *)

BasicChallengeKeys == <<"realm", "charset">>
ReadBasicParam(key, text) == IF key = "charset" THEN ReadCharset(text) ELSE text
ParseBasicChallenge(text) ==
    LET challenge == FirstOfScheme(ParseWWWAuthenticate(text), <<"basic">>)
    IN  IF challenge = Null \/ challenge.params = <<>> THEN Null
        ELSE LET read == ParseAuthParamsBySchema(challenge.params, BasicChallengeKeys, ReadBasicParam)
             IN  IF read = Null \/ read.realm \in {Null, <<>>} THEN Null ELSE read
FormatBasicChallenge(challenge) ==
    SchemeWith(<<"Basic">>,
               FormatAuthParams(BuildAuthParamsBySchema(challenge, BasicChallengeKeys, Text)))

Printable(text) == ToSet(text) \cap (ControlCharacters \cup {"\t"}) = {}
FormatBasicAuthorization(username, password) ==
    IF ":" \in ToSet(username) \/ ~Printable(username) \/ ~Printable(password) THEN Null
    ELSE <<"Basic", " ", Encoded[username \o <<":">> \o password]>>

(* The base64 that is not the one of its text is refused. *)
BasicPair(text) ==
    LET colon == SelectInSeq(text, LAMBDA c : c = ":")
        username == SubSeq(text, 1, colon - 1)
        password == From(text, colon + 1)
    IN  IF colon = 0 \/ ~Printable(username) \/ ~Printable(password) THEN Null
        ELSE [username |-> username, password |-> password]
ParseBasicAuthorization(text) ==
    LET parsed == ParseAuthorization(text)
        texts == {t \in DOMAIN Encoded : <<Encoded[t]>> = parsed.token68}
    IN  IF ~OfScheme(parsed, <<"basic">>) \/ parsed.token68 = Null \/ texts = {} THEN Null
        ELSE BasicPair(CHOOSE t \in texts : TRUE)

----------------------------------------------------------------------------
(* Bearer.                                                                  *)

BearerChallengeKeys == <<"realm", "scope", "error", "error_description", "error_uri">>
BEARER_ERRORS == {<<"invalid_request">>, <<"invalid_token">>, <<"insufficient_scope">>}
ReadBearerParam(key, text) == IF key = "error" /\ text \notin BEARER_ERRORS THEN Null ELSE text

(* [known, params]: params are those that the schema does not know. *)
ParseBearerChallenge(text) ==
    LET challenge == FirstOfScheme(ParseWWWAuthenticate(text), <<"bearer">>)
    IN  IF challenge = Null \/ challenge.params = <<>> THEN Null
        ELSE LET read == ParseAuthParamsBySchema(challenge.params, BearerChallengeKeys, ReadBearerParam)
             IN  IF read = Null THEN Null
                 ELSE [known |-> read, params |-> UnknownParams(challenge.params, BearerChallengeKeys)]
FormatBearerChallenge(challenge) ==
    LET params == BuildAuthParamsBySchema(challenge.known, BearerChallengeKeys, Text) \o challenge.params
    IN  IF challenge.known.error \notin BEARER_ERRORS \cup {Null} THEN Null
        ELSE IF params = <<>> THEN <<"Bearer">>
        ELSE SchemeWith(<<"Bearer">>, FormatAuthParams(params))

FormatBearerAuthorization(token) ==
    IF IsToken68(token) THEN <<"Bearer", " ">> \o token ELSE Null
ParseBearerAuthorization(text) ==
    LET parsed == ParseAuthorization(text)
    IN  IF OfScheme(parsed, <<"bearer">>) THEN parsed.token68 ELSE Null

----------------------------------------------------------------------------
(* Digest.  An algorithm is <<base>> or <<base, "-sess">>.                  *)

BaseAlgorithms == {"MD5", "SHA-256", "SHA-512-256"}
DIGEST_AUTH_ALGORITHMS == {<<a>> : a \in BaseAlgorithms} \cup {<<a, "-sess">> : a \in BaseAlgorithms}
DigestQops == {<<"auth">>, <<"auth-int">>}
IfIn(text, set) == IF text \in set THEN text ELSE Null
ReadFlag(text) == IF LowerCase(text) = <<"true">> THEN TRUE ELSE Null
WriteFlag(flag) == IF flag THEN <<"true">> ELSE Null

ReadDomain(text) == NonEmpty(SelectSeq(SplitAt(text, Blank), LAMBDA uri : uri # <<>>))
ReadQops(text) ==
    LET values == SplitAt(text, {","})
    IN  NonEmpty(SelectSeq([i \in DOMAIN values |-> Trim(values[i])], LAMBDA qop : qop \in DigestQops))

DigestChallengeKeys ==
    <<"realm", "domain", "nonce", "opaque", "stale", "algorithm", "qop", "charset", "userhash">>
ReadDigestChallengeParam(key, text) ==
    CASE key \in {"stale", "userhash"} -> ReadFlag(text)
      [] key = "charset" -> ReadCharset(text)
      [] key = "algorithm" -> IfIn(text, DIGEST_AUTH_ALGORITHMS)
      [] key = "domain" -> ReadDomain(text)
      [] key = "qop" -> ReadQops(text)
      [] key = "opaque" -> NonEmpty(text)
      [] OTHER -> text
WriteDigestChallengeParam(key, value) ==
    CASE key \in {"stale", "userhash"} -> WriteFlag(value)
      [] key = "domain" -> NonEmpty(Separated(value, <<" ">>))
      [] key = "qop" -> Separated(value, <<",", " ">>)
      [] key \in {"opaque", "charset", "algorithm"} -> NonEmpty(value)
      [] OTHER -> value

ParseDigestChallenge(challenge) ==
    IF ~OfScheme(challenge, <<"digest">>) \/ challenge.params = <<>> THEN Null
    ELSE LET read == ParseAuthParamsBySchema(challenge.params, DigestChallengeKeys, ReadDigestChallengeParam)
         IN  IF read = Null THEN Null
             ELSE IF read.realm \in {Null, <<>>} \/ read.nonce \in {Null, <<>>} THEN Null ELSE read
FormatDigestChallenge(challenge) ==
    IF \/ challenge.realm \in {Null, <<>>} \/ challenge.nonce \in {Null, <<>>}
       \/ challenge.algorithm \notin DIGEST_AUTH_ALGORITHMS \cup {Null}
       \/ challenge.qop # Null /\ (challenge.qop = <<>> \/ ~(ToSet(challenge.qop) \subseteq DigestQops))
    THEN Null
    ELSE SchemeWith(<<"Digest">>, FormatAuthParamsWithBareValues(
             BuildAuthParamsBySchema(challenge, DigestChallengeKeys, WriteDigestChallengeParam),
             {<<"algorithm">>, <<"charset">>, <<"stale">>, <<"userhash">>}))

(* Credentials.  There is no nonce among them: what it was has to be known  *)
(* from elsewhere.  The username is in one of two keys.                     *)
DigestCredentialsKeys ==
    <<"username", "username*", "realm", "uri", "response", "algorithm", "cnonce", "opaque",
      "qop", "nc", "userhash">>
ReadExtended(text) ==
    LET decoded == IF text = <<>> THEN Null ELSE DecodeExtValue(text)
    IN  IF decoded = Null THEN Invalid ELSE decoded
ReadDigestParam(key, text) ==
    CASE key = "username*" -> ReadExtended(text)
      [] key = "algorithm" -> IfIn(text, DIGEST_AUTH_ALGORITHMS)
      [] key = "qop" -> IF text \in DigestQops \cup {<<>>} THEN NonEmpty(text) ELSE Invalid
      [] key \in {"cnonce", "opaque", "nc"} -> NonEmpty(text)
      [] key = "userhash" -> ReadFlag(text)
      [] OTHER -> text
WriteDigestParam(key, value) ==
    CASE key = "username*" -> EncodeExtValue(value)
      [] key = "userhash" -> WriteFlag(value)
      [] key \in {"algorithm", "cnonce", "opaque", "qop", "nc"} -> NonEmpty(value)
      [] OTHER -> value

Countable(qop, cnonce, nc) ==
    IF qop # Null THEN cnonce # Null /\ nc # Null /\ IsNc(nc) ELSE nc # Null => IsNc(nc)
ValidCredentials(read, username) ==
    /\ read["username"] = Null \/ read["username*"] = Null
    /\ {username, read.realm, read.uri, read.response} \cap {Null, <<>>} = {}
    /\ Countable(read.qop, read.cnonce, read.nc)
Credentials(read, username) ==
    [username |-> username, usernameEncoded |-> read["username*"] # Null]
    @@ [key \in ToSet(DigestCredentialsKeys) \ {"username", "username*"} |-> read[key]]
ParseDigestAuthorization(credentials) ==
    IF ~OfScheme(credentials, <<"digest">>) \/ credentials.params = <<>> THEN Null
    ELSE LET read == ParseAuthParamsBySchema(credentials.params, DigestCredentialsKeys, ReadDigestParam)
             username == IF read["username*"] = Null THEN read["username"] ELSE read["username*"]
         IN  IF read = Null THEN Null
             ELSE IF ~ValidCredentials(read, username) THEN Null ELSE Credentials(read, username)

ByKey(credentials) ==
    [key \in ToSet(DigestCredentialsKeys) |->
        CASE key = "username" -> IF credentials.usernameEncoded THEN Null ELSE credentials.username
          [] key = "username*" -> IF credentials.usernameEncoded THEN credentials.username ELSE Null
          [] OTHER -> credentials[key]]
FormatDigestAuthorization(credentials) ==
    IF \/ {credentials.username, credentials.realm, credentials.uri, credentials.response}
             \cap {Null, <<>>} # {}
       \/ credentials.algorithm \notin DIGEST_AUTH_ALGORITHMS \cup {Null}
       \/ credentials.qop \notin DigestQops \cup {Null}
       \/ credentials.cnonce = <<>>
       \/ ~Countable(credentials.qop, credentials.cnonce, credentials.nc)
    THEN Null
    ELSE SchemeWith(<<"Digest">>, FormatAuthParamsWithBareValues(
             BuildAuthParamsBySchema(ByKey(credentials), DigestCredentialsKeys, WriteDigestParam),
             {<<"algorithm">>, <<"nc">>, <<"qop">>, <<"userhash">>, <<"username*">>}))

(* Authentication-Info. *)
DigestAuthenticationInfoKeys == <<"nextnonce", "qop", "rspauth", "cnonce", "nc">>
ReadInfoParam(key, text) ==
    CASE key = "qop" -> IfIn(text, DigestQops)
      [] key = "nc" -> IF IsNc(text) THEN text ELSE Null
      [] OTHER -> text
WriteInfoParam(key, value) == NonEmpty(value)
ParseDigestAuthenticationInfo(text) ==
    LET params == ParseAuthParamsList(Trim(text))
    IN  IF Trim(text) = <<>> \/ params = Null THEN Null
        ELSE ParseAuthParamsBySchema(params, DigestAuthenticationInfoKeys, ReadInfoParam)
FormatDigestAuthenticationInfo(info) ==
    FormatAuthParamsWithBareValues(
        BuildAuthParamsBySchema(info, DigestAuthenticationInfoKeys, WriteInfoParam),
        {<<"nc">>, <<"qop">>})

(* The response.  Null where something it needs is missing. *)
Joined(texts) == Separated(texts, <<":">>)
DefaultAlgorithm(algorithm) == IF algorithm = Null THEN <<"SHA-256">> ELSE algorithm
ComputeA1(username, realm, password, algorithm, nonce, cnonce) ==
    LET base == Joined(<<username, realm, password>>)
    IN  IF Len(algorithm) = 1 THEN base
        ELSE IF {nonce, cnonce} \cap {Null, <<>>} # {} THEN Null
        ELSE Joined(<<Hash(algorithm[1], base), nonce, cnonce>>)
(* Mutant: the method is left out. *)
AnyMethodA2(method, uri, qop) == IF qop = <<"auth-int">> THEN Null ELSE <<":">> \o uri
ComputeA2(method, uri, qop) ==
    IF qop = <<"auth-int">> THEN Null ELSE Joined(<<method, uri>>)
HashOf(algorithm, text) == IF text = Null THEN Null ELSE Hash(algorithm[1], text)
(* Mutant: the count and the client's nonce are left out. *)
UncountedData(ha1, ha2, use) == Joined(<<ha1, use.nonce, ha2>>)
ResponseData(ha1, ha2, use) ==
    IF use.qop = Null THEN Joined(<<ha1, use.nonce, ha2>>)
    ELSE IF {use.cnonce, use.nc} \cap {Null, <<>>} # {} THEN Null
    ELSE Joined(<<ha1, use.nonce, use.nc, use.cnonce, use.qop, ha2>>)
(* use is [username, realm, nonce, cnonce, nc, qop, algorithm]. *)
ComputeDigestResponse(use, password, method, uri) ==
    LET algorithm == DefaultAlgorithm(use.algorithm)
    IN  HashOf(algorithm,
               ResponseData(
                   HashOf(algorithm, ComputeA1(use.username, use.realm, password, algorithm,
                                               use.nonce, use.cnonce)),
                   HashOf(algorithm, ComputeA2(method, uri, use.qop)), use))
HashDigestUsername(username, realm, algorithm) ==
    HashOf(DefaultAlgorithm(algorithm), Joined(<<username, realm>>))

----------------------------------------------------------------------------
(* The proof key for a code: a verifier, and the challenge made from it.    *)

PKCE_METHODS == {<<"plain">>, <<"S256">>}
PkceChars == LowerWords \cup UpperWords \cup Digits \cup {"-", ".", "_", "~"}
IsPkceValue(text) ==
    Len(text) \in VerifierSize..VerifierSize + 1 /\ ToSet(text) \subseteq PkceChars
DerivePkceCodeChallenge(verifier, method) ==
    IF ~IsPkceValue(verifier) \/ method \notin PKCE_METHODS THEN Null
    ELSE IF method = <<"plain">> THEN verifier ELSE Hash("S256", verifier)
VerifyPkceCodeVerifier(verifier, challenge, method) ==
    /\ IsPkceValue(challenge)
    /\ DerivePkceCodeChallenge(verifier, method) = challenge

(* Requests are sequences of [key, value] pairs, in which a key may come    *)
(* more than once.                                                          *)
AllOf(params, key) == SelectSeq(params, LAMBDA p : p.key = key)
ParsePkceAuthorizationRequestParams(params) ==
    LET challenges == AllOf(params, <<"code_challenge">>)
        methods == AllOf(params, <<"code_challenge_method">>)
        method == IF methods = <<>> THEN <<"plain">> ELSE methods[1].value
    IN  IF \/ Len(challenges) # 1 \/ Len(methods) > 1 \/ ~IsPkceValue(challenges[1].value)
           \/ method \notin PKCE_METHODS
        THEN Null ELSE [codeChallenge |-> challenges[1].value, codeChallengeMethod |-> method]
FormatPkceAuthorizationRequestParams(challenge, method) ==
    LET used == IF method = Null THEN <<"S256">> ELSE method
    IN  IF used \notin PKCE_METHODS \/ ~IsPkceValue(challenge) THEN Null
        ELSE <<Param(<<"code_challenge">>, challenge), Param(<<"code_challenge_method">>, used)>>
ParsePkceTokenRequestParams(params) ==
    LET verifiers == AllOf(params, <<"code_verifier">>)
    IN  IF Len(verifiers) # 1 THEN Null
        ELSE IF IsPkceValue(verifiers[1].value) THEN verifiers[1].value ELSE Null
FormatPkceTokenRequestParams(verifier) ==
    IF IsPkceValue(verifier) THEN <<Param(<<"code_verifier">>, verifier)>> ELSE Null
=============================================================================
