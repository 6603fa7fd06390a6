----------------------------- MODULE WebSession -----------------------------
(* A client and the servers of a site, over a connection on which requests  *)
(* and responses may be late, repeated or rewritten: challenges and the     *)
(* credentials they lead to, the server's proof, codes and their proof      *)
(* keys, and cookies that are set, kept and sent back.                      *)
(*                                                                          *)
(* The library reads, writes, computes and chooses; the servers' tables and *)
(* the client's jar are those of an application.                            *)
EXTENDS Authentication, Cookies

CONSTANTS
    IsScenario(_),      \* the scenarios of this run
    Moment(_)           \* the date at each tick of the clock

VARIABLES
    scenario,
    clock,
    nonce,        \* the number of the nonce that goes with the server's opaque
    known,        \* what the client knows: [by, challenge, nonce, uses]
    requests,     \* as they arrive: [url, method, uri, authorization]
    responses,    \* [to, verdict, entitled, lines, meant, info, set, cookie]
    proofs,       \* [request, response, right]: what became of each rspauth
    codes,        \* [parsed, verifier]: what was asked for, and by whom
    tokens,       \* [code, verifier]: what each token was given for
    received,     \* cookies as they were meant: [cookie, url, at]
    jar,          \* cookies as they are stored
    sent          \* [url, header, at, script] of the last request; or Null
vars == <<scenario, clock, nonce, known, requests, responses, proofs, codes, tokens,
          received, jar, sent>>

(* "by" is the scheme that the client uses. *)
Unknown == [by |-> "nothing", challenge |-> Null, nonce |-> Null, uses |-> 0]

Init ==
    /\ IsScenario(scenario)
    /\ clock = 0 /\ nonce = 1
    /\ known = Unknown
    /\ requests = <<>> /\ responses = <<>> /\ proofs = {}
    /\ codes = <<>> /\ tokens = <<>>
    /\ received = <<>> /\ jar = <<>> /\ sent = Null

----------------------------------------------------------------------------
(* The client's request.                                                    *)

(* What Digest credentials are made of, besides the password. *)
Use(method, uri) ==
    [username |-> scenario.username, realm |-> known.challenge.realm, nonce |-> known.nonce,
     cnonce |-> <<scenario.cnonces[known.uses + 1]>>, nc |-> <<scenario.counters[known.uses + 1]>>,
     qop |-> IF known.challenge.qop = Null THEN Null ELSE <<"auth">>,
     algorithm |-> known.challenge.algorithm, method |-> method, uri |-> uri]

SentName(username, realm, algorithm, userhash) ==
    IF userhash = TRUE THEN HashDigestUsername(username, realm, algorithm) ELSE username
DigestCredentials(use, password) ==
    [username |-> SentName(use.username, use.realm, use.algorithm, known.challenge.userhash),
     usernameEncoded |-> scenario.encoded, realm |-> use.realm, uri |-> use.uri,
     response |-> ComputeDigestResponse(use, password, use.method, use.uri),
     algorithm |-> use.algorithm, cnonce |-> use.cnonce, opaque |-> known.challenge.opaque,
     qop |-> use.qop, nc |-> use.nc, userhash |-> known.challenge.userhash]

(* An Authorization field with what it was made of. *)
Made(text, use, secret) == [text |-> text, use |-> use, secret |-> secret]
MadeWith(password, method, uri) ==
    CASE known.by = "digest" ->
            LET use == Use(method, uri)
            IN  Made(FormatDigestAuthorization(DigestCredentials(use, password)), use, password)
      [] known.by = "basic" ->
            Made(FormatBasicAuthorization(scenario.username, password), Null, password)
      [] known.by = "bearer" ->
            Made(FormatBearerAuthorization(known.challenge), Null, known.challenge)
      [] OTHER -> Made(Null, Null, Null)

(* Every request has a count of its own; the cookies are chosen from the    *)
(* jar, for a script without those that are kept from scripts.              *)
Send ==
    /\ Len(requests) < scenario.bound
    /\ \E url \in scenario.urls, method \in scenario.methods, password \in scenario.typed,
          script \in scenario.scripts :
          /\ requests' = Append(requests, [url |-> url, method |-> method, uri |-> url.path,
                                           authorization |-> MadeWith(password, method, url.path)])
          /\ sent' = [url |-> url, at |-> clock, script |-> script,
                      header |-> BuildCookieHeader(jar, url, Moment(clock), ~script)]
    /\ known' = [known EXCEPT !.uses = IF known.by = "digest" THEN @ + 1 ELSE @]
    /\ UNCHANGED <<scenario, clock, nonce, responses, proofs, codes, tokens, received, jar>>

(* A gateway changes the method or the uri of a request on its way. *)
Rewrite ==
    /\ scenario.rewrites
    /\ \E i \in DOMAIN requests, method \in scenario.methods, url \in scenario.urls :
          requests' = [requests EXCEPT ![i].method = method, ![i].uri = url.path]
    /\ UNCHANGED <<scenario, clock, nonce, known, responses, proofs, codes, tokens,
                   received, jar, sent>>

----------------------------------------------------------------------------
(* The server.                                                              *)

(* It offers challenges [scheme, value] in the lines of a response; those   *)
(* of Digest with the nonce of the moment.                                  *)
NonceText(n) == <<scenario.nonces[n]>>
Current(offer) ==
    IF offer.scheme # "Digest" THEN offer ELSE [offer EXCEPT !.value.nonce = NonceText(nonce)]
OfferText(offer) ==
    CASE offer.scheme = "Digest" -> FormatDigestChallenge(offer.value)
      [] offer.scheme = "Basic" -> FormatBasicChallenge(offer.value)
      [] offer.scheme = "Bearer" -> FormatBearerChallenge(offer.value)
      [] OTHER -> FormatWWWAuthenticate(<<offer.value>>)
Combined(lines) == Separated(lines, <<",", " ">>)
OfferLine(offers) == Combined([j \in DOMAIN offers |-> OfferText(Current(offers[j]))])
Offers == FlattenSeq(scenario.offers)
DigestOffer == Offers[SelectInSeq(Offers, LAMBDA offer : offer.scheme = "Digest")].value

(* The credentials carry no nonce, so that the server takes the one it has  *)
(* for the opaque of its challenge.                                         *)
UseOf(credentials) ==
    [username |-> scenario.username, realm |-> DigestOffer.realm, nonce |-> NonceText(nonce),
     cnonce |-> credentials.cnonce, nc |-> credentials.nc, qop |-> credentials.qop,
     algorithm |-> credentials.algorithm]
DigestAccepted(request, credentials) ==
    /\ credentials # Null
    /\ credentials.username = SentName(scenario.username, DigestOffer.realm,
                                       credentials.algorithm, credentials.userhash)
    /\ credentials.realm = DigestOffer.realm /\ credentials.opaque = DigestOffer.opaque
    /\ credentials.uri = request.uri
    /\ credentials.response =
          ComputeDigestResponse(UseOf(credentials), scenario.password, request.method, request.uri)
BasicAccepted(credentials) ==
    credentials = [username |-> scenario.username, password |-> scenario.password]
TokenText(i) == <<scenario.tokens[i]>>

ReadCredentials(request) == ParseAuthorization(request.authorization.text)
Accepted(request) ==
    LET text == request.authorization.text
    IN  /\ text # Null
        /\ CASE scenario.checks = "digest" ->
                   DigestAccepted(request, ParseDigestAuthorization(ReadCredentials(request)))
             [] scenario.checks = "basic" -> BasicAccepted(ParseBasicAuthorization(text))
             [] scenario.checks = "bearer" ->
                   \E i \in DOMAIN tokens : ParseBearerAuthorization(text) = TokenText(i)

(* Its proof: a response without a method. *)
InfoFor(request, credentials) ==
    FormatDigestAuthenticationInfo(
        [nextnonce |-> IF scenario.renews THEN NonceText(nonce + 1) ELSE Null, qop |-> credentials.qop,
         rspauth |-> ComputeDigestResponse(UseOf(credentials), scenario.password, <<>>, request.uri),
         cnonce |-> credentials.cnonce, nc |-> credentials.nc])

(* Whether the request may be accepted: its maker had the secret, and used  *)
(* it for what has arrived, at this moment.                                 *)
Entitled(request) ==
    LET made == request.authorization
    IN  CASE made.text = Null -> FALSE
          [] scenario.checks = "digest" ->
                /\ made.use # Null /\ made.secret = scenario.password
                /\ made.use.nonce = NonceText(nonce)
                /\ made.use.method = request.method /\ made.use.uri = request.uri
          [] scenario.checks = "basic" -> made.use = Null /\ made.secret = scenario.password
          [] scenario.checks = "bearer" -> \E i \in DOMAIN tokens : made.secret = TokenText(i)

Refusal(i) ==
    [to |-> i, verdict |-> FALSE, entitled |-> Entitled(requests[i]),
     lines |-> [k \in DOMAIN scenario.offers |-> OfferLine(scenario.offers[k])],
     meant |-> [k \in DOMAIN Offers |-> Current(Offers[k])],
     info |-> Null, set |-> Null, cookie |-> Null]
Success(i, cookie) ==
    [to |-> i, verdict |-> TRUE, entitled |-> scenario.checks = "nothing" \/ Entitled(requests[i]),
     lines |-> <<>>, meant |-> <<>>,
     info |-> IF scenario.checks = "digest"
              THEN InfoFor(requests[i], ParseDigestAuthorization(ReadCredentials(requests[i]))) ELSE Null,
     set |-> IF cookie = Null THEN Null ELSE FormatSetCookie(cookie), cookie |-> cookie]

(* A request may be served late, and more than once. *)
Serve ==
    /\ Len(responses) < scenario.bound
    /\ \E i \in DOMAIN requests, cookie \in scenario.cookies :
          /\ scenario.late \/ i = Len(requests)
          /\ responses' = Append(responses,
                IF scenario.checks = "nothing" THEN Success(i, cookie)
                ELSE IF Accepted(requests[i]) THEN Success(i, cookie) ELSE Refusal(i))
    /\ UNCHANGED <<scenario, clock, nonce, known, requests, proofs, codes, tokens,
                   received, jar, sent>>

Renew ==
    /\ scenario.renews /\ nonce + 1 < Len(scenario.nonces)
    /\ nonce' = nonce + 1
    /\ UNCHANGED <<scenario, clock, known, requests, responses, proofs, codes, tokens,
                   received, jar, sent>>

----------------------------------------------------------------------------
(* The client's reading of a response.                                      *)

(* The first Digest challenge that it can meet, or else Basic. *)
CanMeet(read) == read # Null /\ (read.qop # Null => <<"auth">> \in ToSet(read.qop))
Learned(digests, basic) ==
    LET i == SelectInSeq(digests, CanMeet)
    IN  IF i # 0 THEN [by |-> "digest", challenge |-> digests[i], nonce |-> digests[i].nonce, uses |-> 0]
        ELSE IF basic # Null THEN [by |-> "basic", challenge |-> basic, nonce |-> Null, uses |-> 0]
        ELSE Unknown
ReadDigests(challenges) == [i \in DOMAIN challenges |-> ParseDigestChallenge(challenges[i])]
ReceiveRefusal ==
    /\ known.by # "bearer"
    /\ \E j \in DOMAIN responses :
          /\ ~responses[j].verdict
          /\ \E text \in {Combined(responses[j].lines)} :
                known' = Learned(ReadDigests(ParseWWWAuthenticate(text)), ParseBasicChallenge(text))
    /\ UNCHANGED <<scenario, clock, nonce, requests, responses, proofs, codes, tokens,
                   received, jar, sent>>

(* The proof is checked for the request that the response is taken for.     *)
IsProof(info, made) ==
    /\ info # Null
    /\ info.rspauth = ComputeDigestResponse(made.use, made.secret, <<>>, made.use.uri)
ReceiveProof ==
    /\ \E i \in DOMAIN requests, j \in DOMAIN responses :
          LET info == ParseDigestAuthenticationInfo(responses[j].info)
              right == IsProof(info, requests[i].authorization)
          IN  /\ responses[j].info # Null /\ requests[i].authorization.use # Null
              /\ i = responses[j].to \/ scenario.late
              /\ proofs' = proofs \cup {[request |-> i, response |-> j, right |-> right]}
              /\ known' = IF right /\ info.nextnonce # Null /\ known.by = "digest"
                          THEN [known EXCEPT !.nonce = info.nextnonce] ELSE known
    /\ UNCHANGED <<scenario, clock, nonce, requests, responses, codes, tokens, received, jar, sent>>

(* The jar: a cookie of the same name, domain and path takes the place of   *)
(* the one that is there, and keeps its age.                                *)
Expiry(cookie) ==
    IF cookie.maxAge = Null THEN cookie.expires
    ELSE IF cookie.maxAge <= 0 THEN <<1601, 1, 1, 0, 0, 0>> ELSE Moment(clock + cookie.maxAge)
PathFor(cookie, url) ==
    IF cookie.path = Null \/ ~Starts(cookie.path, "/") THEN DefaultPath(url.path) ELSE cookie.path
Stored(cookie, url) ==
    [name |-> cookie.name, value |-> cookie.value, path |-> PathFor(cookie, url),
     domain |-> IF cookie.domain = Null THEN url.host ELSE cookie.domain,
     hostOnly |-> cookie.domain = Null, creationTime |-> Moment(clock), expires |-> Expiry(cookie),
     secureOnly |-> cookie.secure, httpOnly |-> cookie.httpOnly]
SameCookie(one, other) ==
    <<one.name, one.domain, one.path>> = <<other.name, other.domain, other.path>>
Kept(cookies, cookie) ==
    IF \E i \in DOMAIN cookies : SameCookie(cookies[i], cookie)
    THEN [i \in DOMAIN cookies |->
            IF SameCookie(cookies[i], cookie)
            THEN [cookie EXCEPT !.creationTime = cookies[i].creationTime] ELSE cookies[i]]
    ELSE Append(cookies, cookie)
JarWith(text, url) ==
    LET cookie == ParseSetCookie(text)
    IN  IF cookie = Null THEN jar
        ELSE IF cookie.domain # Null /\ ~DomainMatches(url.host, cookie.domain) THEN jar
        ELSE Kept(jar, Stored(cookie, url))
ReceiveCookie ==
    /\ Len(received) < scenario.cookieBound
    /\ \E j \in DOMAIN responses :
          LET url == requests[responses[j].to].url
          IN  /\ responses[j].set # Null
              /\ scenario.late \/ j = Len(responses)
              /\ jar' = JarWith(responses[j].set, url)
              /\ received' = Append(received, [cookie |-> responses[j].cookie, url |-> url, at |-> clock])
    /\ sent' = Null
    /\ UNCHANGED <<scenario, clock, nonce, known, requests, responses, proofs, codes, tokens>>

----------------------------------------------------------------------------
(* A code is asked for with a challenge, and given up for a token against   *)
(* the verifier.                                                            *)

Authorize ==
    /\ Len(codes) < Len(scenario.tokens)
    /\ \E verifier \in scenario.verifiers, method \in scenario.pkceMethods :
          LET parsed == ParsePkceAuthorizationRequestParams(
                  FormatPkceAuthorizationRequestParams(DerivePkceCodeChallenge(verifier, method), method))
          IN  codes' = Append(codes, [parsed |-> parsed, verifier |-> verifier])
    /\ UNCHANGED <<scenario, clock, nonce, known, requests, responses, proofs, tokens,
                   received, jar, sent>>

Redeem ==
    /\ Len(tokens) < Len(scenario.tokens)
    /\ \E code \in DOMAIN codes, verifier \in scenario.verifiers :
          LET presented == ParsePkceTokenRequestParams(FormatPkceTokenRequestParams(verifier))
              parsed == codes[code].parsed
          IN  /\ VerifyPkceCodeVerifier(presented, parsed.codeChallenge, parsed.codeChallengeMethod)
              /\ tokens' = Append(tokens, [code |-> code, verifier |-> verifier])
              /\ known' = [Unknown EXCEPT !.by = "bearer", !.challenge = TokenText(Len(tokens) + 1)]
    /\ UNCHANGED <<scenario, clock, nonce, requests, responses, proofs, codes, received, jar, sent>>

Tick ==
    /\ clock < scenario.ticks
    /\ clock' = clock + 1
    /\ UNCHANGED <<scenario, nonce, known, requests, responses, proofs, codes, tokens,
                   received, jar, sent>>

Next == \/ Send \/ Rewrite \/ Serve \/ Renew \/ ReceiveRefusal \/ ReceiveProof
        \/ ReceiveCookie \/ Authorize \/ Redeem \/ Tick

Spec == Init /\ [][Next]_vars

----------------------------------------------------------------------------
(* What the two sides may rely on.                                          *)

(* Whatever a server offers, on however many lines, with names, quotes and  *)
(* commas in its parameters, is what the client reads: parseChallenges ends *)
(* a challenge where the next one begins, and each scheme's parser finds    *)
(* the values that its formatter was given.                                 *)
ReadsAs(text, challenge, offer) ==
    /\ challenge.scheme = (IF offer.scheme = "Other" THEN offer.value.scheme ELSE <<offer.scheme>>)
    /\ CASE offer.scheme = "Digest" -> ParseDigestChallenge(challenge) = offer.value
         [] offer.scheme = "Basic" -> ParseBasicChallenge(text) = offer.value
         [] offer.scheme = "Bearer" ->
              ParseBearerChallenge(text) = (IF challenge.params = <<>> THEN Null ELSE offer.value)
         [] OTHER -> challenge = offer.value
ReadsWhatIsMeant(text, meant) ==
    LET challenges == ParseWWWAuthenticate(text)
    IN  /\ Len(challenges) = Len(meant)
        /\ \A i \in DOMAIN meant : ReadsAs(text, challenges[i], meant[i])
ChallengesAreRead ==
    \A j \in DOMAIN responses :
        ~responses[j].verdict => ReadsWhatIsMeant(Combined(responses[j].lines), responses[j].meant)

(* A request is accepted if and only if whoever made it had the secret and  *)
(* used it, with the nonce that is in force, for the method and the uri     *)
(* that have arrived; and a code is only given up to who asked for it.      *)
OnlyTheSecretIsAccepted ==
    /\ \A j \in DOMAIN responses : responses[j].verdict <=> responses[j].entitled
    /\ \A i \in DOMAIN tokens : tokens[i].verifier = codes[tokens[i].code].verifier

(* The proof in Authentication-Info is right for a request if and only if   *)
(* it was made for that use of the password, however late the response, and *)
(* not for that of another count.                                           *)
SameUse(use, other) ==
    /\ use.nonce = other.nonce /\ use.uri = other.uri
    /\ (use.qop # Null \/ Len(DefaultAlgorithm(use.algorithm)) = 2) => use.cnonce = other.cnonce
    /\ use.qop # Null => use.nc = other.nc
AnswerIsProven ==
    \A proof \in proofs :
        LET made == requests[proof.request].authorization
            answered == requests[responses[proof.response].to].authorization
        IN  proof.right <=> made.secret = scenario.password /\ SameUse(made.use, answered.use)

(* Which cookies a request should carry, by the labels of hosts and the     *)
(* segments of paths, from what the servers meant.                          *)
Labels(host) == SplitAt(LowerCase(host), {"."})
IsUnder(host, domain) ==
    /\ EndsWith(Labels(host), Labels(domain))
    /\ LowerCase(host) # LowerCase(domain) => \E l \in ToSet(Last(Labels(host))) : l \notin Digits
MeantDomain(issue) ==
    IF issue.cookie.domain = Null THEN issue.url.host ELSE WithoutDot(LowerCase(issue.cookie.domain))
Segments(path) == Tail(SplitAt(path, {"/"}))
MeantPath(issue) ==
    IF issue.cookie.path # Null THEN Segments(issue.cookie.path)
    ELSE IF Len(Segments(issue.url.path)) = 1 THEN <<<<>>>> ELSE Front(Segments(issue.url.path))
Covers(path, request) ==
    IF Last(path) = <<>> THEN IsPrefix(Front(path), request) /\ Len(path) <= Len(request)
    ELSE IsPrefix(path, request)
KeyOf(issue) == <<issue.cookie.name, MeantDomain(issue), MeantPath(issue)>>
Allowed(issue) == issue.cookie.domain # Null => IsUnder(issue.url.host, MeantDomain(issue))
Alive(issue, at) ==
    IF issue.cookie.maxAge # Null THEN at < issue.at + issue.cookie.maxAge
    ELSE issue.cookie.expires # Null => Before(Moment(at), issue.cookie.expires)
Replaces(k, i) == Allowed(received[k]) /\ KeyOf(received[k]) = KeyOf(received[i])
Latest(i) == \A k \in i + 1..Len(received) : ~Replaces(k, i)
Belongs(issue) ==
    /\ Allowed(issue) /\ Alive(issue, sent.at)
    /\ IF issue.cookie.domain = Null THEN sent.url.host = issue.url.host
       ELSE IsUnder(sent.url.host, MeantDomain(issue))
    /\ Covers(MeantPath(issue), Segments(sent.url.path))
    /\ issue.cookie.secure => sent.url.secure
    /\ issue.cookie.httpOnly => ~sent.script
Belonging == {i \in DOMAIN received : Latest(i) /\ Belongs(received[i])}
SentPairs == IF sent.header = Null THEN <<>> ELSE NamedPairs(sent.header)

(* No cookie goes to another host, path or time than it was set for, over   *)
(* an open connection or to a script against its attributes, and none that  *)
(* belongs to the request is left behind.                                   *)
PairOf(cookie) == [key |-> cookie.name, value |-> cookie.value]
NoCookieStrays ==
    sent # Null => ToSet(SentPairs) = {PairOf(received[i].cookie) : i \in Belonging}

(* A server that asks for a cookie by its name is told the value of the one *)
(* with the most specific path, and the oldest of those: the order in which *)
(* buildCookieHeader writes is the order in which parseCookie prefers, and  *)
(* the value is the one that was set.                                       *)
FirstOf(i) == CHOOSE k \in 1..i : Replaces(k, i) /\ \A m \in 1..k - 1 : ~Replaces(m, i)
LengthOf(path) == IF path = <<<<>>>> THEN 1 ELSE Len(FlattenSeq(path)) + Len(path)
Preferred(i, k) ==
    LET one == LengthOf(MeantPath(received[i]))
        other == LengthOf(MeantPath(received[k]))
    IN  \/ one > other
        \/ one = other /\ FirstOf(i) <= FirstOf(k)
CookiesComeBack ==
    sent # Null =>
        LET read == ParseCookie(IF sent.header = Null THEN <<>> ELSE sent.header)
        IN  \A i \in Belonging :
                (\A k \in Belonging : received[k].cookie.name = received[i].cookie.name => Preferred(i, k))
                    => received[i].cookie.name \in DOMAIN read
                       /\ read[received[i].cookie.name] = received[i].cookie.value
=============================================================================
