---------------------------- MODULE MCWebSession ----------------------------
(* Sessions for TLC.  Five families of scenarios: the reading of what is    *)
(* offered, Digest, Basic, Bearer with its codes, and cookies.              *)
EXTENDS WebSession

MCInvisible == {"\n", "\r", "\t", "~u"}

MCLowerWords == {"a", "b", "c", "d", "p", "q", "r", "u", "v", "w", "x", "20", "3A", "true", "utf-8", "auth", "auth-int",
    "digest", "basic", "bearer", "25", "realm", "domain", "nonce", "opaque", "stale", "algorithm", "qop",
    "charset", "userhash", "username", "username*", "uri", "response", "cnonce", "nc", "nextnonce",
    "rspauth", "scope", "error", "error_description", "error_uri", "invalid_token",
    "expires", "max-age", "path", "secure", "httponly", "n1", "n2", "n3", "k1", "k2", "k3",
    "t1", "t2", "v1", "v2", "hv1", "hv2"}
MCUpperWords == {"B", "P", "Digest", "Basic", "Bearer", "Negotiate", "UTF-8", "MD5", "SHA-256", "SHA-512-256",
    "-sess", "C3BC", "Realm", "GMT", "Sun", "Mon", "Dec", "Jan", "Jun",
    "Expires", "Max-Age", "Domain", "Path", "Secure", "HttpOnly", "SameSite"}
MCLower == [Digest |-> "digest", Basic |-> "basic", Bearer |-> "bearer", Realm |-> "realm", B |-> "b",
            Expires |-> "expires", Domain |-> "domain", Path |-> "path", Secure |-> "secure",
            HttpOnly |-> "httponly"] @@ ("UTF-8" :> "utf-8") @@ ("Max-Age" :> "max-age")
MCHex == ("~u" :> "C3BC") @@ (" " :> "20") @@ ("%" :> "25") @@ (":" :> "3A")
MCHash(algorithm, text) ==
    IF algorithm = "S256" THEN <<"h" \o text[1]>> ELSE <<algorithm \o ToString(text)>>

Users == {<<"u">>, <<"~u", " ", "%">>, <<"u", ":", "p">>}
Secrets == {<<"p">>, <<"q">>, <<"p", ":", "q">>, <<"p", "\n">>}
MCEncoded == [text \in {u \o <<":">> \o s : u \in Users, s \in Secrets} |-> "b64" \o ToString(text)]
MCBase64 == {MCEncoded[text] : text \in DOMAIN MCEncoded}

MCMonthNames == <<"Jan", "Feb", "Mar", "Apr", "May", "Jun", "Jul", "Aug", "Sep", "Oct", "Nov", "Dec">>
MCMonthOf == [Jan |-> 1, Jun |-> 6, Dec |-> 12]
MCWeekdayOf(date) == IF date[3] = 31 THEN "Sun" ELSE "Mon"
(* A second at a time, over the end of a year. *)
MCMoment(n) == IF n < 2 THEN <<2023, 12, 31, 23, 59, 58 + n>> ELSE <<2024, 1, 1, 0, 0, n - 2>>

----------------------------------------------------------------------------

Url(secure, host, path) == [secure |-> secure, host |-> host, path |-> path]
Home == Url(TRUE, <<"b">>, <<"/", "a">>)
Base == [username |-> <<"u">>, password |-> <<"p">>, typed |-> {<<"p">>}, encoded |-> FALSE,
         cnonces |-> <<"c1", "c2", "c3">>, counters |-> <<"k1", "k2", "k3">>, nonces |-> <<"n1", "n2", "n3">>,
         tokens |-> <<>>, urls |-> {Home}, methods |-> {<<"B">>}, scripts |-> {FALSE},
         rewrites |-> FALSE, renews |-> FALSE, late |-> FALSE, offers |-> <<>>, checks |-> "digest",
         cookies |-> {Null}, cookieBound |-> 0, verifiers |-> {}, pkceMethods |-> {}, bound |-> 1, ticks |-> 0]

Offer(scheme, value) == [scheme |-> scheme, value |-> value]
Plain == [realm |-> <<"r">>, domain |-> Null, nonce |-> <<"n1">>, opaque |-> Null, stale |-> Null,
          algorithm |-> Null, qop |-> <<<<"auth">>>>, charset |-> Null, userhash |-> Null]
Digest(value) == Offer("Digest", value)
Basic(realm, charset) == Offer("Basic", [realm |-> realm, charset |-> charset])
NoBearer == [key \in ToSet(BearerChallengeKeys) |-> Null]
Bearer(parameters, params) == Offer("Bearer", [known |-> parameters, params |-> params])
Other(scheme, token68, params) == Offer("Other", Challenge(scheme, token68, params))

(* What is offered, alone, with another on the line, or on the next line. *)
Digests == { Digest(Plain),
    Digest([Plain EXCEPT !.realm = <<"r", "\"", ",", " ", "Basic", " ", "realm", "=", "x">>,
                         !.domain = <<<<"/", "a">>, <<"/", "b">>>>, !.opaque = <<"=", ",">>,
                         !.stale = TRUE, !.algorithm = <<"SHA-256", "-sess">>,
                         !.qop = <<<<"auth-int">>, <<"auth">>>>, !.charset = Utf8, !.userhash = TRUE]),
    Digest([Plain EXCEPT !.realm = <<"\\">>, !.algorithm = <<"MD5">>, !.qop = Null]) }
Basics == {Basic(<<"r", " ", "\\", "\"">>, Utf8), Basic(<<"a", "=", "b", ",">>, Null)}
Bearers == { Bearer(NoBearer, <<>>),
    Bearer([NoBearer EXCEPT !["realm"] = <<"r">>, !["scope"] = <<"a", " ", "b">>, !["error"] = <<"invalid_token">>],
           <<Param(<<"x">>, <<"y", ",", " ", "Digest">>)>>),
    Bearer(NoBearer, <<Param(<<"x">>, <<>>)>>) }
Others == { Other(<<"Negotiate">>, Null, <<>>), Other(<<"Negotiate">>, <<"a", "/", "=", "=">>, <<>>),
            Other(<<"x">>, Null, <<Param(<<"nc">>, <<"Bearer", " ", "a">>), Param(<<"b">>, <<"\\", "\\">>)>>) }
Pool == Digests \cup Basics \cup Bearers \cup Others
Pairs == {p \in Pool \X Pool : p[1].scheme # p[2].scheme}
Lines == {<<<<offer>>>> : offer \in Pool} \cup {<<<<p[1], p[2]>>>> : p \in Pairs}
         \cup {<<<<p[1]>>, <<p[2]>>>> : p \in Pairs}
HasDigest(lines) == \E i \in DOMAIN FlattenSeq(lines) : FlattenSeq(lines)[i].scheme = "Digest"
ReadingScenario(s) ==
    \E lines \in Lines :
        s = [Base EXCEPT !.offers = lines, !.checks = IF HasDigest(lines) THEN "digest" ELSE "basic"]

(* Digest: counted, of a session, from before the count, and with another   *)
(* form of the name.                                                        *)
Variants == { Plain, [Plain EXCEPT !.algorithm = <<"SHA-256", "-sess">>, !.opaque = <<"x">>],
              [Plain EXCEPT !.algorithm = <<"MD5">>, !.qop = Null],
              [Plain EXCEPT !.algorithm = <<"MD5", "-sess">>, !.qop = Null, !.userhash = TRUE],
              [Plain EXCEPT !.qop = <<<<"auth-int">>>>] }
Dialogue(variant) == [Base EXCEPT !.offers = <<<<Digest(variant)>>>>, !.bound = 3]
DigestScenario(s) ==
    \E variant \in Variants :
        \/ s = [Dialogue(variant) EXCEPT !.late = TRUE, !.username = <<"~u", " ", "%">>,
                                         !.encoded = variant.userhash = Null]
        \/ s = [Dialogue(variant) EXCEPT !.renews = TRUE]
        \/ s = [Dialogue(variant) EXCEPT !.rewrites = TRUE, !.bound = 2, !.methods = {<<"B">>, <<"P">>},
                                         !.urls = {Home, Url(TRUE, <<"b">>, <<"/", "x", "\"">>)},
                                         !.typed = {<<"p">>, <<"q">>}]

BasicScenario(s) ==
    \E username \in Users, password \in Secrets, lines \in
          { <<<<Basic(<<"r">>, Utf8)>>>>,
            <<<<Digest([Plain EXCEPT !.qop = <<<<"auth-int">>>>]), Basic(<<"r">>, Null)>>>> } :
        s = [Base EXCEPT !.username = username, !.password = password, !.checks = "basic",
                         !.typed = {password, <<"q">>}, !.offers = lines, !.bound = 2]

BearerScenario(s) ==
    s = [Base EXCEPT !.checks = "bearer", !.tokens = <<"t1", "t2">>, !.offers = <<<<Bearer(NoBearer, <<>>)>>>>,
                     !.verifiers = {<<"v1">>, <<"v2">>}, !.pkceMethods = PKCE_METHODS, !.late = TRUE, !.bound = 2]

(* Cookies: two that may be in each other's way, and the urls they come     *)
(* from and go to.                                                          *)
Cookie(name, value) == [name |-> name, value |-> value] @@ NoAttributes
Plainest == Cookie(<<"a">>, <<"v">>)
With(cookie, path, domain) == [cookie EXCEPT !.path = path, !.domain = domain]
Under == <<"c", ".", "b">>
Address == <<"1", ".", "2", ".", "3", ".", "4">>
Places ==
    { [urls |-> {Url(TRUE, Under, <<"/", "a", "/", "b">>), Url(FALSE, Under, <<"/", "a", "b">>)}, scripts |-> {FALSE}, ticks |-> 0,
       cookies |-> {[Plainest EXCEPT !.path = <<"/", "a">>],
                    [Cookie(<<"a">>, <<"w", ",", "\"">>) EXCEPT !.secure = TRUE]}],
      [urls |-> {Url(TRUE, Under, <<"/", "a", "/", "b">>), Url(TRUE, <<"b">>, <<"/", "a", "/">>)}, scripts |-> {FALSE}, ticks |-> 0,
       cookies |-> {With(Cookie(<<"b">>, <<>>), <<"/">>, <<".", "B">>),
                    With(Cookie(<<"b">>, <<" ", "\\">>), <<"/", "a", "/">>, <<"b">>)}],
      [urls |-> {Url(FALSE, <<"b">>, <<"/">>)}, scripts |-> {FALSE, TRUE}, ticks |-> 2,
       cookies |-> {[Plainest EXCEPT !.httpOnly = TRUE, !.maxAge = 2, !.expires = MCMoment(0)],
                    [Plainest EXCEPT !.path = <<"/">>, !.maxAge = -1],
                    [Cookie(<<"b">>, <<"v", "=">>) EXCEPT !.expires = MCMoment(2)]}],
      [urls |-> {Url(FALSE, Address, <<"/", "a">>), Url(FALSE, <<"3", ".", "4">>, <<"/", "a">>)}, scripts |-> {FALSE}, ticks |-> 0,
       cookies |-> {With(Plainest, <<"/", "a">>, <<"3", ".", "4">>),
                    [Plainest EXCEPT !.extensions = <<Param(<<"SameSite">>, <<"x">>), Param(<<"p">>, Null)>>]}],
      [urls |-> {Url(FALSE, <<"b">>, <<"/", "a">>)}, scripts |-> {FALSE}, ticks |-> 0,
       cookies |-> {Cookie(<<"a", " ">>, <<"v">>), With(Plainest, Null, Under),
                    With(Plainest, <<"/", ";">>, Null)}] }
CookieScenario(s) ==
    \E place \in Places :
        s = [Base EXCEPT !.checks = "nothing", !.bound = 3, !.cookieBound = 2, !.ticks = place.ticks,
                         !.urls = place.urls, !.scripts = place.scripts, !.cookies = place.cookies]

MCScenario(s) == \/ ReadingScenario(s) \/ DigestScenario(s) \/ BasicScenario(s)
                 \/ BearerScenario(s) \/ CookieScenario(s)
=============================================================================
