--------------------------- MODULE MCMessagePath ----------------------------
(* Messages for TLC.  Four families of scenarios: messages that are only    *)
(* written anew, messages that are altered, traces with the Forwarded       *)
(* field, and responses with the status fields.                             *)
EXTENDS MessagePath, TLC

MCInvisible == {"\n", "\r", "\t"}

MCLowerWords == {"v", "w", "x", "y", "a", "k", "p", "m", "h", "get", "https", "sha-256", "sha-512", "sig",
    "created", "expires", "nonce", "alg", "keyid", "tag", "sf", "key", "bs", "req", "tr",
    "content-digest", "signature-input", "signature", "traceparent", "tracestate",
    "for", "by", "host", "proto", "hit", "fwd", "ttl", "next-hop", "next-protocol",
    "received-status", "details", "detail", "error", "constructor", "ext"}
MCUpperWords == {"GET", "HTTPS", "For"}
MCLower == [HTTPS |-> "https", GET |-> "get", For |-> "for"]
MCUpper == [get |-> "GET", https |-> "HTTPS"]
MCDecode == ("%20" :> " ") @@ ("%0A" :> "\n") @@ ("+" :> " ")
MCHex == ("%" :> "25") @@ ("\"" :> "22")
MCWrap(line) == CASE line = <<"v">> -> "dg" [] line = <<"w">> -> "dw" [] OTHER -> "vw"
MCHash == [a \in ActiveAlgorithms |->
              IF a = <<"sha-256">> THEN [b1 |-> <<"d1">>, b2 |-> <<"d2">>]
              ELSE [b1 |-> <<"e1">>, b2 |-> <<"e2">>]]
MCWidth == [c \in {"00", "01", "02", "03", "ff", "cc", "0G"} |-> 2] @@ ("-" :> 1)
           @@ [c \in {"t0", "t1", "t2"} |-> 32] @@ [c \in {"p0", "p1", "p2"} |-> 16]
           @@ ("junk" :> 4)
MCFlagBytes == <<"00", "01", "02", "03">>
MCBytes(text) == <<"by">>
MCBytesText(bytes) == <<"h", " ", "2">>

----------------------------------------------------------------------------

Nothing == [method |-> Null, targetUri |-> Null, authority |-> Null, scheme |-> Null,
            path |-> Null, query |-> Null, status |-> Null,
            headers |-> <<>>, trailers |-> Null, request |-> Null]
X == <<"x">>
Y == <<"y">>
Request == [Nothing EXCEPT !.method = <<"get">>, !.targetUri = <<"p">>, !.authority = <<"h">>,
                           !.scheme = <<"HTTPS">>, !.path = <<"/", "p">>, !.query = <<"?", "a", "=", "v">>]
Headers(x, y) == (X :> x) @@ (Y :> y)
WithHeaders(x, y) == [Request EXCEPT !.headers = Headers(x, y)]
Line(text) == <<text>>

NoSignatureParams == [name \in ToSet(SignatureParamNames) |-> Null]
Named(name) == Component(<<name>>, NoParams)
With(name, params) == Component(<<name>>, params)
Input(components, params) == SignatureInput(<<"sig">>, components, params)

Base == [message |-> Request, body |-> "b1", wants |-> <<>>, input |-> Null,
         counter |-> Null, reformats |-> FALSE, alters |-> FALSE, others |-> {}, bodies |-> {},
         inputs |-> {}, hops |-> {}, traceIds |-> {"t1"}, parentIds |-> {"p1"},
         entries |-> {}, statusField |-> ProxyStatusField]

(* Written anew. *)
ManyLines == { <<<<"v">>>>, <<<<"v">>, <<"w">>>>, <<<<" ", "v", " ", "w">>, <<>>>>, <<<<"v">>, <<>>, <<"w", " ", "v">>>>,
               <<<<"v", "\n">>>>, <<<<"v", "\n", "w">>>> }
Covered == { <<Named("x")>>, <<Named("y"), Named("x")>>,
             <<With("x", [NoParams EXCEPT !.bs = TRUE]), Named("@method")>>,
             <<Named("x"), With("x", [NoParams EXCEPT !.key = <<"m", "\"">>])>>,
             <<Named("x"), Named("x")>>, <<Named("GET")>>, <<Named("@nothing")>>,
             <<With("x", [NoParams EXCEPT !.tr = TRUE])>>,
             <<With("x", [NoParams EXCEPT !.req = TRUE])>> }
Parameters == { NoSignatureParams,
                [NoSignatureParams EXCEPT !.created = <<"5">>, !.keyid = <<"k", "\\", "\"">>],
                [NoSignatureParams EXCEPT !.expires = <<"-", "1", "0">>, !.tag = <<";", ",", " ">>,
                                          !.alg = <<"a">>],
                [NoSignatureParams EXCEPT !.created = <<"1", ".", "5">>],
                [NoSignatureParams EXCEPT !.nonce = <<"\t">>] }
Reformatted(components, params, x, counter) ==
    [Base EXCEPT !.message = [WithHeaders(x, <<<<"w">>>>) EXCEPT !.trailers = X :> <<<<"w">>>>],
                 !.reformats = TRUE, !.input = Input(components, params), !.counter = counter]
Counter == SignatureInput(<<"a">>, <<Named("y"), Named("@authority")>>, NoSignatureParams)
FieldScenario(s) ==
    \E components \in Covered, params \in Parameters, x \in ManyLines, counter \in {Null, Counter} :
        /\ params # NoSignatureParams => components = <<Named("y"), Named("x")>>
        /\ counter # Null => params = NoSignatureParams
        /\ s = Reformatted(components, params, x, counter)

(* What a request is, its derived components. *)
Queries == {Null, <<>>, <<"?">>, <<"?", "a", "=", "v", "&", "a", "=", "w">>, <<"a", "=", "%20">>,
            <<"?", "k", "&", "a", "=", "%0A">>, <<"?", "a">>}
DerivedLists == { <<Named("@method"), Named("@path"), Named("@query")>>,
                  <<Named("@request-target"), Named("@scheme")>>,
                  <<Named("@target-uri"), With("@query-param", [NoParams EXCEPT !.key = <<"a">>])>>,
                  <<Named("@status")>> }
AsRequestOf(components) ==
    [i \in DOMAIN components |-> [components[i] EXCEPT !.params.req = TRUE]] \o <<Named("@status")>>
WithQuery(query) == [Request EXCEPT !.query = query]
DerivedScenario(s) ==
    \E components \in DerivedLists, query \in Queries :
        \/ s = [Base EXCEPT !.message = WithQuery(query), !.alters = TRUE,
                            !.input = Input(components, NoSignatureParams),
                            !.others = {WithQuery(q) : q \in Queries}]
        \/ s = [Base EXCEPT !.message = [Nothing EXCEPT !.status = <<"2">>, !.request = WithQuery(query)],
                            !.alters = TRUE, !.input = Input(AsRequestOf(components), NoSignatureParams),
                            !.others = {[Nothing EXCEPT !.status = n, !.request = WithQuery(q)] :
                                            q \in Queries, n \in {<<"2">>, <<"4">>}}]

(* Altered: lines that look like other lines of the base, other bodies. *)
LineOf(name, value) == <<"\"", name, "\"", ":", " ">> \o value
Joined == <<"v", "\n">> \o LineOf("y", <<"w">>)
Spoofed(text) == <<"w", "\n">> \o LineOf("y", text)
AlteredLines == { WithHeaders(<<<<"v">>>>, <<<<"w">>>>), WithHeaders(<<<<"w">>>>, <<<<"v">>>>),
                  WithHeaders(<<Joined>>, <<<<"w">>>>), WithHeaders(<<<<"v">>>>, <<Spoofed(<<"w">>)>>),
                  WithHeaders(<<<<"v">>, <<"w">>>>, <<<<"w">>>>),
                  WithHeaders(<<<<"v", ",", " ", "w">>>>, <<<<"w">>>>) }
DigestComponent == Component(ContentDigest, NoParams)
AlteredInputs == { Input(<<Named("x")>>, NoSignatureParams),
                   Input(<<Named("y"), Named("x")>>, NoSignatureParams),
                   Input(<<Named("x"), Named("y"), DigestComponent>>,
                         [NoSignatureParams EXCEPT !.created = <<"5">>]) }
Wants == { <<>>, <<Preference(<<"sha-256">>, <<"1", "0">>), Preference(<<"sha-512">>, <<"0">>)>>,
           <<Preference(<<"sha-512">>, <<"3">>), Preference(<<"sha-256">>, <<"1", "1">>),
             Preference(<<"m">>, <<"9">>)>> }
AlteredScenario(s) ==
    \E m \in AlteredLines, input \in AlteredInputs \cup {Input(<<Named("x"), Named("y")>>, NoSignatureParams)},
       wants \in Wants :
        s = [Base EXCEPT !.message = m, !.input = input, !.wants = wants, !.alters = TRUE,
                         !.others = AlteredLines, !.bodies = {"b1", "b2"}, !.inputs = AlteredInputs]

(* Traces and Forwarded. *)
HopOf(key, value, sampled, element) ==
    [key |-> key, value |-> value, sampled |-> sampled, element |-> element]
P(key, value) == [key |-> <<key>>, value |-> value]
MCHops == { HopOf(<<"a">>, <<"1">>, Null, <<P("for", <<"[", "x", "]", ":", "1">>)>>),
            HopOf(<<"v", "@", "w">>, <<"1", " ", "1">>, TRUE,
                  <<P("for", <<"x", ",", "\"">>), P("host", <<"h">>), P("ext", <<"a", ";", "y", "=", "\\">>)>>),
            HopOf(<<"k">>, <<"1", "1", "1">>, FALSE, <<P("by", <<>>), P("proto", <<"https">>)>>),
            HopOf(<<"k">>, Null, Null, <<P("by", <<"a">>)>>) }
Parents == { <<"00", "-", "t1", "-", "p1", "-", "01">>, <<"cc", "-", "t1", "-", "p1", "-", "03", "-", "cc">>,
             <<"00", "-", "t1", "-", "p1", "-", "01", "-", "cc">>, <<"00", "-", "t0", "-", "p1", "-", "01">>,
             <<"ff", "-", "t1", "-", "p1", "-", "01">>, <<"junk">> }
States == { Null, <<"v", "@", "w", "=", "1", ",", " ", "k", "=", "1">>, <<"a", "=", "1", ",", "a", "=", "1">>,
            <<"k", "=", "1", "1", "1", "1", "1", ",", "y", "=", "1">> }
Forwards == { Null, <<"For", "=", "\"", "a", ",", "\\", "\"", "\"", " ", ";", "proto", "=", "h", ",", " ", "by", "=", "x">> }
MaybeField(msg, name, text) == IF text = Null THEN msg ELSE WithField(msg, name, <<text>>)
TraceScenario(s) ==
    \E parent \in Parents, state \in States, forward \in Forwards :
        /\ forward # Null => state = Null
        /\ s = [Base EXCEPT
                  !.message = MaybeField(MaybeField(WithField(Request, TraceparentField, <<parent>>),
                                                    TracestateField, state), ForwardedField, forward),
                  !.hops = MCHops, !.traceIds = {"t0", "t2"}, !.parentIds = {"p0", "p2"}]

(* Responses. *)
Status(name, known, extensions) == StatusEntry(name, [known |-> known, extensions |-> extensions])
ProxyEntries == { Status(<<"a">>, <<>>, <<>>),
    Status(<<"x", ".", "y">>,
           <<P("next-hop", <<"h", " ", "1">>), P("next-protocol", <<"h", "2">>), P("received-status", <<"5">>)>>,
           <<P("ext", Bare("string", <<",", "\"">>))>>),
    Status(<<"p">>, <<P("next-hop", <<"h">>), P("next-protocol", <<"h", " ", "2">>),
                      P("details", <<";", "a">>)>>, <<>>) }
CacheEntries == {
    Status(<<"a">>, <<P("hit", <<"1">>), P("ttl", <<"-", "5">>)>>, <<P("ext", True)>>),
    Status(<<"x">>, <<P("hit", <<"0">>), P("fwd", <<"m">>), P("detail", <<"x">>)>>,
           <<P("ext", Bare("date", <<"5">>)), P("y", Bare("bytes", <<"d1">>))>>) }
StatusScenario(s) ==
    \/ s = [Base EXCEPT !.message = [Nothing EXCEPT !.status = <<"2">>], !.entries = ProxyEntries]
    \/ s = [Base EXCEPT !.message = [Nothing EXCEPT !.status = <<"2">>], !.entries = CacheEntries,
                        !.statusField = CacheStatusField]

MCScenario(s) == \/ FieldScenario(s) \/ DerivedScenario(s) \/ AlteredScenario(s)
                 \/ TraceScenario(s) \/ StatusScenario(s)
=============================================================================
