------------------------------ MODULE MCListing ------------------------------
(* Listings for TLC: walks while the collection changes, every kind of      *)
(* query, the orders, and the preferences of clients.                       *)
EXTENDS Listing

MCLowerWords == {"text", "html", "json", "csv", "application", "en", "gb", "fr", "de", "gzip", "br", "identity",
                 "q", "v", "w", "x", "y", "rank", "name", "at", "day", "none", "rel", "rev", "type", "title",
                 "media", "anchor", "hreflang", "ext", "flag", "item", "start", "self", "first", "last", "next", "prev"}
MCUpperWords == {"Text", "Html", "GB", "EN", "Q", "V", "GZip", "B", "REL", "UTF-8"}
MCLower == [Text |-> "text", Html |-> "html", GB |-> "gb", EN |-> "en", Q |-> "q", V |-> "v", GZip |-> "gzip",
            B |-> "b", REL |-> "rel", TRUE |-> "true", FALSE |-> "false"]
MCHex == (" " :> "20") @@ ("," :> "2C")

----------------------------------------------------------------------------
(* The items, and what each is worth.                                       *)

MCAlphabet == <<"1", "10", "2", "b", "c", "false", "true">>
Value(kind, of) == [kind |-> kind, of |-> of]
Rank == <<"rank">>
Name == <<"name">>
Day == <<"at", ".", "day">>
OnDay(n) == Value("object", <<"day">> :> Value("date", n))
Thing(rank, name, at) == Value("object", Rank :> rank @@ Name :> name @@ <<"at">> :> at)
MCObject ==
    [i1 |-> Thing(Value("number", 2), Value("text", "b"), OnDay(5)),
     i2 |-> Thing(Value("number", 10), Value("text", "B"), Nullish),
     i3 |-> Thing(Value("text", "b"), Nullish, OnDay(3)),
     i4 |-> Thing(Value("boolean", TRUE), Value("text", "c"), Value("text", "c")),
     s1 |-> Thing(Value("boolean", FALSE), Value("text", "c"), OnDay(3))]
Worths(rank, name, day) == Rank :> rank @@ Name :> name @@ Day :> day
MCWorth ==
    [i1 |-> Worths(1, 1, 5), i2 |-> Worths(2, 1, Null), i3 |-> Worths(3, Null, 3),
     i4 |-> Worths(5, 2, Null), s1 |-> Worths(4, 2, 3)]

Asc(field) == [field |-> field, direction |-> "asc"]
Desc(field) == [field |-> field, direction |-> "desc"]
MCAllowedFields == {Rank, Name, Day}
Orders == {<<>>} \cup {<<one>> : one \in {Asc(Rank), Desc(Rank), Asc(Name), Desc(Name), Asc(Day), Desc(Day)}}
          \cup {<<Asc(Name), Desc(Rank)>>, <<Desc(Name), Asc(Day)>>, <<Desc(Day), Asc(Name), Asc(Rank)>>}

----------------------------------------------------------------------------

Pair(key, value) == [key |-> key, value |-> value]
Given(key, value) == IF value = Null THEN <<>> ELSE <<Pair(key, value)>>
SortValue(order) == IF order = <<>> THEN Null ELSE TextValue(BuildSortString(order))
Query(cursor, offset, limit, sort) ==
    Given("offset", offset) \o Given("cursor", cursor) \o Given("sort", sort) \o Given("limit", limit)

Unstated == [header |-> <<>>, meant |-> {}]
Absent == [header |-> Null, meant |-> {}]
Base == [query |-> <<>>, sort |-> <<>>, accept |-> Absent, types |-> <<Json>>, acceptLanguage |-> Unstated,
         languages |-> <<<<"en">>>>, acceptEncoding |-> Unstated, codings |-> <<<<"identity">>>>]
Scenario(collection, requests) ==
    [items |-> collection, spare |-> {}, removals |-> 0, requests |-> requests, asks |-> 1,
     related |-> [links |-> <<>>, text |-> <<>>, meant |-> <<>>]]
All == <<"i3", "i1", "i4", "i2">>
Sized(n) == SubSeq(All, 1, n)

(* Two items come or go during a walk. *)
Limited(limit, order) ==
    [Base EXCEPT !.query = Query(Null, Null, Number(limit, FALSE), SortValue(order)), !.sort = order]
ChangingScenario(s) ==
    \E n \in 2..4, limit \in 1..2, order \in {<<>>, <<Desc(Rank)>>, <<Asc(Name)>>} :
        s = [Scenario(Sized(n), {Limited(limit, order)}) EXCEPT
                !.spare = IF n = 4 THEN {} ELSE {"s1"}, !.removals = IF n = 4 THEN 2 ELSE 1]

(* What a query may hold. *)
Junk == TextValue(<<"none">>)
Numbers == {Number(0, FALSE), Number(1, TRUE), Number(2, FALSE), Number(7, FALSE), Number(-1, TRUE),
            Number(Infinity, FALSE)}
Cursors == {EncodeCursor(3), EncodeCursor(Infinity), Junk, Number(2, FALSE)}
           \cup {[kind |-> "cursor", payload |-> Number(-1, FALSE)], [kind |-> "cursor", payload |-> Number(1, TRUE)]}
Queries == {Query(cursor, offset, limit, Null) : cursor \in {Null}, offset \in Numbers \cup {Null, Junk},
                                                 limit \in Numbers \cup {Null, Junk}}
           \cup {Query(cursor, offset, Number(3, FALSE), Null) : cursor \in Cursors, offset \in {Null, Number(1, FALSE)}}
           \cup {<<Pair("filter", Junk), Pair("offset", Number(1, FALSE)), Pair("offset", Junk), Pair("none", Junk)>>}
QueryScenario(s) ==
    \E n \in {0, 1, 3, 4}, query \in Queries : s = Scenario(Sized(n), {[Base EXCEPT !.query = query]})

Spaced == TextValue(<<" ", "-", "rank", " ", ",", ",", "name", " ">>)
Refused == TextValue(<<"rank", ",", "none">>)
OrderScenario(s) ==
    \/ \E order \in Orders, offset \in {Null, Number(1, FALSE)}, n \in 3..4 :
          s = Scenario(Append(Sized(n), "s1"),
                       {[Base EXCEPT !.query = Query(Null, offset, Null, SortValue(order)), !.sort = order]})
    \/ \E sort \in {Spaced, Refused, TextValue(<<>>), TextValue(<<" ">>)} :
          s = Scenario(Append(All, "s1"),
                       {[Base EXCEPT !.query = Query(Null, Null, Null, sort),
                                     !.sort = IF sort = Spaced THEN <<Desc(Rank), Asc(Name)>> ELSE <<>>]})

----------------------------------------------------------------------------
(* Links that the application adds: as it has them, or as others spell them.*)

Link(href, rel, params) == LinkTo(<<href>>, <<rel>>) \o params
P(name, value) == <<Pair(<<name>>, value)>>
Hard == <<"x", ",", "\"", ";", " ", "\\", "y", " ">>
XinEnglish == <<"UTF-8", "'", "en", "'", "x", "%", "20", "y">>
InEnglish == P("title", <<"x", " ", "y">>) \o <<Pair(TitleLang, <<"en">>), Pair(Starred(Title), XinEnglish)>>
OwnLink ==
    Link("u", "item", P("type", <<"text", "/", "html">>) \o P("title", Hard) \o P("media", <<>>)
                      \o P("anchor", <<"#", "x">>) \o P("rev", <<"up">>) \o <<Pair(Hreflang, <<<<"en">>, <<"fr">>>>)>>
                      \o P("ext", Hard) \o P("flag", <<>>) \o P("w", <<"x">>))
Written(links) == [links |-> links, text |-> <<>>, meant |-> links]
Spelled(text, meant) == [links |-> <<>>, text |-> text, meant |-> meant]
Bracketed(href) == <<"<", href, ">">>
IsItem == <<";", "rel", "=", "item">>
TitledX == <<";", "title", "=", "x">>
Relateds ==
    {Written(<<OwnLink, Link("v", "item", InEnglish)>>),
     [Written(<<[Link("u", "item", <<>>) EXCEPT ![2].value = <<" ", "item", "\t", " ", "start", " ">>]>>) EXCEPT
         !.meant = <<Link("u", "item", <<>>), Link("u", "start", <<>>)>>],
     Spelled(Bracketed("u") \o <<" ", ";", " ", "REL", " ", "=", " ", "item", " ", ";", " ", "flag", " ", ",", " ", ",">>
                 \o Bracketed("v") \o <<"rel", "=", "\"", "item", " ", "start", "\"", " ">>,
             <<Link("u", "item", P("flag", <<>>)), Link("v", "item", <<>>), Link("v", "start", <<>>)>>),
     Spelled(Bracketed("u") \o IsItem \o <<";", "rel", "=", "start">> \o TitledX
                 \o <<";", "title", "*", "=">> \o XinEnglish \o <<";", "title", "*", "=", "y">> \o TitledX
                 \o <<";", "ext", "*", "=">> \o XinEnglish \o <<";", "ext", "=", "y", ";", "hreflang", "=", "en",
                       ";", ";", "rev", "=", "x", ";", "hreflang", "=", "fr", ";", "rev", "=", "y">>,
             <<Link("u", "item", InEnglish \o P("ext", <<"x", " ", "y">>) \o <<Pair(<<"ext", "*">>, XinEnglish),
                    Pair(Hreflang, <<<<"en">>, <<"fr">>>>)>> \o P("rev", <<"x">>))>>),
     Spelled(Bracketed("u") \o IsItem \o TitledX \o <<";", "title", "*", "=", "y", ",">>
                 \o Bracketed("v") \o IsItem \o <<";", "title", "*", "=", "y">> \o TitledX,
             <<Link("u", "item", P("title", <<"x">>) \o <<Pair(Starred(Title), <<"y">>)>>),
               Link("v", "item", <<Pair(Starred(Title), <<"y">>)>>)>>),
     Spelled(Bracketed("u") \o IsItem \o <<",">> \o Bracketed("v") \o IsItem \o <<";", "title", "=", "\"", "x", ",", "<", "w", ">">>
                 \o IsItem \o <<"\\", "\"">>,
             <<Link("u", "item", <<>>)>>),
     Spelled(<<"<", ">">> \o IsItem \o <<",">> \o Bracketed("u") \o TitledX \o <<",">> \o Bracketed("v")
                 \o <<";", "rel", "=", "\"", "\"", ",">> \o Bracketed("w") \o <<"\"", "x", "\"">> \o IsItem
                 \o <<";", "ext", "=", "x", " ", "y", "\"", ";", "x", "\"", ",", "<", "u", ">", ",", "<", "u">>,
             <<Link("w", "item", P("ext", <<"x", "y", "\"", ";", "x", "\"">>))>>)}
LinkScenario(s) ==
    \E related \in Relateds, limit \in {1, 3} :
        s = [Scenario(Sized(3), {Limited(limit, <<>>)}) EXCEPT !.related = related]

----------------------------------------------------------------------------
(* Preferences: members as they are spelled, and what they mean.            *)

Comma == <<",", " ">>
Joined(texts) == FoldLeft(LAMBDA all, text : IF all = <<>> THEN text ELSE all \o Comma \o text, <<>>, texts)
Stated(members) ==
    [header |-> Joined([i \in DOMAIN members |-> members[i].text]),
     meant |-> UNION {{range @@ [place |-> i] : range \in members[i].meant} : i \in DOMAIN members}]
Lists(pool) == {<<>>} \cup {<<m>> : m \in pool} \cup {p \in pool \X pool : p[1] # p[2]}

Typed(names, params, q) == {[names |-> names, params |-> params, q |-> q]}
Html == <<<<"text">>, <<"html">>>>
Member(text, meant) == [text |-> text, meant |-> meant]
Q(text) == <<";", "q", "=">> \o text
QuotedXY == <<";", "v", "=", "\"", "x", ",", "y", "\"">>
XY == <<<<"v">>, <<"x", ",", "y">>>>
MediaRanges ==
    {Member(<<"text", "/", "html">>, Typed(Html, {}, 1000)),
     Member(<<"Text", "/", "html", " ", ";", " ", "Q", "=", "0", ".", "5">>, Typed(Html, {}, 500)),
     Member(<<"text", "/", "html">> \o QuotedXY \o Q(<<"0", ".", "5", "0", "1">>) \o <<";", "w", "=", "1">>,
            Typed(Html, {XY}, 501)),
     Member(<<"text", "/", "html">> \o QuotedXY \o <<";", "w", "=", "x">>, Typed(Html, {XY, <<<<"w">>, <<"x">>>>}, 1000)),
     Member(<<"text", "/", "html", ";", "V", "=", "x">>, Typed(Html, {<<<<"v">>, <<"x">>>>}, 1000)),
     Member(<<"text", "/", "*">> \o Q(<<"0", ".">>), Typed(<<<<"text">>, Star>>, {}, 0)),
     Member(<<"*", "/", "*">> \o Q(<<"0", ".", "1">>), Typed(<<Star, Star>>, {}, 100)),
     Member(<<"application", "/", "json", ";", "v", "=", "x">>,
            Typed(<<<<"application">>, <<"json">>>>, {<<<<"v">>, <<"x">>>>}, 1000)),
     Member(<<"text", "/", "csv", ";", "w">> \o Q(<<"0", ".", "5">>), Typed(<<<<"text">>, <<"csv">>>>, {}, 500)),
     Member(<<"application", "/", "json">> \o Q(<<"0">>), Typed(<<<<"application">>, <<"json">>>>, {}, 0)),
     Member(<<"text", ";", "v", "=", "x">>, {}), Member(<<"text", "/", "html">> \o Q(<<"1", ".", "5">>), {}),
     Member(<<"*", "/", "json">>, {}), Member(<<>>, {})}

HtmlXY == <<"text", "/", "html">> \o QuotedXY
OtherHtml == <<"text", "/", "Html", ";", " ", "V", "=", "\"", "x", "\"", ";", "w">>
TypeLists == {<<<<"text", "/", "html">>, Json>>, <<Json, HtmlXY, <<"text", "/", "html">>>>,
              <<<<"none">>, OtherHtml, Csv>>, <<>>}
Type(names, params) == [names |-> names, params |-> params]
TypeMeanings ==
    Json :> Type(<<<<"application">>, <<"json">>>>, {}) @@ Csv :> Type(<<<<"text">>, <<"csv">>>>, {})
    @@ <<"text", "/", "html">> :> Type(Html, {}) @@ HtmlXY :> Type(Html, {XY})
    @@ OtherHtml :> Type(Html, {<<<<"v">>, <<"x">>>>}) @@ <<"none">> :> Null
TypeScenario(s) ==
    \E members \in Lists(MediaRanges) :
        s = [Scenario(<<>>, {[Base EXCEPT !.accept = Stated(members), !.types = types] : types \in TypeLists})
                EXCEPT !.asks = 2]

Spoken(subtags, q) == {[subtags |-> subtags, q |-> q]}
SpokenRanges ==
    {Member(<<"EN", "-", "GB">> \o Q(<<"0", ".", "8">>), Spoken(<<"en", "gb">>, 800)),
     Member(<<"en">> \o Q(<<"0", ".", "8">>), Spoken(<<"en">>, 800)), Member(<<"fr">>, Spoken(<<"fr">>, 1000)),
     Member(<<"de">>, Spoken(<<"de">>, 1000)), Member(<<"de", "-", "1">>, Spoken(<<"de", "1">>, 1000)), Member(<<"en", ";", "w">> \o Q(<<"0">>), Spoken(<<"en">>, 0)),
     Member(<<"*">> \o Q(<<"0", ".", "8">>), Spoken(<<>>, 800)), Member(<<"1", "en">>, {}),
     Member(<<"en", "-">>, {}), Member(<<"fr">> \o Q(<<"x">>), {})}
LanguageLists == {<<<<"fr">>, <<"en", "-", "GB">>>>, <<<<"en">>, <<"en", "-", "GB">>, <<"de", "-", "1", "9">>>>, <<>>}
LanguageMeanings == <<"fr">> :> <<"fr">> @@ <<"en", "-", "GB">> :> <<"en", "gb">> @@ <<"en">> :> <<"en">>
                    @@ <<"de", "-", "1", "9">> :> <<"de", "19">>

Packed(coding, q) == {[coding |-> coding, q |-> q]}
PackedRanges ==
    {Member(<<"gzip">> \o Q(<<"0", ".", "5">>), Packed(<<"gzip">>, 500)),
     Member(<<"GZip">> \o Q(<<"0", ".", "7">>), Packed(<<"gzip">>, 700)), Member(<<"br">>, Packed(<<"br">>, 1000)),
     Member(<<"*">> \o Q(<<"0">>), Packed(Star, 0)), Member(<<"*">> \o Q(<<"0", ".", "5">>), Packed(Star, 500)),
     Member(<<"identity">> \o Q(<<"0">>), Packed(<<"identity">>, 0)), Member(<<"br", "/", "x">>, {})}
CodingLists == {<<<<"br">>, <<"GZip">>, <<"identity">>>>, <<<<"identity">>, <<"gzip">>>>, <<>>}
CodingMeanings == <<"br">> :> <<"br">> @@ <<"gzip">> :> <<"gzip">> @@ <<"GZip">> :> <<"gzip">>
                  @@ <<"identity">> :> <<"identity">>
MCMeaning == TypeMeanings @@ LanguageMeanings @@ CodingMeanings
ChoiceScenario(s) ==
    \/ \E members \in Lists(SpokenRanges), languages \in LanguageLists :
          s = Scenario(<<>>, {[Base EXCEPT !.acceptLanguage = Stated(members), !.languages = languages]})
    \/ \E members \in Lists(PackedRanges), codings \in CodingLists :
          s = Scenario(<<>>, {[Base EXCEPT !.acceptEncoding = Stated(members), !.codings = codings]})

MCScenario(s) == \/ ChangingScenario(s) \/ QueryScenario(s) \/ OrderScenario(s) \/ LinkScenario(s)
                 \/ TypeScenario(s) \/ ChoiceScenario(s)
=============================================================================
