-------------------------------- MODULE Links --------------------------------
(* Link header fields: links as they are written, and as the parser's state *)
(* machine reads them.                                                      *)
(*                                                                          *)
(* A link holds its parameters as [key, value] pairs in the order of the    *)
(* object, href and rel among them; that of hreflang is a sequence of texts,*)
(* which the code has as a string when there is one.  An extension that is  *)
(* an array, which no reader makes, is left out.                            *)
EXTENDS HeaderText

Href == <<"href">>
Rel == <<"rel">>
Rev == <<"rev">>
Hreflang == <<"hreflang">>
Title == <<"title">>
TitleLang == <<"titleLang">>
Starred(name) == Append(name, "*")
IsStarred(name) == name # <<>> /\ Last(name) = "*"

OrderedLinkParamKeys == <<<<"type">>, Title, <<"media">>, <<"anchor">>, Rev>>
FormatLinkSkipKeys == {Href, Rel, TitleLang, Hreflang} \cup ToSet(OrderedLinkParamKeys)
IsLinkParamName(name) == IsHeaderToken(IF IsStarred(name) THEN Front(name) ELSE name)

RelationSpace == {" ", "\t", "\n", "\r"}
SplitRelationTokens(text) == SelectSeq(SplitAt(text, RelationSpace), LAMBDA token : token # <<>>)

----------------------------------------------------------------------------
(* Writing.  Null where it throws.                                          *)

Extensions(link) == SelectSeq(link, LAMBDA param : param.key \notin FormatLinkSkipKeys)
QuotedParam(name, text) == name \o <<"=">> \o Quoted(text)
LinkParams(link) ==
    LET ordered == SelectSeq(OrderedLinkParamKeys, LAMBDA name : Lookup(link, name) # Null)
        languages == IF Lookup(link, Hreflang) = Null THEN <<>> ELSE Lookup(link, Hreflang)
        others == Extensions(link)
    IN  [i \in DOMAIN ordered |-> QuotedParam(ordered[i], Lookup(link, ordered[i]))]
        \o [i \in DOMAIN languages |-> QuotedParam(Hreflang, languages[i])]
        \o [i \in DOMAIN others |-> others[i].key \o <<"=">> \o QuoteIfNeeded(others[i].value)]

IsWritable(link) ==
    /\ Lookup(link, Rel) # Null /\ Trim(Lookup(link, Rel)) # <<>>
    /\ Mentionable(Trim(Lookup(link, Rel)))
    /\ \A i \in DOMAIN link :
          CASE link[i].key \in {Rel, TitleLang} -> TRUE
            [] link[i].key = Hreflang -> \A n \in DOMAIN link[i].value : Mentionable(link[i].value[n])
            [] OTHER -> Mentionable(link[i].value)
    /\ \A i \in DOMAIN Extensions(link) : IsLinkParamName(Extensions(link)[i].key)
(* The relations are quoted as they are. *)
FormatLink(link) ==
    IF ~IsWritable(link) THEN Null
    ELSE FoldLeft(LAMBDA text, param : text \o <<";", " ">> \o param,
                  <<"<">> \o Lookup(link, Href) \o <<">", ";", " ">> \o Rel
                      \o <<"=", "\"">> \o Trim(Lookup(link, Rel)) \o <<"\"">>,
                  LinkParams(link))
JoinTexts(texts) ==
    IF \E i \in DOMAIN texts : texts[i] = Null THEN Null
    ELSE FoldLeft(LAMBDA all, text : IF all = <<>> THEN text ELSE all \o <<",", " ">> \o text, <<>>, texts)
FormatLinkHeader(links) == JoinTexts([i \in DOMAIN links |-> FormatLink(links[i])])

LinkTo(href, rel) == <<[key |-> Href, value |-> href], [key |-> Rel, value |-> rel]>>
(* The links of a page: from the name of each relation to where it leads. *)
PageLinks(hrefs) ==
    LET rels == SelectSeq(<<"self", "first", "prev", "next", "last">>, LAMBDA rel : rel \in DOMAIN hrefs)
    IN  [i \in DOMAIN rels |-> LinkTo(hrefs[rels[i]], <<rels[i]>>)]
BuildLinkHeader(hrefs) == FormatLinkHeader(PageLinks(hrefs))

----------------------------------------------------------------------------
(* Reading.                                                                 *)

LanguageOf(text) ==
    LET quotes == SetToSortSeq({i \in DOMAIN text : text[i] = "'"}, <)
    IN  SubSeq(text, quotes[1] + 1, quotes[2] - 1)

(* What is decoded takes the place of the plain parameter; where it cannot  *)
(* be decoded, it is only kept.  A second title* is not looked at.          *)
PutDecoded(link, base, decoded) == Put(link, base, IF base = Hreflang THEN <<decoded>> ELSE decoded)
PutLanguage(link, language) == IF language = <<>> THEN link ELSE Put(link, TitleLang, language)
SaveDecoded(link, base, value, decoded) ==
    CASE decoded = Null -> link
      [] base = Title -> PutLanguage(PutDecoded(link, base, decoded), LanguageOf(value))
      [] OTHER -> PutDecoded(link, base, decoded)
SaveStarred(link, name, value) ==
    IF name = Starred(Title) /\ Lookup(link, name) # Null THEN link
    ELSE Put(SaveDecoded(link, Front(name), value, DecodeExtValue(value)), name, value)

(* Of a parameter that is repeated the first counts, but every hreflang. *)
SaveParam(link, name, value) ==
    CASE name = <<>> -> link
      [] name = Hreflang ->
            Put(link, name, Append(IF Lookup(link, name) = Null THEN <<>> ELSE Lookup(link, name), value))
      [] IsStarred(name) -> SaveStarred(link, name, value)
      [] OTHER -> IF \/ Lookup(link, name) # Null
                     \/ name # Rev /\ Lookup(link, Starred(name)) # Null
                  THEN link ELSE Put(link, name, value)

(* A link of several relations is as many links, one without any is none.   *)
LinksOf(link) ==
    LET rels == IF Lookup(link, Rel) = Null \/ Lookup(link, Href) \in {Null, <<>>} THEN <<>>
                ELSE SplitRelationTokens(Lookup(link, Rel))
    IN  [i \in DOMAIN rels |-> Put(link, Rel, rels[i])]

LinkParser == [state |-> "BETWEEN_LINKS", link |-> <<>>, name |-> <<>>, value |-> <<>>, uri |-> <<>>,
               escaped |-> FALSE, links |-> <<>>]
ParamSaved(p) ==
    [p EXCEPT !.link = SaveParam(@, LowerCase(Trim(p.name)), Unquote(Trim(p.value))), !.name = <<>>, !.value = <<>>]
LinkSaved(p) == [p EXCEPT !.links = @ \o LinksOf(p.link), !.link = <<>>, !.uri = <<>>]
Entering(p, state) == [p EXCEPT !.state = state]

InUri(p, symbol) ==
    IF symbol = ">" THEN Entering([p EXCEPT !.link = Put(@, Href, Trim(p.uri))], "IN_PARAMS")
    ELSE [p EXCEPT !.uri = Append(@, symbol)]
(* In each of the three states of a parameter a separator ends it. *)
ParamEnd(p, symbol) ==
    IF symbol = ";" THEN Entering(p, "IN_PARAM_NAME") ELSE Entering(LinkSaved(p), "BETWEEN_LINKS")
InParam(p, symbol) ==
    CASE symbol \in {";", ","} -> ParamEnd(ParamSaved(p), symbol)
      [] symbol = "=" /\ p.state = "IN_PARAM_NAME" -> Entering(p, "IN_PARAM_VALUE")
      [] symbol = "\"" /\ p.state # "IN_PARAM_NAME" ->
            Entering([p EXCEPT !.value = Append(@, symbol)], "IN_QUOTED_VALUE")
      [] symbol \in {" ", "\t"} -> p
      [] p.state = "IN_PARAM_VALUE" -> [p EXCEPT !.value = Append(@, symbol)]
      [] OTHER -> Entering([p EXCEPT !.name = Append(@, symbol)], "IN_PARAM_NAME")
InQuotedValue(p, symbol) ==
    [p EXCEPT !.value = Append(@, symbol), !.escaped = ~p.escaped /\ symbol = "\\",
              !.state = IF ~p.escaped /\ symbol = "\"" THEN "IN_PARAM_VALUE" ELSE @]
ReadLinkSymbol(p, symbol) ==
    CASE p.state = "BETWEEN_LINKS" -> Entering([p EXCEPT !.uri = <<>>], "IN_URI")
      [] p.state = "IN_URI" -> InUri(p, symbol)
      [] p.state = "IN_QUOTED_VALUE" -> InQuotedValue(p, symbol)
      [] OTHER -> InParam(p, symbol)
RECURSIVE ReadLinks(_, _, _)
ReadLinks(p, text, at) ==
    CASE at > Len(text) -> p
      [] p.state = "BETWEEN_LINKS" /\ text[at] # "<" -> ReadLinks(p, text, at + 1)
      [] OTHER -> ReadLinks(ReadLinkSymbol(p, text[at]), text, at + 1)

(* A link whose quotes or brackets stay open is dropped, those before not.  *)
LinksRead(p) ==
    IF p.state \in {"IN_PARAMS", "IN_PARAM_NAME", "IN_PARAM_VALUE"} THEN LinkSaved(ParamSaved(p)).links ELSE p.links
ParseLinkHeader(text) == LinksRead(ReadLinks(LinkParser, text, 1))
=============================================================================
