------------------------------- MODULE Listing -------------------------------
(* A collection that is served in pages, sorted and in the form that each   *)
(* client prefers, and a client that follows the links from page to page    *)
(* while items come and go.                                                 *)
(*                                                                          *)
(* The library reads queries and preferences, sorts, and makes the links;   *)
(* the collection and the cut of a page out of it are the application's.    *)
EXTENDS Negotiation, Links

CONSTANTS
    Object,                   \* the JSON object of each item
    Alphabet,                 \* lower-cased texts in the order of localeCompare
    DefaultLimit, MaxLimit,   \* the options of parsePaginationParams
    Infinity,                 \* a number above all others
    AllowedFields,
    Worth,                    \* what each item is worth in each field; or Null
    Meaning,                  \* what types, languages and codings stand for; or Null
    IsScenario(_)             \* the scenarios of this run

VARIABLES
    scenario,
    items,        \* the collection, in the order in which the application has it
    removed,      \* the items that it had
    asked,        \* how many requests the client has thought of
    request,      \* on its way to the server; or Null
    answer,       \* to the last request; or Null
    walk,         \* the pages that were reached from one to the next
    mimeTypes     \* PARSED_MIME_TYPE_CACHE
vars == <<scenario, items, removed, asked, request, answer, walk, mimeTypes>>

----------------------------------------------------------------------------
(* The values of a query: texts, those of numbers (whole, and whether a     *)
(* fraction follows; an empty text is zero), and those of cursors, which    *)
(* hold a value in turn.                                                    *)

TextValue(text) == [kind |-> "text", text |-> text]
Number(whole, fraction) == [kind |-> "number", whole |-> whole, fraction |-> fraction]

(* JSON has no infinity. *)
EncodeCursor(offset) ==
    [kind |-> "cursor",
     payload |-> IF offset = Infinity THEN TextValue(<<"null">>) ELSE Number(offset, FALSE)]
DecodeCursor(value) ==
    IF /\ value.kind = "cursor" /\ value.payload.kind = "number"
       /\ value.payload.whole \in 0..Infinity - 1 /\ ~value.payload.fraction
    THEN value.payload.whole ELSE Null

ParsingError(error) == [error |-> error, limit |-> 0, offset |-> 0, sort |-> Null]
OffsetFrom(cursor, offset) ==
    CASE cursor # Null -> DecodeCursor(cursor)
      [] offset = Null -> 0
      [] OTHER -> IF offset.kind = "number" /\ offset.whole >= 0 THEN offset.whole ELSE Null
LimitFrom(limit) ==
    CASE limit = Null -> DefaultLimit
      [] limit.kind = "number" -> Min({MaxLimit, Max({1, limit.whole})})
      [] OTHER -> Null
ParsePaginationParams(query) ==
    LET cursor == Lookup(query, "cursor")
        offset == OffsetFrom(cursor, Lookup(query, "offset"))
        limit == LimitFrom(Lookup(query, "limit"))
    IN  CASE offset = Null -> ParsingError(IF cursor # Null THEN "invalid_cursor" ELSE "invalid_offset")
          [] limit = Null -> ParsingError("invalid_limit")
          [] OTHER -> [error |-> Null, limit |-> limit, offset |-> offset, sort |-> Lookup(query, "sort")]

LastPageOffset(total, limit) == IF total = 0 THEN 0 ELSE ((total - 1) \div limit) * limit
IsFirstPage(offset) == offset = 0
(* Mutant: a full last page is taken for one that another follows. *)
IsLastPageUnlessFull(offset, limit, total) == total = 0 \/ offset + limit > total
IsLastPage(offset, limit, total) == total = 0 \/ offset + limit >= total

(* Of a parameter that is repeated, searchParams.set leaves the last value. *)
BuildUrl(offset, limit, extra) ==
    FoldLeft(LAMBDA query, pair :
                 IF pair.key \in {"cursor", "limit", "offset"} THEN query
                 ELSE Put(query, pair.key, pair.value),
             <<[key |-> "cursor", value |-> EncodeCursor(offset)],
               [key |-> "limit", value |-> Number(limit, FALSE)]>>, extra)
PreviousOffset(offset, limit) == IF offset = Infinity THEN Infinity ELSE Max({0, offset - limit})
BuildPaginationLinks(total, limit, offset, extra) ==
    LET offsets == [self |-> offset, first |-> 0, last |-> LastPageOffset(total, limit),
                    next |-> offset + limit, prev |-> PreviousOffset(offset, limit)]
        left == (IF IsLastPage(offset, limit, total) THEN {"next"} ELSE {})
                \cup (IF IsFirstPage(offset) THEN {"prev"} ELSE {})
    IN  [rel \in DOMAIN offsets \ left |-> BuildUrl(offsets[rel], limit, extra)]

(* A URL is one symbol that names its query, which is what it leads to. *)
UrlText(query) == <<ToString(query)>>
Hrefs(links) == [rel \in DOMAIN links |-> UrlText(links[rel])]
(* The Link field: the links of a page, and what the application adds.      *)
LinkHeader(links, related) ==
    JoinTexts(SelectSeq(<<BuildLinkHeader(Hrefs(links)), FormatLinkHeader(related.links), related.text>>,
                        LAMBDA text : text # <<>>))
(* Where the client gets by the first link that it reads of each relation.  *)
Leads(read, links) ==
    LET place(rel) == SelectInSeq(read, LAMBDA link : Lookup(link, Rel) = <<rel>>)
        Target(rel) == Lookup(read[place(rel)], Href)
    IN  [rel \in {r \in {"self", "first", "last", "next", "prev"} : place(r) # 0} |->
            CHOOSE query \in Range(links) : UrlText(query) = Target(rel)]

----------------------------------------------------------------------------
(* Sorting.  A value is [kind, of]; an object is a function from names.     *)

ParseSortString(text) ==
    LET fields == NonBlank(SplitAt(text, {","}))
    IN  [i \in DOMAIN fields |->
            IF Starts(fields[i], "-") THEN [field |-> Tail(fields[i]), direction |-> "desc"]
            ELSE [field |-> fields[i], direction |-> "asc"]]
BuildSortString(fields) ==
    LET texts == [i \in DOMAIN fields |->
            IF fields[i].direction = "desc" THEN <<"-">> \o fields[i].field ELSE fields[i].field]
    IN  FoldLeft(LAMBDA text, field : IF text = Null THEN field ELSE text \o <<",">> \o field, Null, texts)
ValidateSortFields(text) ==
    \A i \in DOMAIN ParseSortString(text) : ParseSortString(text)[i].field \in AllowedFields

Nullish == [kind |-> "nullish", of |-> Null]
GetValue(object, path) ==
    FoldLeft(LAMBDA value, name :
                 IF value.kind = "object" /\ name \in DOMAIN value.of THEN value.of[name] ELSE Nullish,
             object, SplitAt(path, {"."}))

PlaceOf(value) ==
    LET text == IF value.kind = "text" THEN value.of ELSE ToString(value.of)
    IN  SelectInSeq(Alphabet, LAMBDA known : known = (IF text \in DOMAIN Lower THEN Lower[text] ELSE text))
(* Missing values go last in either direction; what is of two kinds is      *)
(* compared as texts.                                                       *)
CompareValues(a, b, direction) ==
    LET Turned(n) == IF direction = "desc" THEN -n ELSE n
        kinds == <<a.kind, b.kind>>
    IN  CASE kinds = <<"nullish", "nullish">> -> 0
          [] a.kind = "nullish" -> 1
          [] b.kind = "nullish" -> -1
          [] kinds \in {<<"date", "date">>, <<"number", "number">>} -> Turned(a.of - b.of)
          [] kinds = <<"boolean", "boolean">> -> IF a.of = b.of THEN 0 ELSE Turned(IF a.of THEN 1 ELSE -1)
          [] OTHER -> Turned(PlaceOf(a) - PlaceOf(b))
ApplySorting(data, text) ==
    LET fields == ParseSortString(text)
        Compared(i, j, k) ==
            CompareValues(GetValue(Object[data[i]], fields[k].field), GetValue(Object[data[j]], fields[k].field),
                          fields[k].direction)
        Before(i, j) ==
            LET telling == {k \in DOMAIN fields : Compared(i, j, k) # 0}
            IN  IF telling = {} THEN i < j ELSE Compared(i, j, Min(telling)) < 0
        order == SetToSortSeq(DOMAIN data, Before)
    IN  [n \in DOMAIN data |-> data[order[n]]]

----------------------------------------------------------------------------

NewWalk(start, collection) ==
    [start |-> start, way |-> "none", offered |-> collection, known |-> Null, from |-> 0, seen |-> <<>>,
     inserted |-> 0, removed |-> 0]

Init ==
    /\ IsScenario(scenario)
    /\ items = scenario.items
    /\ removed = {} /\ asked = 0
    /\ request = Null /\ answer = Null
    /\ walk = NewWalk("asked", items)
    /\ mimeTypes = <<>>

Ask ==
    /\ request = Null /\ asked < scenario.asks
    /\ \E wanted \in scenario.requests : request' = wanted
    /\ asked' = asked + 1 /\ answer' = Null
    /\ walk' = NewWalk("asked", items)
    /\ UNCHANGED <<scenario, items, removed, mimeTypes>>

(* A field that may not be sorted by is refused as an invalid query is.     *)
ParamsOf(query) ==
    LET params == ParsePaginationParams(query)
    IN  IF /\ params.error = Null /\ params.sort # Null
           /\ ~ValidateSortFields(params.sort.text)
        THEN ParsingError("invalid_sort") ELSE params
Sorted(collection, params) ==
    IF params.sort = Null THEN collection ELSE ApplySorting(collection, params.sort.text)
PageOf(collection, params) ==
    SubSeq(Sorted(collection, params), params.offset + 1, Min({Len(collection), params.offset + params.limit}))
Walked(page, offset) ==
    [walk EXCEPT !.seen = IF walk.way = "prev" THEN page \o @ ELSE @ \o page,
                 !.known = IF @ = Null THEN items ELSE @,
                 !.from = IF walk.known = Null THEN offset ELSE @]
Unlinked == [made |-> <<>>, read |-> <<>>, leads |-> <<>>]
LinkedAs(made, read) == [made |-> made, read |-> read, leads |-> Leads(read, made)]
Linked(made) == LinkedAs(made, ParseLinkHeader(LinkHeader(made, scenario.related)))
Serve ==
    /\ request # Null
    /\ LET params == ParamsOf(request.query)
           whole == params.error = Null
           page == IF whole THEN PageOf(items, params) ELSE <<>>
           type == Negotiate(mimeTypes, request.accept.header, request.types)
           format == GetResponseFormat(type.cache, request.accept.header)
       IN  /\ answer' = [request |-> request, params |-> params, page |-> page, items |-> items,
                         linked |-> IF whole THEN Linked(BuildPaginationLinks(Len(items), params.limit,
                                                                             params.offset, request.query))
                                    ELSE Unlinked,
                         ranges |-> IF request.accept.header = Null THEN <<>> ELSE ParseAccept(request.accept.header),
                         type |-> type.answer, format |-> format.answer,
                         language |-> NegotiateLanguage(ParseAcceptLanguage(request.acceptLanguage.header),
                                                        request.languages),
                         coding |-> NegotiateEncoding(ParseAcceptEncoding(request.acceptEncoding.header),
                                                      request.codings)]
           /\ walk' = Walked(page, params.offset)
           /\ mimeTypes' = format.cache
    /\ request' = Null
    /\ UNCHANGED <<scenario, items, removed, asked>>

(* The walk goes on while the client keeps its direction. *)
Follow ==
    /\ request = Null /\ answer # Null
    /\ \E rel \in DOMAIN answer.linked.leads :
          /\ request' = [answer.request EXCEPT !.query = answer.linked.leads[rel]]
          /\ walk' = IF rel \in {"next", "prev"} /\ walk.way \in {"none", rel}
                     THEN [walk EXCEPT !.way = rel] ELSE NewWalk(rel, answer.items)
    /\ answer' = Null
    /\ UNCHANGED <<scenario, items, removed, asked, mimeTypes>>

InsertItem ==
    /\ \E item \in scenario.spare \ (ToSet(items) \cup removed), at \in 1..Len(items) + 1 :
          items' = InsertAt(items, at, item)
    /\ walk' = [walk EXCEPT !.inserted = IF walk.known = Null THEN 0 ELSE @ + 1]
    /\ UNCHANGED <<scenario, removed, asked, request, answer, mimeTypes>>

RemoveItem ==
    /\ Cardinality(removed) < scenario.removals
    /\ \E at \in DOMAIN items :
          /\ items' = RemoveAt(items, at)
          /\ removed' = removed \cup {items[at]}
    /\ walk' = [walk EXCEPT !.removed = IF walk.known = Null THEN 0 ELSE @ + 1]
    /\ UNCHANGED <<scenario, asked, request, answer, mimeTypes>>

Next == Ask \/ Serve \/ Follow \/ InsertItem \/ RemoveItem

Spec == Init /\ [][Next]_vars

----------------------------------------------------------------------------
(* What a client may rely on.                                               *)

(* The order that the client asked for: by what the items are worth, those  *)
(* that are worth nothing last, and otherwise as the collection has them.   *)
Ahead(a, b, direction) ==
    a # Null /\ (b = Null \/ IF direction = "desc" THEN a > b ELSE a < b)
Precedes(x, y, wanted) ==
    \E k \in DOMAIN wanted :
        /\ \A j \in 1..k - 1 : Worth[x][wanted[j].field] = Worth[y][wanted[j].field]
        /\ Ahead(Worth[x][wanted[k].field], Worth[y][wanted[k].field], wanted[k].direction)
Comes(x, y) ==
    LET wanted == answer.request.sort
        at(item) == SelectInSeq(walk.known, LAMBDA one : one = item)
    IN  Precedes(x, y, wanted) \/ (~Precedes(y, x, wanted) /\ at(x) < at(y))
Before(x) == Cardinality({y \in ToSet(walk.known) \ {x} : Comes(y, x)})

Seen == ToSet(walk.seen)
Repeats == Len(walk.seen) - Cardinality(Seen)
Stayed == ToSet(walk.known) \cap ToSet(items)
Ended(rel) == rel \notin DOMAIN answer.linked.leads /\ walk.way \in {"none", rel}
Undisturbed == walk.inserted = 0 /\ walk.removed = 0

ForwardIsWhole ==
    /\ Cardinality({x \in Stayed : Before(x) >= walk.from} \ Seen) <= walk.removed
    /\ Repeats <= walk.inserted
    /\ Undisturbed =>
          /\ \A x \in Seen : Before(x) >= walk.from
          /\ \A i, j \in DOMAIN walk.seen : i < j => Comes(walk.seen[i], walk.seen[j])

(* Where a walk back does not meet the first page, the last step is short.  *)
BackwardIsWhole ==
    LET limit == answer.params.limit
        overlap == (limit - (walk.from % limit)) % limit
    IN  /\ Cardinality({x \in Stayed : Before(x) < walk.from + limit} \ Seen) <= walk.inserted
        /\ Repeats <= walk.removed + overlap

LinksAreRead ==
    \A rel \in DOMAIN answer.linked.leads :
        LET params == ParamsOf(answer.linked.leads[rel])
        IN  [params EXCEPT !.offset = 0] = [answer.params EXCEPT !.offset = 0]

(* The links are read as they were meant, and what was read could be sent   *)
(* on: written again, it reads the same.                                    *)
Same(link, other) ==
    LET keys == {pair.key : pair \in ToSet(link)}
    IN  /\ keys = {pair.key : pair \in ToSet(other)}
        /\ \A key \in keys : Lookup(link, key) = Lookup(other, key)
AreRead(read, page, related) ==
    /\ SubSeq(read, 1, Len(page)) = page
    /\ Len(read) = Len(page) + Len(related)
    /\ \A i \in DOMAIN related : Same(read[Len(page) + i], related[i])
IsReadAgain(again, link) == Len(again) = 1 /\ Same(again[1], link)
LinksComeBack ==
    LET related == scenario.related.meant
    IN  answer.params.error = Null =>
            /\ AreRead(answer.linked.read, PageLinks(Hrefs(answer.linked.made)), related)
            /\ \A i \in DOMAIN related : IsReadAgain(ParseLinkHeader(FormatLink(related[i])), related[i])

OrderIsTaken == answer.request.sort # <<>> => answer.params.error = Null
LastIsLast ==
    walk.start = "last" /\ walk.way = "none" /\ items = walk.offered =>
        "next" \notin DOMAIN answer.linked.leads /\ (answer.page = <<>> => items = <<>>)
(* An answer with a page of what the collection still is. *)
IsPage == answer.params.error = Null /\ answer.params.offset # Infinity /\ items = answer.items

(* A client that follows next from page to page until there is none has     *)
(* seen every item that was there all along, once and in the order it asked *)
(* for, from the page it began with; each item that is removed meanwhile    *)
(* hides at most one other, and each that is inserted shows at most one     *)
(* again.  Following prev it is the other way round.  Every link in the Link*)
(* field is read as it was written, and as a page of the same size and      *)
(* order, and the last page has no next and, in a collection that is not    *)
(* empty, an item.                                                          *)
WalkIsWhole ==
    answer # Null =>
        /\ OrderIsTaken
        /\ LinksComeBack
        /\ IsPage => /\ Ended("next") => ForwardIsWhole
                     /\ Ended("prev") => BackwardIsWhole
                     /\ LinksAreRead /\ LastIsLast

----------------------------------------------------------------------------

Higher(one, other) ==
    \E k \in 1..3 : one[k] > other[k] /\ \A j \in 1..k - 1 : one[j] = other[j]

(* The ranges that a type is in; the closest of them give it its weight.    *)
Names(range) == CASE range.names[1] = Star -> 1 [] range.names[2] = Star -> 2
                  [] OTHER -> IF range.params = {} THEN 3 ELSE 4
RangesOf(type, meant) ==
    {range \in meant :
        /\ Meaning[type] # Null
        /\ range.names \in {<<Star, Star>>, <<Meaning[type].names[1], Star>>, Meaning[type].names}
        /\ range.params \subseteq Meaning[type].params}
Closeness(type, meant) == Max({Names(range) : range \in RangesOf(type, meant)} \cup {0})
Weight(type, meant) ==
    Max({range.q : range \in {r \in RangesOf(type, meant) : Names(r) = Closeness(type, meant)}} \cup {0})
TypeScore(type, meant) == <<Weight(type, meant), Closeness(type, meant), 0>>

(* Of ranges that are as heavy and as close, the one that is named first counts. *)
LanguageScore(tag, meant) ==
    LET spoken == {range \in meant : IsPrefix(range.subtags, Meaning[tag]) /\ range.q > 0}
        Score(range) == <<range.q, Len(range.subtags), -range.place>>
    IN  IF spoken = {} THEN <<0, 0, 0>>
        ELSE Score(CHOOSE range \in spoken : \A r \in spoken : ~Higher(Score(r), Score(range)))
CodingScore(coding, meant) ==
    LET named == {range \in meant : range.coding = Meaning[coding]}
        other == {range \in meant : range.coding = Star}
    IN  CASE named # {} -> <<Max({range.q : range \in named}), 0, 0>>
          [] other # {} -> <<Max({range.q : range \in other}), 0, 0>>
          [] OTHER -> <<IF Meaning[coding] = <<"identity">> THEN 1000 ELSE 0, 0, 0>>

(* The first of the choices with the highest score; none if all weigh nothing. *)
IsBest(chosen, choices, scores) ==
    IF \A i \in DOMAIN choices : scores[i][1] = 0 THEN chosen = Null
    ELSE \E i \in DOMAIN choices :
            /\ chosen = choices[i]
            /\ \A j \in DOMAIN choices :
                  ~Higher(scores[j], scores[i]) /\ (j < i => Higher(scores[i], scores[j]))
(* A client that states no preference gets what the server likes best. *)
IsPreferred(chosen, choices, meant, scores) ==
    IF meant = {} THEN chosen = FirstOf(choices) ELSE IsBest(chosen, choices, scores)

(* parseAccept lists what was meant, "highest preference first".            *)
AreOrdered(ranges, meant) ==
    LET Pairs(params) == {<<pair.key, pair.value>> : pair \in ToSet(params)}
        places(n) == {r.place : r \in {m \in meant : /\ m.names = ranges[n].names /\ m.q = ranges[n].q
                                                   /\ m.params = Pairs(ranges[n].params)}}
        Score(range) == <<range.q, Names(range), Cardinality(range.params)>>
    IN  \E range \in [DOMAIN ranges -> meant] :
            /\ ToSet(range) = meant /\ Len(ranges) = Cardinality(meant)
            /\ \A n \in DOMAIN ranges : range[n].place \in places(n)
            /\ \A n, m \in DOMAIN ranges : n < m =>
                  \/ Higher(Score(range[n]), Score(range[m]))
                  \/ Score(range[n]) = Score(range[m]) /\ range[n].place < range[m].place

(* Whatever the spelling of a client's preferences, and whatever types the  *)
(* process has negotiated before, it is answered with a type, a language    *)
(* and a coding of those that it accepts, and with none where none is       *)
(* acceptable; no other weighs more with the client, or as much by a closer *)
(* match.                                                                   *)
AnswerIsPreferred ==
    answer # Null =>
        LET wanted == answer.request
            types == wanted.types
            languages == wanted.languages
            codings == wanted.codings
            accept == wanted.accept.meant
            formats == <<Json, Csv>>
        IN  /\ AreOrdered(answer.ranges, accept)
            /\ IsPreferred(answer.type, types, accept, [i \in DOMAIN types |-> TypeScore(types[i], accept)])
            /\ IsPreferred(answer.format, formats, accept,
                           [i \in DOMAIN formats |-> TypeScore(formats[i], accept)])
            /\ LET meant == wanted.acceptLanguage.meant
               IN  IsPreferred(answer.language, languages, meant,
                               [i \in DOMAIN languages |-> LanguageScore(languages[i], meant)])
            /\ LET meant == wanted.acceptEncoding.meant
               IN  IsPreferred(answer.coding, codings, meant,
                               [i \in DOMAIN codings |-> CodingScore(codings[i], meant)])
=============================================================================
