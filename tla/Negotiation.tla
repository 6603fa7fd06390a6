----------------------------- MODULE Negotiation -----------------------------
(* What a client prefers, as it is read from Accept, Accept-Language and    *)
(* Accept-Encoding, and what of the server's choice answers it best.        *)
EXTENDS HeaderText, Integers

----------------------------------------------------------------------------
(* Weights, in thousandths.                                                 *)

DigitSymbols == <<"0", "1", "2", "3", "4", "5", "6", "7", "8", "9">>
DigitAt(text, i) == IF i > Len(text) THEN 0 ELSE SelectInSeq(DigitSymbols, LAMBDA d : d = text[i]) - 1

IsQValue(text) ==
    /\ text # <<>> /\ text[1] \in {"0", "1"} /\ Len(text) <= 5
    /\ Len(text) > 1 => text[2] = "."
    /\ ToSet(From(text, 3)) \subseteq (IF text[1] = "1" THEN {"0"} ELSE Digits)
ParseQValue(text) ==
    IF ~IsQValue(text) THEN Null
    ELSE 1000 * DigitAt(text, 1) + 100 * DigitAt(text, 3) + 10 * DigitAt(text, 4) + DigitAt(text, 5)

IsQParameter(segment) ==
    LET read == ParseSegment(segment) IN read.value # Null /\ LowerCase(read.key) = <<"q">>

(* The last weight counts, and one that is none spoils the whole member.    *)
QPlaces(segments) == {i \in 2..Len(segments) : IsQParameter(segments[i])}
LastWeight(weights) ==
    CASE weights = <<>> -> 1000
      [] \E i \in DOMAIN weights : weights[i] = Null -> Null
      [] OTHER -> weights[Max(DOMAIN weights)]
QOf(segments) == LastWeight([i \in QPlaces(segments) |-> ParseQValue(ParseSegment(segments[i]).value)])

----------------------------------------------------------------------------
(* Media types.                                                             *)

Star == <<"*">>
TypeAndSubtype(names) ==
    IF /\ Len(names) = 2 /\ IsHeaderToken(names[1]) /\ IsHeaderToken(names[2])
       /\ names[1] = Star => names[2] = Star
    THEN names ELSE Null
Trimmed(parts) == [i \in DOMAIN parts |-> Trim(parts[i])]
NamesOf(text) == TypeAndSubtype(Trimmed(SplitAt(LowerCase(text), {"/"})))

(* Parameters without a value are passed over. *)
PutParameter(params, segment) ==
    LET read == ParseSegment(Trim(segment))
    IN  IF read.value = Null THEN params ELSE Put(params, LowerCase(read.key), Unquote(read.value))
ParametersOf(segments, last) == FoldLeft(PutParameter, <<>>, SubSeq(segments, 2, last))

(* What follows the first weight is no parameter of the range. *)
ParametersEnd(segments) == Min(QPlaces(segments) \cup {Len(segments) + 1}) - 1
MediaRange(segments, names, q) ==
    IF names = Null \/ q = Null THEN Null
    ELSE [names |-> names, q |-> q, params |-> ParametersOf(segments, ParametersEnd(segments))]
ParseMediaRange(segments) == MediaRange(segments, NamesOf(segments[1]), QOf(segments))
Valid(entries) == SelectSeq(entries, LAMBDA entry : entry # Null)
ParseParts(parts) == Valid([i \in DOMAIN parts |-> ParseMediaRange(SplitQuoted(parts[i], ";"))])
ParseAcceptEntries(header) == ParseParts(NonBlank(SplitQuoted(header, ",")))

(* A stable sort by ranks, the highest first. *)
HigherOrFirst(one, other, i, j) ==
    \/ one = other /\ i < j
    \/ \E k \in DOMAIN one : one[k] > other[k] /\ \A l \in 1..k - 1 : one[l] = other[l]
InOrder(entries, order) == [n \in DOMAIN entries |-> entries[order[n]]]

(* parseAccept: the heaviest first, then the most specific, then by parameters. *)
GetSpecificity(entry) ==
    CASE entry.names = <<Star, Star>> -> 1
      [] entry.names[2] = Star -> 2
      [] OTHER -> IF entry.params = <<>> THEN 3 ELSE 4
ByPreference(entries) ==
    LET Rank(entry) == <<entry.q, GetSpecificity(entry), Len(entry.params)>>
        Before(i, j) == HigherOrFirst(Rank(entries[i]), Rank(entries[j]), i, j)
    IN  InOrder(entries, SetToSortSeq(DOMAIN entries, Before))
ParseAccept(header) == ByPreference(ParseAcceptEntries(header))

MimeType(segments, names) ==
    IF names = Null THEN Null
    ELSE [names |-> names,
          params |-> SelectSeq(ParametersOf(segments, Len(segments)), LAMBDA p : p.key # <<>>)]
ParseSegments(segments) == MimeType(segments, NamesOf(segments[1]))
ParseMimeTypeWithParams(text) == ParseSegments(SplitQuoted(text, ";"))

(* PARSED_MIME_TYPE_CACHE, from the texts that have been parsed. *)
(* Mutant: kept under the names alone. *)
ParsedUnderItsNames(cache, text) ==
    LET alike == {known \in DOMAIN cache : Head(SplitQuoted(known, ";")) = Head(SplitQuoted(text, ";"))}
    IN  IF alike # {} THEN cache[CHOOSE known \in alike : TRUE] ELSE ParseMimeTypeWithParams(text)
GetParsedMimeTypeCached(cache, text) ==
    IF text \in DOMAIN cache THEN cache[text] ELSE ParseMimeTypeWithParams(text)

ParamsMatch(required, candidate) ==
    \A i \in DOMAIN required : Lookup(candidate, required[i].key) = required[i].value
MatchesParsedMimeType(entry, mime) ==
    CASE ~ParamsMatch(entry.params, mime.params) -> 0
      [] entry.names = <<Star, Star>> -> 1
      [] entry.names = <<mime.names[1], Star>> -> 2
      [] entry.names = mime.names -> IF entry.params = <<>> THEN 3 ELSE 4
      [] OTHER -> 0

(* The weight of a type is that of the most specific range that it matches. *)
Closer(best, q, specificity) ==
    IF /\ specificity # 0
       /\ specificity > best.specificity \/ (specificity = best.specificity /\ q > best.q)
    THEN [specificity |-> specificity, q |-> q] ELSE best
Candidate(entries, mime) ==
    FoldLeft(LAMBDA best, entry : Closer(best, entry.q, MatchesParsedMimeType(entry, mime)),
             [specificity |-> -1, q |-> 0], entries)

Preferred(best, text, candidate) ==
    IF \/ candidate.q > best.q
       \/ candidate.q = best.q /\ best.q > 0 /\ candidate.specificity > best.specificity
    THEN [text |-> text, specificity |-> candidate.specificity, q |-> candidate.q] ELSE best
Better(best, entries, text, mime) ==
    IF mime = Null THEN best ELSE Preferred(best, text, Candidate(entries, mime))
NegotiateWithEntries(cache, entries, supported) ==
    FoldLeft(LAMBDA best, text : Better(best, entries, text, cache[text]),
             [text |-> Null, specificity |-> 0, q |-> 0], supported).text

(* The answer, and the cache as it leaves it.  Without a valid range        *)
(* anything is accepted, and nothing is parsed.                             *)
FirstOf(supported) == IF supported = <<>> THEN Null ELSE supported[1]
EntriesOf(header) == IF header = Null THEN <<>> ELSE ParseAcceptEntries(header)
CacheWith(cache, texts) ==
    [text \in DOMAIN cache \cup ToSet(texts) |-> GetParsedMimeTypeCached(cache, text)]
Negotiated(cache, entries, supported) ==
    [answer |-> NegotiateWithEntries(cache, entries, supported), cache |-> cache]
NegotiateAmong(cache, entries, supported) ==
    IF supported = <<>> \/ entries = <<>> THEN [answer |-> FirstOf(supported), cache |-> cache]
    ELSE Negotiated(CacheWith(cache, supported), entries, supported)
Negotiate(cache, header, supported) == NegotiateAmong(cache, EntriesOf(header), supported)

Json == <<"application", "/", "json">>
Csv == <<"text", "/", "csv">>
GetResponseFormat(cache, header) == Negotiate(cache, header, <<Json, Csv>>)

----------------------------------------------------------------------------
(* Languages and content codings.                                           *)

(* parseWeightedTokenList: its members, and the order that it puts them in. *)
WeightedToken(segments) == [token |-> segments[1], q |-> QOf(segments), specificity |-> 0]
WeightedParts(parts) ==
    SelectSeq([i \in DOMAIN parts |-> WeightedToken(Trimmed(SplitAt(parts[i], {";"})))],
              LAMBDA entry : entry.token # <<>> /\ entry.q # Null)
WeightedTokens(header) == WeightedParts(NonBlank(SplitAt(header, {","})))
ByWeight(entries) ==
    LET Rank(entry) == <<entry.q, entry.specificity>>
        Before(i, j) == HigherOrFirst(Rank(entries[i]), Rank(entries[j]), i, j)
    IN  InOrder(entries, SetToSortSeq(DOMAIN entries, Before))

(* Subtags are words, or digits; those of more than eight are left aside.   *)
Letters == LowerWords \cup UpperWords
AreSubtags(subtags) ==
    /\ \A i \in DOMAIN subtags : subtags[i] # <<>> /\ ToSet(subtags[i]) \subseteq Letters \cup Digits
    /\ ToSet(subtags[1]) \subseteq Letters
LanguageSpecificity(tag) == IF tag = Star THEN 0 ELSE Len(SplitAt(tag, {"-"}))
LanguageRange(entry) ==
    [token |-> LowerCase(entry.token), q |-> entry.q, specificity |-> LanguageSpecificity(entry.token)]
LanguageRanges(entries) ==
    LET known == SelectSeq(entries, LAMBDA e : e.token = Star \/ AreSubtags(SplitAt(e.token, {"-"})))
    IN  [i \in DOMAIN known |-> LanguageRange(known[i])]
ParseAcceptLanguage(header) == ByWeight(LanguageRanges(WeightedTokens(header)))

BasicMatch(range, tag) == range = Star \/ range = tag \/ IsPrefix(Append(range, "-"), tag)
Matches(range, supported) ==
    {i \in DOMAIN supported : range.q # 0 /\ BasicMatch(range.token, LowerCase(supported[i]))}
FirstMatch(matches) ==
    LET matched == {r \in DOMAIN matches : matches[r] # {}}
    IN  IF matched = {} THEN 0 ELSE Min(matches[Min(matched)])
NegotiateLanguage(ranges, supported) ==
    IF supported = <<>> \/ ranges = <<>> THEN FirstOf(supported)
    ELSE (<<Null>> \o supported)[FirstMatch([r \in DOMAIN ranges |-> Matches(ranges[r], supported)]) + 1]

CodingRanges(entries) ==
    LET known == SelectSeq(entries, LAMBDA entry : IsHeaderToken(entry.token))
    IN  [i \in DOMAIN known |-> [known[i] EXCEPT !.token = LowerCase(@)]]
ParseAcceptEncoding(header) == ByWeight(CodingRanges(WeightedTokens(header)))

(* The first weight of a coding; Null where there is none. *)
QAt(ranges, at) == IF at = 0 THEN Null ELSE ranges[at].q
QMap(ranges, coding) == QAt(ranges, SelectInSeq(ranges, LAMBDA range : range.token = coding))
CodingQ(explicit, wildcard, coding) ==
    CASE explicit # Null -> explicit
      [] wildcard # Null -> wildcard
      [] OTHER -> IF coding = <<"identity">> THEN 1000 ELSE 0
Heavier(best, coding, q) == IF q > best.q THEN [coding |-> coding, q |-> q] ELSE best
NegotiateEncoding(ranges, supported) ==
    LET Q(coding) == CodingQ(QMap(ranges, coding), QMap(ranges, Star), coding)
    IN  IF supported = <<>> \/ ranges = <<>> THEN FirstOf(supported)
        ELSE FoldLeft(LAMBDA best, coding : Heavier(best, coding, Q(LowerCase(coding))),
                      [coding |-> Null, q |-> 0], supported).coding
=============================================================================
