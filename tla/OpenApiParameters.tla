------------------------- MODULE OpenApiParameters -------------------------
(* OpenAPI parameter serialization: the styles a parameter may be written   *)
(* in and the parsers that read it back.  A text is a sequence of           *)
(* characters; what travels is a sequence of symbols, characters that are   *)
(* either written as they are or as a percent triplet.  Names and the       *)
(* characters of a text are ASCII, so that a triplet is one character.      *)
EXTENDS Naturals, SequencesExt

CONSTANT Null

ASSUME OpenApiAssumption == Null \notin BOOLEAN

Symbol(c, pct) == [char |-> c, pct |-> pct]
Raw(c) == Symbol(c, FALSE)
RawText(text) == [i \in DOMAIN text |-> Raw(text[i])]

Primitive(text) == [type |-> "primitive", text |-> text]
List(items) == [type |-> "array", items |-> items]
Object(members) == [type |-> "object", members |-> members]

----------------------------------------------------------------------------
(* Percent-encoding.                                                        *)

ReservedCharacters == {":", "/", "?", "#", "[", "]", "@", "!", "$", "&", "'",
                       "(", ")", "*", "+", ",", ";", "="}
OtherEncoded == {" ", "|", "%", "{", "}", "\"", "<", ">", "^"}

(* Mutant: the table of allowed characters includes the list delimiter. *)
EncodeKeepsComma(text, allowReserved) ==
    [i \in DOMAIN text |->
        Symbol(text[i], \/ text[i] \in OtherEncoded
                        \/ text[i] \in ReservedCharacters \ {","} /\ ~allowReserved)]

(* encodeRfc3986 without preservePctTriplets: "%" itself becomes a triplet. *)
Encode(text, allowReserved) ==
    [i \in DOMAIN text |->
        Symbol(text[i], \/ text[i] \in OtherEncoded
                        \/ text[i] \in ReservedCharacters /\ ~allowReserved)]
EncodeStrict(text) == Encode(text, FALSE)

(* decodePercentComponent: a bare "%" begins no triplet of these texts. *)
DecodeComponent(symbols) ==
    IF Raw("%") \in ToSet(symbols) THEN Null
    ELSE [i \in DOMAIN symbols |-> symbols[i].char]

----------------------------------------------------------------------------
(* Splitting and joining.                                                   *)

Join(parts, delimiter) ==
    FlattenSeq([i \in DOMAIN parts |->
                   IF i = 1 THEN parts[i] ELSE delimiter \o parts[i]])

(* The pieces of s between the positions that hold the delimiter. *)
SplitAt(s, delimiter) ==
    LET Bound(cuts) == [k \in 1..Len(cuts) - 1 |->
                           SubSeq(s, cuts[k] + 1, cuts[k + 1] - 1)]
    IN  Bound(SetToSortSeq({0, Len(s) + 1} \cup {i \in DOMAIN s : s[i] = delimiter},
                           LAMBDA i, j : i < j))

SplitDelimited(s, delimiter) == IF s = <<>> THEN <<>> ELSE SplitAt(s, delimiter)

IfRead(value, Use(_)) == IF value = Null THEN Null ELSE Use(value)

DecodeAll(parts) ==
    LET decoded == [i \in DOMAIN parts |-> DecodeComponent(parts[i])]
    IN  IF Null \in ToSet(decoded) THEN Null ELSE decoded

DecodeSplitDelimited(s, delimiter) == DecodeAll(SplitDelimited(s, delimiter))

(* The object that has the members of a sequence of [key, value], or Null   *)
(* when a key is empty or occurs twice.                                     *)
FromMembers(members) ==
    LET keys == [i \in DOMAIN members |-> members[i].key]
    IN  IF <<>> \in ToSet(keys) \/ ~IsInjective(keys) THEN Null
        ELSE Object([k \in ToSet(keys) |->
                       members[CHOOSE i \in DOMAIN members : keys[i] = k].value])

ParseObjectFromPairs(parts) ==
    IF Len(parts) % 2 # 0 THEN Null
    ELSE FromMembers([i \in 1..(Len(parts) \div 2) |->
                         [key |-> parts[2 * i - 1], value |-> parts[2 * i]]])

(* A piece "key=value", cut at its first "=" and decoded. *)
ReadAssignment(piece) ==
    LET eqIndex == SelectInSeq(piece, LAMBDA c : c = Raw("="))
        key == DecodeComponent(SubSeq(piece, 1, eqIndex - 1))
        value == DecodeComponent(SubSeq(piece, eqIndex + 1, Len(piece)))
    IN  IF eqIndex <= 1 \/ key = Null \/ value = Null THEN Null
        ELSE [key |-> key, value |-> value]

ParseAssignments(pieces) ==
    LET read == [i \in DOMAIN pieces |-> ReadAssignment(pieces[i])]
    IN  IF Null \in ToSet(read) THEN Null ELSE FromMembers(read)

(* What a list of decoded parts is for a parameter of the type. *)
FromParts(valueType, parts) ==
    IF valueType = "array" THEN List(parts) ELSE ParseObjectFromPairs(parts)

----------------------------------------------------------------------------
(* The specification of a parameter.                                        *)

StyleDefault(in) == IF in \in {"query", "cookie"} THEN "form" ELSE "simple"
AllowedStyles(in) ==
    CASE in = "query" -> {"form", "spaceDelimited", "pipeDelimited", "deepObject"}
      [] in = "path" -> {"simple", "label", "matrix"}
      [] in = "header" -> {"simple"}
      [] in = "cookie" -> {"form"}

(* style, explode and allowReserved are Null when the document omits them;  *)
(* the result is Null where the code throws.                                *)
Normalize(spec) ==
    LET style == IF spec.style = Null THEN StyleDefault(spec.in) ELSE spec.style
        explode == IF spec.explode = Null THEN style = "form" ELSE spec.explode
        allowReserved == spec.allowReserved = TRUE
    IN  IF \/ style \notin AllowedStyles(spec.in)
           \/ spec.in # "query" /\ allowReserved
           \/ style = "deepObject" /\ ~(spec.valueType = "object" /\ explode)
           \/ /\ style \in {"spaceDelimited", "pipeDelimited"}
              /\ spec.valueType # "array" \/ explode
           \/ spec.in = "cookie" /\ spec.valueType # "primitive" /\ explode
        THEN Null
        ELSE [spec EXCEPT !.style = style, !.explode = explode,
                          !.allowReserved = allowReserved]

----------------------------------------------------------------------------
(* Formatting.  The order of an object's keys is the one fixed order that   *)
(* SetToSeq gives; the code sorts them by localeCompare.                    *)

SortedKeys(value) == IF value.type = "object" THEN SetToSeq(DOMAIN value.members) ELSE <<>>

Pieces(explode, value, EncodeKey(_), EncodeValue(_)) ==
    CASE value.type = "primitive" -> <<EncodeValue(value.text)>>
      [] value.type = "array" ->
            [i \in DOMAIN value.items |-> EncodeValue(value.items[i])]
      [] value.type = "object" ->
            LET keys == SortedKeys(value)
                Member(key) == EncodeValue(value.members[key])
            IN  IF explode
                THEN [i \in DOMAIN keys |->
                         EncodeKey(keys[i]) \o <<Raw("=")>> \o Member(keys[i])]
                ELSE FlattenSeq([i \in DOMAIN keys |->
                         <<EncodeKey(keys[i]), Member(keys[i])>>])

StrictPieces(spec, value) ==
    Pieces(spec.explode, value, EncodeStrict, EncodeStrict)

FormatSimpleValue(spec, value) == Join(StrictPieces(spec, value), <<Raw(",")>>)

FormatLabelValue(spec, value) ==
    Join(StrictPieces(spec, value),
         <<Raw(IF spec.explode /\ value.type # "primitive" THEN "." ELSE ",")>>)

FormatMatrixValue(spec, value) ==
    LET name == RawText(spec.name) \o <<Raw("=")>>
        pieces == StrictPieces(spec, value)
        Prefixed(prefix) ==
            FlattenSeq([i \in DOMAIN pieces |-> <<Raw(";")>> \o prefix \o pieces[i]])
    IN  CASE spec.explode /\ value.type = "array" -> Prefixed(name)
          [] spec.explode /\ value.type = "object" -> Prefixed(<<>>)
          [] OTHER -> <<Raw(";")>> \o name \o Join(pieces, <<Raw(",")>>)

FormatPathParameter(spec, value) ==
    CASE spec.style = "simple" -> FormatSimpleValue(spec, value)
      [] spec.style = "label" -> <<Raw(".")>> \o FormatLabelValue(spec, value)
      [] spec.style = "matrix" -> FormatMatrixValue(spec, value)

FormatHeaderParameter(spec, value) == FormatSimpleValue(spec, value)

(* The whole value is encoded once, its commas included. *)
FormatCookieParameter(spec, value) ==
    LET parts == Pieces(FALSE, value, LAMBDA key : key, LAMBDA text : text)
    IN  EncodeStrict(Join(parts, <<",">>))

Entry(name, value) == [name |-> name, value |-> value]

FormatQueryEntries(spec, value) ==
    LET name == EncodeStrict(spec.name)
        Value(text) == Encode(text, spec.allowReserved)
        keys == SortedKeys(value)
        Joined(delimiter) ==
            <<Entry(name, Join(Pieces(FALSE, value, EncodeStrict, Value),
                               <<delimiter>>))>>
    IN  CASE spec.style = "deepObject" ->
                [i \in DOMAIN keys |->
                    Entry(name \o <<Symbol("[", TRUE)>> \o EncodeStrict(keys[i])
                               \o <<Symbol("]", TRUE)>>,
                          Value(value.members[keys[i]]))]
          [] spec.style = "spaceDelimited" -> Joined(Symbol(" ", TRUE))
          [] spec.style = "pipeDelimited" -> Joined(Raw("|"))
          [] spec.style = "form" /\ spec.explode /\ value.type = "array" ->
                [i \in DOMAIN value.items |-> Entry(name, Value(value.items[i]))]
          [] spec.style = "form" /\ spec.explode /\ value.type = "object" ->
                [i \in DOMAIN keys |->
                    Entry(EncodeStrict(keys[i]), Value(value.members[keys[i]]))]
          [] OTHER -> Joined(Raw(","))

FormatQueryParameter(spec, value) ==
    LET entries == FormatQueryEntries(spec, value)
    IN  Join([i \in DOMAIN entries |->
                 entries[i].name \o <<Raw("=")>> \o entries[i].value],
             <<Raw("&")>>)

----------------------------------------------------------------------------
(* Parsing.                                                                 *)

ParsePrimitive(symbols) == IfRead(DecodeComponent(symbols), Primitive)

ParseList(spec, symbols, delimiter) ==
    IfRead(DecodeSplitDelimited(symbols, delimiter),
           LAMBDA parts : FromParts(spec.valueType, parts))

ParseSimpleSerialized(spec, symbols) ==
    CASE spec.valueType = "primitive" -> ParsePrimitive(symbols)
      [] spec.valueType = "object" /\ spec.explode ->
            ParseAssignments(SplitDelimited(symbols, Raw(",")))
      [] OTHER -> ParseList(spec, symbols, Raw(","))

ParseLabelSerialized(spec, payload) ==
    CASE spec.valueType = "primitive" -> ParsePrimitive(payload)
      [] spec.valueType = "object" /\ spec.explode ->
            ParseAssignments(SplitDelimited(payload, Raw(".")))
      [] OTHER -> ParseList(spec, payload, Raw(IF spec.explode THEN "." ELSE ","))

AfterPrefix(symbols, prefix) ==
    IF IsPrefix(prefix, symbols)
    THEN SubSeq(symbols, Len(prefix) + 1, Len(symbols)) ELSE Null

ParseMatrixSerialized(spec, symbols) ==
    LET segments == SelectSeq(SplitAt(symbols, Raw(";")), LAMBDA s : s # <<>>)
        prefix == RawText(spec.name) \o <<Raw("=")>>
        payloads == [i \in DOMAIN segments |-> AfterPrefix(segments[i], prefix)]
    IN  CASE symbols = <<>> \/ segments = <<>> -> Null
          [] symbols # <<>> /\ segments # <<>> /\ symbols[1] # Raw(";") -> Null
          [] spec.explode /\ spec.valueType = "object" -> ParseAssignments(segments)
          [] Null \in ToSet(payloads) -> Null
          [] spec.explode /\ spec.valueType = "array" -> IfRead(DecodeAll(payloads), List)
          [] Len(segments) # 1 -> Null
          [] spec.valueType = "primitive" -> ParsePrimitive(payloads[1])
          [] OTHER -> ParseList(spec, payloads[1], Raw(","))

ParsePathParameter(spec, symbols) ==
    CASE spec.style = "simple" -> ParseSimpleSerialized(spec, symbols)
      [] spec.style = "label" ->
            IfRead(AfterPrefix(symbols, <<Raw(".")>>),
                   LAMBDA payload : ParseLabelSerialized(spec, payload))
      [] spec.style = "matrix" -> ParseMatrixSerialized(spec, symbols)

ParseHeaderParameter(spec, symbols) == ParseSimpleSerialized(spec, symbols)

ParseDelimitedValue(spec, text, delimiter) ==
    IF spec.valueType = "primitive" THEN Primitive(text)
    ELSE FromParts(spec.valueType, SplitDelimited(text, delimiter))

(* parseCookie has taken the value out of the field; it is decoded as a     *)
(* whole and split afterwards.                                              *)
ParseCookieParameter(spec, symbols) ==
    IfRead(DecodeComponent(symbols),
           LAMBDA text : ParseDelimitedValue(spec, text, ","))

(* parseRawQueryString: entries are still encoded. *)
ParseRawQueryString(symbols) ==
    LET pieces == SelectSeq(SplitAt(symbols, Raw("&")), LAMBDA s : s # <<>>)
        Read(piece) ==
            LET eqIndex == SelectInSeq(piece, LAMBDA c : c = Raw("="))
            IN  IF eqIndex = 0 THEN Entry(piece, <<>>)
                ELSE Entry(SubSeq(piece, 1, eqIndex - 1),
                           SubSeq(piece, eqIndex + 1, Len(piece)))
    IN  [i \in DOMAIN pieces |-> Read(pieces[i])]

(* The three sources of parseQueryParameter: the string, a URLSearchParams  *)
(* made from it (which decodes, and takes "+" for a space), or entries the  *)
(* caller has decoded.                                                      *)
FormDecode(symbols) ==
    [i \in DOMAIN symbols |->
        IF symbols[i] = Raw("+") THEN " " ELSE symbols[i].char]
ReadQueryEntries(symbols, source) ==
    LET entries == ParseRawQueryString(symbols)
        Chars(s) == [i \in DOMAIN s |-> s[i].char]
    IN  CASE source = "query-string" -> entries
          [] source = "url-search-params" ->
                [i \in DOMAIN entries |->
                    Entry(FormDecode(entries[i].name), FormDecode(entries[i].value))]
          [] source = "entries" ->
                [i \in DOMAIN entries |->
                    Entry(Chars(entries[i].name), Chars(entries[i].value))]

NamedValues(entries, name) ==
    LET named == SelectSeq(entries, LAMBDA entry : entry.name = name)
    IN  [i \in DOMAIN named |-> named[i].value]

(* Names and values decoded, or Null where one is malformed. *)
DecodedEntries(entries) ==
    LET names == DecodeAll([i \in DOMAIN entries |-> entries[i].name])
        values == DecodeAll([i \in DOMAIN entries |-> entries[i].value])
    IN  IF names = Null \/ values = Null THEN Null
        ELSE [i \in DOMAIN entries |-> Entry(names[i], values[i])]

ParseExplodedObject(entries) ==
    IF entries = <<>> THEN Null
    ELSE FromMembers([i \in DOMAIN entries |->
                         [key |-> entries[i].name, value |-> entries[i].value]])

(* matchesQueryName accepts the name in any encoding. *)
EncodedNamedValues(spec, entries) ==
    LET named == SelectSeq(entries, LAMBDA e : DecodeComponent(e.name) = spec.name)
    IN  [i \in DOMAIN named |-> named[i].value]

Delimiter(style) ==
    CASE style = "spaceDelimited" -> " "
      [] style = "pipeDelimited" -> "|"
      [] OTHER -> ","

(* The encoded value is split first and decoded afterwards.  A space is     *)
(* never written as it is, so that a list delimited by spaces is one piece. *)
ParseQueryEncoded(spec, entries) ==
    LET values == EncodedNamedValues(spec, entries)
    IN  CASE values = <<>> -> Null
          [] values # <<>> /\ spec.valueType = "primitive" -> ParsePrimitive(values[1])
          [] values # <<>> /\ spec.valueType = "array" /\ spec.explode ->
                IfRead(DecodeAll(values), List)
          [] OTHER -> ParseList(spec, values[1], Raw(Delimiter(spec.style)))

(* Already decoded, so that a delimiter inside an item cuts it too.  The    *)
(* form's object is split without regard to an empty text, which is then    *)
(* one piece and no object.                                                 *)
ParseQueryDecoded(spec, entries) ==
    LET values == NamedValues(entries, spec.name)
    IN  CASE values = <<>> -> Null
          [] values # <<>> /\ spec.valueType = "array" /\ spec.explode -> List(values)
          [] values # <<>> /\ spec.valueType = "object" -> ParseObjectFromPairs(SplitAt(values[1], ","))
          [] OTHER -> ParseDelimitedValue(spec, values[1], Delimiter(spec.style))

(* The members "name[key]"; other entries are left to other parameters, and *)
(* here there are none.                                                     *)
ParseDeepObjectQuery(spec, entries) ==
    LET prefix == spec.name \o <<"[">>
        own == SelectSeq(entries, LAMBDA e : IsPrefix(prefix, e.name))
        Key(name) == SubSeq(name, Len(prefix) + 1, Len(name) - 1)
    IN  IF \/ own = <<>>
           \/ \E i \in DOMAIN own : \/ Last(own[i].name) # "]"
                                    \/ {"[", "]"} \cap ToSet(Key(own[i].name)) # {}
        THEN Null
        ELSE FromMembers([i \in DOMAIN own |->
                             [key |-> Key(own[i].name), value |-> own[i].value]])

ParseQueryParameter(spec, symbols, source) ==
    LET entries == ReadQueryEntries(symbols, source)
        encoded == source = "query-string"
        decoded == IF encoded THEN DecodedEntries(entries) ELSE entries
    IN  CASE spec.style = "deepObject" ->
                IfRead(decoded, LAMBDA d : ParseDeepObjectQuery(spec, d))
          [] spec.style = "form" /\ spec.valueType = "object" /\ spec.explode ->
                IF source # "entries" THEN Null ELSE ParseExplodedObject(decoded)
          [] encoded -> ParseQueryEncoded(spec, entries)
          [] OTHER -> ParseQueryDecoded(spec, decoded)

----------------------------------------------------------------------------
(* The one of the four functions that assertLocation does not refuse.       *)
FormatParameter(spec, value) ==
    CASE spec.in = "path" -> FormatPathParameter(spec, value)
      [] spec.in = "header" -> FormatHeaderParameter(spec, value)
      [] spec.in = "cookie" -> FormatCookieParameter(spec, value)
      [] spec.in = "query" -> FormatQueryParameter(spec, value)

ParseParameter(spec, symbols, source) ==
    CASE spec.in = "path" -> ParsePathParameter(spec, symbols)
      [] spec.in = "header" -> ParseHeaderParameter(spec, symbols)
      [] spec.in = "cookie" -> ParseCookieParameter(spec, symbols)
      [] spec.in = "query" -> ParseQueryParameter(spec, symbols, source)
=============================================================================
