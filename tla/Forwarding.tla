----------------------------- MODULE Forwarding -----------------------------
(* What intermediaries write about themselves: the traceparent and          *)
(* tracestate fields of a call and what a hop makes of them, the Forwarded  *)
(* field of a request, and the Proxy-Status and Cache-Status fields of a    *)
(* response, with the schemas of their parameters.                          *)
(*                                                                          *)
(* A traceparent is a text of symbols: "-" and fields, whose widths decide  *)
(* where the delimiters stand.  A tracestate is a text of characters.  An   *)
(* element of Forwarded is a sequence of [key, value] pairs of texts, in    *)
(* the order in which it is written: for, by, host, proto and extensions.   *)
EXTENDS StructuredFields, HeaderText

CONSTANTS
    Width,           \* of the symbols of a traceparent
    HexSymbols,      \* the symbols that are lower-case hexadecimal
    Zeros,           \* the symbols that are all zeros
    FlagBytes,       \* the flags of two digits, in their order from "00"
    KeyLetters, KeyDigits, KeyPunctuation,    \* of a tracestate key
    ValueCharacters, \* printable, without blank, comma and equals sign
    MAX_TRACESTATE_MEMBERS, MAX_TRACESTATE_LENGTH,
    MAX_TENANT_LENGTH, MAX_SYSTEM_LENGTH,     \* of the parts of a key at "@"
    MAX_KEY_LENGTH,
    InheritedNames,   \* keys that every object has by inheritance
    Bytes(_),         \* the base64 of a text, and the text of a base64
    BytesText(_)

TRACEPARENT_VERSION == "00"

Traceparent(version, traceId, parentId, traceFlags) ==
    [version |-> version, traceId |-> traceId, parentId |-> parentId,
     traceFlags |-> traceFlags]

----------------------------------------------------------------------------
(* traceparent.                                                             *)

(* The four fields stand where their widths put them; what follows the last *)
(* one begins with a delimiter.                                             *)
WellShaped(text) ==
    /\ Len(text) >= 7
    /\ text[2] = "-" /\ text[4] = "-" /\ text[6] = "-"
    /\ Width[text[1]] = 2 /\ Width[text[3]] = 32
    /\ Width[text[5]] = 16 /\ Width[text[7]] = 2
    /\ Len(text) > 7 => text[8] = "-"

(* A later version may carry more fields: the next one starts with two hex  *)
(* digits; version 00 carries none.                                         *)
ValidSuffix(version, suffix) ==
    suffix # <<>> => /\ version # TRACEPARENT_VERSION
                     /\ Len(suffix) > 1 /\ suffix[2] \in HexSymbols /\ Width[suffix[2]] >= 2

ValidateTraceparent(text) ==
    /\ WellShaped(text)
    /\ text[1] \in HexSymbols /\ text[1] # "ff"
    /\ ValidSuffix(text[1], From(text, 8))
    /\ text[3] \in HexSymbols \ Zeros
    /\ text[5] \in HexSymbols \ Zeros
    /\ text[7] \in HexSymbols

(* The suffix of a later version is not kept. *)
ParseTraceparent(text) ==
    IF ValidateTraceparent(text) THEN Traceparent(text[1], text[3], text[5], text[7])
    ELSE Null

TraceparentText(t) == <<t.version, "-", t.traceId, "-", t.parentId, "-", t.traceFlags>>
FormatTraceparent(t) ==
    IF ValidateTraceparent(TraceparentText(t)) THEN TraceparentText(t) ELSE Null

(* The lowest bit of the flags, the others as they are. *)
FlagValue(flags) == (CHOOSE i \in DOMAIN FlagBytes : FlagBytes[i] = flags) - 1
SetSampledFlag(flags, sampled) ==
    LET byte == FlagValue(flags)
    IN  FlagBytes[1 + byte - (byte % 2) + (IF sampled THEN 1 ELSE 0)]
IsSampled(flags) == FlagValue(flags) % 2 = 1

(* The values that a draw can end with. *)
RandomNonZeroHex(symbols) == symbols \ Zeros

(* sampled is TRUE, FALSE or Null, when the caller does not say. *)
UpdateTraceparentParent(current, parentId, sampled) ==
    IF current = Null THEN Null
    ELSE Traceparent(current.version, current.traceId, parentId,
             IF sampled = Null THEN current.traceFlags
             ELSE SetSampledFlag(current.traceFlags, sampled))

RestartTraceparent(current, traceId, parentId, sampled) ==
    LET chosen == IF sampled # Null THEN sampled
                  ELSE current # Null /\ IsSampled(current.traceFlags)
    IN  Traceparent(TRACEPARENT_VERSION, traceId, parentId,
                    IF chosen THEN FlagBytes[2] ELSE FlagBytes[1])

----------------------------------------------------------------------------
(* tracestate.                                                              *)

KeyRest == KeyLetters \cup KeyDigits \cup KeyPunctuation
LettersAndDigits == KeyLetters \cup KeyDigits

SimpleKey(key) ==
    /\ Len(key) \in 1..MAX_KEY_LENGTH
    /\ key[1] \in KeyLetters /\ ToSet(key) \subseteq KeyRest
IsValidTenantId(text) ==
    /\ Len(text) \in 1..MAX_TENANT_LENGTH /\ ToSet(text) \subseteq KeyRest
    /\ text[1] \in LettersAndDigits /\ text[Len(text)] \in LettersAndDigits
IsValidSystemId(text) ==
    /\ Len(text) \in 1..MAX_SYSTEM_LENGTH /\ ToSet(text) \subseteq KeyRest
    /\ text[1] \in KeyLetters /\ text[Len(text)] \in LettersAndDigits
IsValidTracestateKey(key) ==
    \/ SimpleKey(key)
    \/ /\ Len(key) \in 1..MAX_KEY_LENGTH
       /\ Cardinality({i \in DOMAIN key : key[i] = "@"}) = 1
       /\ \E i \in DOMAIN key : /\ key[i] = "@"
                                /\ IsValidTenantId(SubSeq(key, 1, i - 1))
                                /\ IsValidSystemId(From(key, i + 1))

(* Blanks may stand anywhere but at the end. *)
IsValidTracestateValue(value) ==
    /\ value # <<>> /\ Len(value) <= MAX_KEY_LENGTH
    /\ ToSet(value) \subseteq ValueCharacters \cup {" "}
    /\ value[Len(value)] # " "

(* The members between the commas, trimmed. *)
MembersOf(text) ==
    LET cuts == SetToSortSeq({0, Len(text) + 1} \cup {i \in DOMAIN text : text[i] = ","}, <)
    IN  [k \in 1..Len(cuts) - 1 |-> Trim(SubSeq(text, cuts[k] + 1, cuts[k + 1] - 1))]

Entry(key, value) == [key |-> key, value |-> value]
EntryOf(member) ==
    LET equals == SelectInSeq(member, LAMBDA c : c = "=")
    IN  Entry(SubSeq(member, 1, equals - 1), From(member, equals + 1))

ValidMember(member) ==
    /\ Cardinality({i \in DOMAIN member : member[i] = "="}) = 1
    /\ IsValidTracestateKey(EntryOf(member).key)
    /\ IsValidTracestateValue(EntryOf(member).value)

DistinctKeys(entries) ==
    \A i, j \in DOMAIN entries : entries[i].key = entries[j].key => i = j

EntriesOf(members) == [i \in DOMAIN members |-> EntryOf(members[i])]
ValidMembers(members) ==
    /\ Len(members) <= MAX_TRACESTATE_MEMBERS
    /\ \A i \in DOMAIN members : ValidMember(members[i])
    /\ DistinctKeys(EntriesOf(members))
ValidateTracestate(text) ==
    LET trimmed == Trim(text)
    IN  /\ trimmed # <<>> /\ Len(trimmed) <= MAX_TRACESTATE_LENGTH
        /\ ValidMembers(MembersOf(trimmed))

ParseTracestate(text) ==
    IF ValidateTracestate(text) THEN EntriesOf(MembersOf(Trim(text))) ELSE Null

ValidEntries(entries) ==
    /\ \A i \in DOMAIN entries : /\ IsValidTracestateKey(entries[i].key)
                                 /\ IsValidTracestateValue(entries[i].value)
    /\ DistinctKeys(entries)

(* The text of some entries. *)
MemberText(entry) == entry.key \o <<"=">> \o entry.value
Serialized(entries) ==
    FlattenSeq([i \in DOMAIN entries |->
        IF i = 1 THEN MemberText(entries[i]) ELSE <<",">> \o MemberText(entries[i])])

(* Mutant: an entry that does not fit is left out, and later ones kept. *)
SkipWhatDoesNotFit(entries, maxMembers, maxLength) ==
    IF ~ValidEntries(entries) THEN Null
    ELSE FoldLeft(LAMBDA kept, entry :
             IF /\ Len(kept) < maxMembers
                /\ Len(Serialized(Append(kept, entry))) <= maxLength
             THEN Append(kept, entry) ELSE kept, <<>>, entries)
(* The longest beginning within both limits. *)
TruncateTracestate(entries, maxMembers, maxLength) ==
    IF ~ValidEntries(entries) THEN Null
    ELSE LET fits(n) == n <= maxMembers /\ Len(Serialized(SubSeq(entries, 1, n))) <= maxLength
         IN  SubSeq(entries, 1, CHOOSE n \in 0..Len(entries) :
                 fits(n) /\ \A m \in n + 1..Len(entries) : ~fits(m))

Truncated(entries) ==
    TruncateTracestate(entries, MAX_TRACESTATE_MEMBERS, MAX_TRACESTATE_LENGTH)

FormatTracestate(entries) ==
    IF Truncated(entries) = Null THEN <<>>
    ELSE LET text == Serialized(Truncated(entries))
         IN  IF text # <<>> /\ ~ValidateTracestate(text) THEN Null ELSE text

WithoutKey(entries, key) == SelectSeq(entries, LAMBDA entry : entry.key # key)

(* A field that is absent or empty has no entries.  With a traceparent that *)
(* is not valid the state does not apply.                                   *)
EntriesIn(text) == IF text = Null THEN <<>> ELSE ParseTracestate(text)
AddOrUpdateTracestate(text, key, value, parentValid) ==
    IF ~parentValid THEN <<>>
    ELSE IF \/ ~IsValidTracestateKey(key) \/ ~IsValidTracestateValue(value)
            \/ EntriesIn(text) = Null
    THEN Null
    ELSE Truncated(<<Entry(key, value)>> \o WithoutKey(EntriesIn(text), key))

RemoveTracestateKey(text, key, parentValid) ==
    IF ~parentValid THEN <<>>
    ELSE IF ~IsValidTracestateKey(key) \/ EntriesIn(text) = Null THEN Null
    ELSE WithoutKey(EntriesIn(text), key)

----------------------------------------------------------------------------
(* Members and parameters of quoted texts.                                  *)

ParseSegments(text, delimiter) ==
    LET segments == NonBlank(SplitQuoted(text, delimiter))
    IN  [i \in DOMAIN segments |-> ParseSegment(segments[i])]
ParseMembers(text) ==
    LET members == NonBlank(SplitQuoted(text, ","))
    IN  [i \in DOMAIN members |-> ParseSegments(members[i], ";")]

----------------------------------------------------------------------------
(* Forwarded.                                                               *)

ForwardedNames == << <<"for">>, <<"by">>, <<"host">>, <<"proto">> >>

(* The first value of a key counts; a key without value is passed over. *)
FirstValues(parameters) ==
    FoldLeft(LAMBDA element, p :
                IF p.value = Null \/ p.key = <<>> \/ Lookup(element, LowerCase(p.key)) # Null
                THEN element ELSE Put(element, LowerCase(p.key), Unquote(p.value)),
             <<>>, parameters)

(* The four names stand in fields of their own, so that they come first     *)
(* whenever the element is written again.                                   *)
Arranged(element) ==
    LET named == SelectSeq(ForwardedNames, LAMBDA name : Lookup(element, name) # Null)
    IN  [i \in DOMAIN named |-> [key |-> named[i], value |-> Lookup(element, named[i])]]
        \o SelectSeq(element, LAMBDA pair : pair.key \notin ToSet(ForwardedNames))

ParseForwarded(text) ==
    LET members == ParseMembers(text)
    IN  [i \in DOMAIN members |-> Arranged(FirstValues(members[i]))]

ForwardedPair(pair) ==
    IF pair.key \notin ToSet(ForwardedNames) /\ ~IsHeaderToken(pair.key) THEN Null
    ELSE Concat(<<pair.key, <<"=">>, QuoteIfNeeded(pair.value)>>)
FormatForwarded(elements) ==
    Separated([e \in DOMAIN elements |->
        Separated([i \in DOMAIN elements[e] |-> ForwardedPair(elements[e][i])], <<";">>)],
        <<",", " ">>)

----------------------------------------------------------------------------
(* Parameters by schema.  An entry of a schema is [key, types, write]: the  *)
(* types that are read, and how the text is written.                        *)

Schema(key, types, write) == [key |-> key, types |-> types, write |-> write]
ProxyStatusSchema == <<
    Schema(<<"error">>, {"token"}, "token"),
    Schema(<<"next-hop">>, {"string", "token"}, "tokenOrString"),
    Schema(<<"next-protocol">>, {"token", "bytes"}, "tokenOrBytes"),
    Schema(<<"received-status">>, {"number"}, "number"),
    Schema(<<"details">>, {"string"}, "string"),
    Schema(<<"rcode">>, {"token"}, "token"),
    Schema(<<"info-code">>, {"number"}, "number"),
    Schema(<<"alert-id">>, {"number"}, "number"),
    Schema(<<"alert-message">>, {"string", "token"}, "string")>>
CacheStatusSchema == <<
    Schema(<<"hit">>, {"boolean"}, "boolean"),
    Schema(<<"fwd">>, {"token"}, "keyToken"),
    Schema(<<"fwd-status">>, {"number"}, "number"),
    Schema(<<"ttl">>, {"number"}, "number"),
    Schema(<<"stored">>, {"boolean"}, "boolean"),
    Schema(<<"collapsed">>, {"boolean"}, "boolean"),
    Schema(<<"key">>, {"string"}, "string"),
    Schema(<<"detail">>, {"string", "token"}, "string")>>

EntryFor(schema, key) ==
    LET i == SelectInSeq(schema, LAMBDA entry : entry.key = key)
    IN  IF i = 0 THEN Null ELSE schema[i]
Reads(entry, bare) ==
    /\ bare.type \in entry.types
    /\ bare.type = "number" => "." \notin ToSet(bare.text)

(* [known, extensions]: known keys map to texts, of which the wrong types   *)
(* are passed over; what the schema does not know is kept as it is.         *)
ParseParamsBySchema(params, schema) ==
    LET read(pair) == EntryFor(schema, pair.key) # Null /\ Reads(EntryFor(schema, pair.key), pair.value)
        known == SelectSeq(params, read)
    IN  [known |-> [i \in DOMAIN known |-> [key |-> known[i].key, value |-> known[i].value.text]],
         extensions |-> SelectSeq(params, LAMBDA pair : EntryFor(schema, pair.key) = Null)]

WriteBare(write, text) ==
    CASE write = "tokenOrString" -> Bare(IF IsToken(text) THEN "token" ELSE "string", text)
      [] write = "tokenOrBytes" ->
            IF IsToken(text) THEN Bare("token", text) ELSE Bare("bytes", Bytes(text))
      [] write = "keyToken" -> IF IsKey(text) THEN Bare("token", text) ELSE Null
      [] write = "number" -> IF "." \in ToSet(text) THEN Null ELSE Bare("number", text)
      [] OTHER -> Bare(write, text)

(* The known ones in the order of the schema, then the extensions that name *)
(* no parameter written before, and none of the schema when unset ones are  *)
(* protected; "in" also finds what every object inherits.                   *)
KnownPairs(known, schema) ==
    LET present == SelectSeq(schema, LAMBDA entry : Lookup(known, entry.key) # Null)
    IN  [i \in DOMAIN present |->
            [key |-> present[i].key,
             value |-> WriteBare(present[i].write, Lookup(known, present[i].key))]]
BuildParamsBySchema(params, schema, protectUnset) ==
    FoldLeft(LAMBDA pairs, extension :
                IF \/ protectUnset /\ EntryFor(schema, extension.key) # Null
                   \/ extension.key \in InheritedNames
                   \/ Lookup(pairs, extension.key) # Null
                THEN pairs ELSE Append(pairs, extension),
             KnownPairs(params.known, schema), params.extensions)

----------------------------------------------------------------------------
(* Proxy-Status and Cache-Status: [name, params] for each intermediary.     *)

StatusEntry(name, params) == [name |-> name, params |-> params]
IsStatusMember(member) == member.kind = "item" /\ member.value.type \in {"string", "token"}
ReadParams(params, schema) ==
    LET read == ParseParamsBySchema(params, schema)
    IN  [read EXCEPT !.known = [i \in DOMAIN @ |->
            IF Lookup(params, @[i].key).type = "bytes"
            THEN [@[i] EXCEPT !.value = BytesText(@)] ELSE @[i]]]
ParseStatus(text, schema) ==
    LET list == IF Trim(text) = <<>> THEN <<>> ELSE ParseSfList(text)
    IN  IF list = Null THEN Null
        ELSE IF \E i \in DOMAIN list : ~IsStatusMember(list[i]) THEN Null
        ELSE [i \in DOMAIN list |->
                StatusEntry(list[i].value.text, ReadParams(list[i].params, schema))]

(* The name is always written as a token. *)
StatusMember(entry, schema, protectUnset) ==
    Item(Bare("token", entry.name), BuildParamsBySchema(entry.params, schema, protectUnset))
FormatStatus(entries, schema, protectUnset) ==
    LET list == [i \in DOMAIN entries |-> StatusMember(entries[i], schema, protectUnset)]
    IN  IF \E i \in DOMAIN list : \E pair \in ToSet(list[i].params) : pair.value = Null THEN Null
        ELSE SerializeSfList(list)

ParseProxyStatus(text) == ParseStatus(text, ProxyStatusSchema)
FormatProxyStatus(entries) == FormatStatus(entries, ProxyStatusSchema, FALSE)
ParseCacheStatus(text) == ParseStatus(text, CacheStatusSchema)
FormatCacheStatus(entries) == FormatStatus(entries, CacheStatusSchema, TRUE)
=============================================================================
