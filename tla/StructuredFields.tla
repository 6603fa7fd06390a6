-------------------------- MODULE StructuredFields --------------------------
(* Structured field values: items, inner lists, lists, dictionaries and     *)
(* parameters, as the parser reads them and the serializer writes them.     *)
(*                                                                          *)
(* A text is a sequence of symbols: single characters, and words, which     *)
(* stand for a run of letters.  Parameters and dictionaries are sequences   *)
(* of [key, value] pairs in the order in which the object holds them.       *)
EXTENDS Naturals, SequencesExt

CONSTANTS
    Null,
    LowerWords, UpperWords,    \* runs of letters, by their first letter
    Lower,                     \* toLowerCase of words
    Invisible,                 \* symbols outside the visible ASCII characters
    Base64,                    \* symbols for padded base64 text
    Hex,                       \* the escape of a symbol in a display string
    MaxDigits                  \* 15 for integers; decimals have three less

Digits == {"0", "1", "2", "3", "4", "5", "6", "7", "8", "9"}
KeyFirst == LowerWords \cup {"*"}
KeyChars == LowerWords \cup Digits \cup {"_", "-", ".", "*"}
TokenFirst == LowerWords \cup UpperWords \cup {"*"}
TokenChars == TokenFirst \cup Digits \cup
    {"!", "#", "$", "%", "&", "'", "+", "-", ".", "^", "_", "|", "~", ":", "/"}

Bare(type, text) == [type |-> type, text |-> text]
True == Bare("boolean", <<"1">>)
Item(value, params) == [kind |-> "item", value |-> value, params |-> params]
InnerList(items, params) == [kind |-> "list", items |-> items, params |-> params]

LowerCase(text) ==
    [i \in DOMAIN text |-> IF text[i] \in DOMAIN Lower THEN Lower[text[i]] ELSE text[i]]

IsKey(text) == text # <<>> /\ text[1] \in KeyFirst /\ ToSet(text) \subseteq KeyChars
IsToken(text) == text # <<>> /\ text[1] \in TokenFirst /\ ToSet(text) \subseteq TokenChars

(* An assignment to a key that is there keeps its place. *)
Put(pairs, key, value) ==
    IF \E i \in DOMAIN pairs : pairs[i].key = key
    THEN [i \in DOMAIN pairs |->
            IF pairs[i].key = key THEN [key |-> key, value |-> value] ELSE pairs[i]]
    ELSE Append(pairs, [key |-> key, value |-> value])

Lookup(pairs, key) ==
    LET i == SelectInSeq(pairs, LAMBDA pair : pair.key = key)
    IN  IF i = 0 THEN Null ELSE pairs[i].value

----------------------------------------------------------------------------
(* Reading.  What is read, and the text that is left; Null where it fails.  *)

Read(value, rest) == [value |-> value, rest |-> rest]
From(text, i) == SubSeq(text, i, Len(text))
Starts(text, symbol) == text # <<>> /\ text[1] = symbol

(* How many symbols of the class the text begins with. *)
RunLength(text, class) ==
    CHOOSE n \in 0..Len(text) :
        /\ \A i \in 1..n : text[i] \in class
        /\ n < Len(text) => text[n + 1] \notin class

SkipOWS(text) == From(text, RunLength(text, {" ", "\t"}) + 1)
SkipSP(text) == From(text, RunLength(text, {" "}) + 1)
Blank == {" ", "\t", "\n", "\r"}
TrimEnd(text) == SubSeq(text, 1, Len(text) - RunLength(Reverse(text), Blank))
Trim(text) == TrimEnd(From(text, RunLength(text, Blank) + 1))

RunOf(text, class) ==
    LET n == RunLength(text, class) IN Read(SubSeq(text, 1, n), From(text, n + 1))

ParseKey(text) ==
    IF text # <<>> /\ text[1] \in KeyFirst THEN RunOf(text, KeyChars)
    ELSE Read(Null, text)

ParseToken(text) ==
    IF text = <<>> \/ text[1] \notin TokenFirst THEN Read(Null, text)
    ELSE LET run == RunOf(text, TokenChars)
         IN  Read(Bare("token", run.value), run.rest)

(* The text is past the opening quote. *)
RECURSIVE ParseString(_, _)
ParseString(text, read) ==
    CASE text = <<>> -> Read(Null, <<>>)
      [] Starts(text, "\"") -> Read(Bare("string", read), Tail(text))
      [] Starts(text, "\\") ->
            IF Len(text) > 1 /\ text[2] \in {"\"", "\\"}
            THEN ParseString(From(text, 3), Append(read, text[2]))
            ELSE Read(Null, From(text, 3))
      [] OTHER -> IF text[1] \in Invisible THEN Read(Null, Tail(text))
                  ELSE ParseString(Tail(text), Append(read, text[1]))

(* The text is past the percent sign and the quote. *)
RECURSIVE ParseDisplayString(_, _)
ParseDisplayString(text, read) ==
    CASE text = <<>> -> Read(Null, <<>>)
      [] Starts(text, "\"") -> Read(Bare("display", read), Tail(text))
      [] Starts(text, "%") ->
            LET escaped == {c \in DOMAIN Hex : Len(text) > 1 /\ Hex[c] = text[2]}
            IN  IF escaped = {} THEN Read(Null, Tail(text))
                ELSE ParseDisplayString(From(text, 3),
                                        Append(read, CHOOSE c \in escaped : TRUE))
      [] OTHER -> IF text[1] \in Invisible THEN Read(Null, Tail(text))
                  ELSE ParseDisplayString(Tail(text), Append(read, text[1]))

(* What Number and toFixed make of a numeral: no zeros that say nothing.    *)
(* size and digits count what is left of the whole part and the fraction.   *)
Numeral(negative, whole, fraction) ==
    LET size == IF \A i \in DOMAIN whole : whole[i] = "0" THEN 1
                ELSE Len(whole) - RunLength(whole, {"0"})
        digits == CHOOSE n \in 0..Len(fraction) :
                      /\ \A i \in n + 1..Len(fraction) : fraction[i] = "0"
                      /\ n > 0 => fraction[n] # "0"
    IN  (IF negative /\ ToSet(whole \o fraction) # {"0"} THEN <<"-">> ELSE <<>>)
        \o From(whole, Len(whole) - size + 1)
        \o (IF digits = 0 THEN <<>> ELSE <<".">> \o SubSeq(fraction, 1, digits))

(* A decimal point with up to three digits; withFraction is FALSE where an  *)
(* integer is read.                                                         *)
FractionLength(text, start) ==
    IF start < Len(text) /\ text[start] = "."
    THEN CHOOSE n \in 0..3 :
            /\ \A i \in 1..n : start + i <= Len(text) /\ text[start + i] \in Digits
            /\ n < 3 => (start + n + 1 <= Len(text) => text[start + n + 1] \notin Digits)
    ELSE 0
NumberOf(type, text, first, past, fraction) ==
    IF past = first \/ past - first > MaxDigits - (IF fraction = 0 THEN 0 ELSE 3)
    THEN Read(Null, text)
    ELSE Read(Bare(type, Numeral(first = 2, SubSeq(text, first, past - 1),
                                 SubSeq(text, past + 1, past + fraction))),
              From(text, IF fraction = 0 THEN past ELSE past + fraction + 1))
NumberFrom(type, text, first, past, withFraction) ==
    NumberOf(type, text, first, past, IF withFraction THEN FractionLength(text, past) ELSE 0)
NumberAt(type, text, first, withFraction) ==
    NumberFrom(type, text, first, first + RunLength(From(text, first), Digits), withFraction)
ParseNumber(text) == NumberAt("number", text, IF Starts(text, "-") THEN 2 ELSE 1, TRUE)
ParseDate(text) == NumberAt("date", text, IF Starts(text, "-") THEN 2 ELSE 1, FALSE)

ParseBoolean(text) ==
    IF text # <<>> /\ text[1] \in {"0", "1"}
    THEN Read(Bare("boolean", <<text[1]>>), Tail(text)) ELSE Read(Null, From(text, 2))

(* The text is past the first colon; the empty sequence is ":" again. *)
ParseByteSequence(text) ==
    CASE Starts(text, ":") -> Read(Bare("bytes", <<>>), Tail(text))
      [] Len(text) > 1 /\ text[1] \in Base64 /\ text[2] = ":" ->
            Read(Bare("bytes", <<text[1]>>), From(text, 3))
      [] OTHER -> LET colon == SelectInSeq(text, LAMBDA c : c = ":")
                  IN  Read(Null, IF colon = 0 THEN <<>> ELSE From(text, colon + 1))

ParseBareItem(text) ==
    CASE text = <<>> -> Read(Null, text)
      [] Starts(text, "\"") -> ParseString(Tail(text), <<>>)
      [] Starts(text, "?") -> ParseBoolean(Tail(text))
      [] Starts(text, ":") -> ParseByteSequence(Tail(text))
      [] Starts(text, "@") -> ParseDate(Tail(text))
      [] Starts(text, "%") ->
            IF Len(text) > 1 /\ text[2] = "\"" THEN ParseDisplayString(From(text, 3), <<>>)
            ELSE Read(Null, From(text, 3))
      [] text # <<>> /\ text[1] \in Digits \cup {"-"} -> ParseNumber(text)
      [] OTHER -> ParseToken(text)

(* The value of a parameter, after its key: true unless it is assigned. *)
ParseAssigned(text, Otherwise(_)) ==
    IF Starts(SkipOWS(text), "=") THEN ParseBareItem(SkipOWS(Tail(SkipOWS(text))))
    ELSE Otherwise(text)
ParseParameterValue(text) == ParseAssigned(text, LAMBDA t : Read(True, t))

(* parseParameters answers null when there is no parameter and when one is  *)
(* malformed, and its callers take both for no parameters: what was read is *)
(* dropped, and reading goes on where it stopped.                           *)
RECURSIVE ParseParameters(_, _, _)
ParametersAfterKey(key, value, params, ows) ==
    IF value.value = Null THEN Read(<<>>, value.rest)
    ELSE ParseParameters(value.rest, Put(params, key, value.value), ows)
ParametersAfterSemicolon(key, params, ows) ==
    IF key.value = Null THEN Read(<<>>, key.rest)
    ELSE ParametersAfterKey(key.value, ParseParameterValue(key.rest), params, ows)
ParametersFrom(text, params, ows) ==
    IF ~Starts(text, ";") THEN Read(params, text)
    ELSE ParametersAfterSemicolon(ParseKey(SkipOWS(Tail(text))), params, ows)
ParseParameters(text, params, ows) ==
    ParametersFrom(IF ows THEN SkipOWS(text) ELSE text, params, ows)

WithParameters(value, params, Build(_, _)) ==
    Read(Build(value, params.value), params.rest)

ItemFrom(bare, ows) ==
    IF bare.value = Null THEN bare
    ELSE WithParameters(bare.value, ParseParameters(bare.rest, <<>>, ows), Item)
ParseItem(text, ows) == ItemFrom(ParseBareItem(text), ows)

(* The text is past the opening parenthesis or an item of the list. *)
RECURSIVE ParseInnerItems(_, _)
AfterInnerItem(item, items) ==
    IF \/ item.value = Null
       \/ ~Starts(item.rest, ")") /\ ~Starts(item.rest, " ")
    THEN Read(Null, item.rest)
    ELSE ParseInnerItems(SkipSP(item.rest), Append(items, item.value))
ParseInnerItems(text, items) ==
    CASE text = <<>> -> Read(Null, text)
      [] Starts(text, ")") ->
            WithParameters(items, ParseParameters(Tail(text), <<>>, TRUE), InnerList)
      [] OTHER -> AfterInnerItem(ParseItem(text, FALSE), items)
ParseMember(text) ==
    IF Starts(text, "(") THEN ParseInnerItems(SkipSP(Tail(text)), <<>>)
    ELSE ParseItem(text, TRUE)

(* A comma is followed by a member; Next reads it. *)
AfterMember(rest, list, Next(_, _)) ==
    CASE rest = <<>> -> list
      [] Starts(rest, ",") /\ SkipOWS(Tail(rest)) # <<>> -> Next(SkipOWS(Tail(rest)), list)
      [] OTHER -> Null

RECURSIVE ListFrom(_, _)
ListAfter(member, list) ==
    IF member.value = Null THEN Null
    ELSE AfterMember(SkipOWS(member.rest), Append(list, member.value), ListFrom)
ListFrom(text, list) == ListAfter(ParseMember(text), list)
ParseSfList(text) ==
    IF SkipOWS(text) = <<>> THEN <<>> ELSE ListFrom(SkipOWS(text), <<>>)

(* A member without a value is true, with the parameters that follow. *)
RECURSIVE DictFrom(_, _)
DictAfterValue(key, member, dict) ==
    IF member.value = Null THEN Null
    ELSE AfterMember(SkipOWS(member.rest), Put(dict, key, member.value), DictFrom)
DictAfterKey(key, dict) ==
    IF key.value = Null THEN Null
    ELSE DictAfterValue(key.value,
             IF Starts(SkipOWS(key.rest), "=")
             THEN ParseMember(SkipOWS(Tail(SkipOWS(key.rest))))
             ELSE WithParameters(True, ParseParameters(key.rest, <<>>, TRUE), Item),
             dict)
DictFrom(text, dict) == DictAfterKey(ParseKey(text), dict)
ParseSfDict(text) ==
    IF SkipOWS(text) = <<>> THEN <<>> ELSE DictFrom(SkipOWS(text), <<>>)

----------------------------------------------------------------------------
(* Writing.  Null where the serializer throws.                              *)

Concat(parts) == IF \E i \in DOMAIN parts : parts[i] = Null THEN Null ELSE FlattenSeq(parts)
Separated(parts, separator) ==
    Concat([i \in DOMAIN parts |->
              IF i = 1 \/ parts[i] = Null THEN parts[i] ELSE separator \o parts[i]])

EscapeQuoted(text) ==
    FlattenSeq([i \in DOMAIN text |->
                  IF text[i] \in {"\"", "\\"} THEN <<"\\", text[i]>> ELSE <<text[i]>>])
Quoted(text) == <<"\"">> \o EscapeQuoted(text) \o <<"\"">>

SerializeDisplay(text) ==
    <<"%", "\"">> \o FlattenSeq([i \in DOMAIN text |->
        IF text[i] \in DOMAIN Hex THEN <<"%", Hex[text[i]]>> ELSE <<text[i]>>]) \o <<"\"">>

SerializeBareItem(bare) ==
    CASE bare.type = "boolean" -> <<"?">> \o bare.text
      [] bare.type = "date" -> <<"@">> \o bare.text
      [] bare.type = "number" ->
            LET decimal == "." \in ToSet(bare.text)
                whole == RunLength(From(bare.text, IF Starts(bare.text, "-") THEN 2 ELSE 1), Digits)
            IN  IF whole > MaxDigits - (IF decimal THEN 3 ELSE 0) THEN Null ELSE bare.text
      [] bare.type = "bytes" -> <<":">> \o bare.text \o <<":">>
      [] bare.type = "token" -> IF IsToken(bare.text) THEN bare.text ELSE Null
      [] bare.type = "display" -> SerializeDisplay(bare.text)
      [] bare.type = "string" ->
            IF ToSet(bare.text) \cap Invisible # {} THEN Null ELSE Quoted(bare.text)

SerializeParameter(key, value) ==
    IF ~IsKey(key) THEN Null
    ELSE IF value = True THEN <<";">> \o key
    ELSE Concat(<< <<";">> \o key \o <<"=">>, SerializeBareItem(value) >>)
SerializeParams(params) ==
    Concat([i \in DOMAIN params |-> SerializeParameter(params[i].key, params[i].value)])

SerializeItem(item) == Concat(<<SerializeBareItem(item.value), SerializeParams(item.params)>>)
SerializeInnerList(list) ==
    Concat(<< <<"(">>, Separated([i \in DOMAIN list.items |-> SerializeItem(list.items[i])], <<" ">>),
              <<")">>, SerializeParams(list.params) >>)
SerializeMember(member) ==
    IF member.kind = "list" THEN SerializeInnerList(member) ELSE SerializeItem(member)

SerializeSfList(list) ==
    Separated([i \in DOMAIN list |-> SerializeMember(list[i])], <<",", " ">>)

SerializeEntry(key, member) ==
    IF ~IsKey(key) THEN Null
    ELSE IF member.kind = "item" /\ member.value = True
    THEN Concat(<<key, SerializeParams(member.params)>>)
    ELSE Concat(<<key \o <<"=">>, SerializeMember(member)>>)
SerializeSfDict(dict) ==
    Separated([i \in DOMAIN dict |-> SerializeEntry(dict[i].key, dict[i].value)], <<",", " ">>)
=============================================================================
