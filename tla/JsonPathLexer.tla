--------------------------- MODULE JsonPathLexer ---------------------------
(* The JSONPath lexer, and the normalized paths it must read back.  A text is *)
(* a sequence of UTF-16 code units, an unit of Letters also standing for a    *)
(* run of letters.  Every read gives [at, ast]: where it stopped and what it  *)
(* read, Null where the code throws.                                          *)
EXTENDS JsonPathMeaning

CONSTANTS
    Letters,            \* the units isNameFirst is true of
    Controls,           \* the units up to %x1F
    HighSurrogates,
    LowSurrogates,
    Hex,                \* the four digits of a unit that is written with \u
    Words,              \* from the strings of the model, as units, to their rank
    OtherString,        \* the rank that all other strings have
    Number,             \* from the numerals of the model to Number of them, Null if not finite
    MaxInteger          \* I_JSON_MAX

Digits == {"0", "1", "2", "3", "4", "5", "6", "7", "8", "9"}
Blanks == {" ", "\t", "\n", "\r"}
String(units) == [type |-> "string", v |-> IF units \in DOMAIN Words THEN Words[units] ELSE OtherString]

Token(type) == [type |-> type, value |-> Absent, integral |-> FALSE]
ValueToken(value) ==
    CASE value.type = "string" -> [type |-> "STRING", value |-> value, integral |-> FALSE]
      [] value.type = "number" -> [type |-> "NUMBER", value |-> value, integral |-> TRUE]
      [] OTHER -> [type |-> CASE value.type = "null" -> "NULL"
                              [] value.v = 1 -> "TRUE"
                              [] OTHER -> "FALSE",
                   value |-> value, integral |-> FALSE]
NameToken(value) == [type |-> "NAME", value |-> value, integral |-> FALSE]
Keywords == (<<"true">> :> Bool(TRUE)) @@ (<<"false">> :> Bool(FALSE))
            @@ (<<"null">> :> [type |-> "null", v |-> 0])

TwoCharacterTokens ==
    (<<".", ".">> :> "DOTDOT") @@ (<<"&", "&">> :> "AND") @@ (<<"|", "|">> :> "OR")
    @@ (<<"=", "=">> :> "EQ") @@ (<<"!", "=">> :> "NE") @@ (<<"<", "=">> :> "LE")
    @@ (<<">", "=">> :> "GE")
SingleCharacterTokens ==
    ("$" :> "ROOT") @@ ("@" :> "CURRENT") @@ ("." :> "DOT") @@ ("[" :> "LBRACKET")
    @@ ("]" :> "RBRACKET") @@ ("(" :> "LPAREN") @@ (")" :> "RPAREN") @@ (":" :> "COLON")
    @@ ("," :> "COMMA") @@ ("*" :> "WILDCARD") @@ ("?" :> "QUESTION") @@ ("!" :> "NOT")
    @@ ("<" :> "LT") @@ (">" :> "GT")

PeekChar(text, at) == IF at \in DOMAIN text THEN text[at] ELSE Null
Slice(text, at, length) == SubSeq(text, at, Min({Len(text), at + length - 1}))
(* Where a run of units of the class that starts here ends.                   *)
RunEnd(text, at, class) ==
    CHOOSE end \in at..Len(text) + 1 :
        PeekChar(text, end) \notin class /\ \A n \in at..end - 1 : text[n] \in class

(* A \u is followed by four digits, and a high surrogate by a low one.        *)
ReadCode(text, at) ==
    IF Slice(text, at, 4) \in {Hex[unit] : unit \in DOMAIN Hex}
    THEN Got(at + 4, <<CHOOSE unit \in DOMAIN Hex : Hex[unit] = Slice(text, at, 4)>>)
    ELSE Failed(at)
ReadCodes(text, at) ==
    Then(ReadCode(text, at), LAMBDA next, first :
        IF first[1] \notin HighSurrogates THEN Got(next, first)
        ELSE IF Slice(text, next, 2) # <<"\\", "u">> THEN Failed(next)
        ELSE Then(ReadCode(text, next + 2), LAMBDA end, second :
                IF second[1] \in LowSurrogates THEN Got(end, first \o second) ELSE Failed(end)))

ShortEscapes == ("b" :> "BS") @@ ("f" :> "FF") @@ ("n" :> "\n") @@ ("r" :> "\r") @@ ("t" :> "\t")
SelfEscapes == {"/", "\\", "\"", "'"}
ReadEscape(text, at) ==
    CASE PeekChar(text, at) = "u" -> ReadCodes(text, at + 1)
      [] PeekChar(text, at) \in DOMAIN ShortEscapes -> Got(at + 1, <<ShortEscapes[text[at]]>>)
      [] PeekChar(text, at) \in SelfEscapes -> Got(at + 1, <<text[at]>>)
      [] OTHER -> Failed(at)

(* readString, past the opening quote.                                        *)
RECURSIVE ReadString(_, _, _, _)
ReadString(text, at, quote, read) ==
    CASE PeekChar(text, at) = quote -> Got(at + 1, read)
      [] PeekChar(text, at) = "\\" ->
            Then(ReadEscape(text, at + 1), LAMBDA next, units :
                ReadString(text, next, quote, read \o units))
      [] PeekChar(text, at) \in Controls \cup {Null} -> Failed(at)
      [] OTHER -> ReadString(text, at + 1, quote, Append(read, text[at]))

(* readNumber: its parts, of which the fraction and the exponent may lack.    *)
ReadDigits(text, at) ==
    IF PeekChar(text, at) \in Digits THEN Got(RunEnd(text, at, Digits), "digits") ELSE Failed(at)
ReadInt(text, at) ==
    IF PeekChar(text, at) # "0" THEN ReadDigits(text, at)
    ELSE IF PeekChar(text, at + 1) \in Digits THEN Failed(at) ELSE Got(at + 1, "digits")
ReadFraction(text, at) ==
    IF PeekChar(text, at) = "." THEN ReadDigits(text, at + 1) ELSE Got(at, "none")
ReadExponent(text, at) ==
    IF PeekChar(text, at) \notin {"e", "E"} THEN Got(at, "none")
    ELSE ReadDigits(text, IF PeekChar(text, at + 1) \in {"+", "-"} THEN at + 2 ELSE at + 1)
NumberToken(number, integral) ==
    IF number = Null \/ (integral /\ number \notin -MaxInteger..MaxInteger) THEN Null
    ELSE [ValueToken(Num(number)) EXCEPT !.integral = integral]
ReadNumber(text, at) ==
    Then(ReadInt(text, IF text[at] = "-" THEN at + 1 ELSE at), LAMBDA int, any :
        Then(ReadFraction(text, int), LAMBDA fraction, some :
            Then(ReadExponent(text, fraction), LAMBDA end, exponent :
                Got(end, NumberToken(Number[SubSeq(text, at, end - 1)], end = int)))))

IsNameFirst(unit) == unit \in Letters
NameChars == Letters \cup Digits
ReadName(text, at) ==
    LET end == RunEnd(text, at, NameChars)
        name == SubSeq(text, at, end - 1)
    IN  Got(end, IF name \in DOMAIN Keywords THEN ValueToken(Keywords[name])
                 ELSE NameToken(String(name)))

(* A dot is not followed by a blank.                                          *)
ReadPunctuation(text, at, length, type) ==
    IF type \in {"DOT", "DOTDOT"} /\ PeekChar(text, at + length) \in Blanks THEN Failed(at)
    ELSE Got(at + length, Token(type))
ReadToken(text, at) ==
    CASE Slice(text, at, 2) \in DOMAIN TwoCharacterTokens ->
            ReadPunctuation(text, at, 2, TwoCharacterTokens[Slice(text, at, 2)])
      [] text[at] \in DOMAIN SingleCharacterTokens /\ Slice(text, at, 2) \notin DOMAIN TwoCharacterTokens ->
            ReadPunctuation(text, at, 1, SingleCharacterTokens[text[at]])
      [] text[at] \in {"\"", "'"} ->
            Then(ReadString(text, at + 1, text[at], <<>>), LAMBDA end, units :
                Got(end, ValueToken(String(units))))
      [] text[at] \in Digits \cup {"-"} -> ReadNumber(text, at)
      [] IsNameFirst(text[at]) -> ReadName(text, at)
      [] OTHER -> Failed(at)

(* tokenize: the tokens from here on, Null if the constructor throws.         *)
RECURSIVE TokensFrom(_, _, _)
TokensFrom(text, at, read) ==
    LET start == RunEnd(text, at, Blanks)
        GoOn(next) == IF next.ast = Null THEN Null ELSE TokensFrom(text, next.at, Append(read, next.ast))
    IN  IF start > Len(text) THEN read ELSE GoOn(ReadToken(text, start))
Tokenize(text) == TokensFrom(text, 1, <<>>)
-----------------------------------------------------------------------------
RECURSIVE Decimal(_)
Decimal(n) ==
    LET digits == <<"0", "1", "2", "3", "4", "5", "6", "7", "8", "9">>
    IN  IF n < 0 THEN <<"-">> \o Decimal(-n)
        ELSE (IF n < 10 THEN <<>> ELSE Decimal(n \div 10)) \o <<digits[(n % 10) + 1]>>
Spelling(string) == CHOOSE units \in DOMAIN Words : Words[units] = string.v

(* Mutant: a backslash of the name is not escaped.                            *)
EscapeQuotesOnly(unit) ==
    CASE unit = "'" -> <<"\\", unit>>
      [] unit \in Controls -> <<"\\", "u">> \o Hex[unit]
      [] OTHER -> <<unit>>
Escape(unit) ==
    LET short == {letter \in DOMAIN ShortEscapes : ShortEscapes[letter] = unit}
    IN  CASE unit \in {"\\", "'"} -> <<"\\", unit>>
          [] short # {} -> <<"\\", CHOOSE letter \in short : TRUE>>
          [] unit \in Controls /\ short = {} -> <<"\\", "u">> \o Hex[unit]
          [] OTHER -> <<unit>>
EscapeNormalizedPathString(units) == FlattenSeq([n \in DOMAIN units |-> Escape(units[n])])

FormatNormalizedPath(path) ==
    LET Part(key) ==
            IF key.type = "number" THEN <<"[">> \o Decimal(key.v) \o <<"]">>
            ELSE <<"[", "'">> \o EscapeNormalizedPathString(Spelling(key)) \o <<"'", "]">>
    IN  <<"$">> \o FlattenSeq([n \in DOMAIN path |-> Part(path[n])])
=============================================================================
