----------------------------- MODULE HeaderText -----------------------------
(* What the fields that are not structured share: tokens, quoted strings as *)
(* they are written and leniently read, and extended values.                *)
EXTENDS StructuredFields

HeaderTokenChars == TokenChars \ {":", "/"}
IsHeaderToken(text) == text # <<>> /\ ToSet(text) \subseteq HeaderTokenChars

(* split: the pieces between the symbols of the class. *)
Cut(pieces, symbol, class) ==
    IF symbol \in class THEN Append(pieces, <<>>)
    ELSE [pieces EXCEPT ![Len(pieces)] = Append(@, symbol)]
SplitAt(text, class) == FoldLeft(LAMBDA pieces, symbol : Cut(pieces, symbol, class), <<<<>>>>, text)

(* assertNoCtl throws for a control character other than a tab. *)
ControlCharacters == {"\n", "\r"}
Mentionable(text) == ToSet(text) \cap ControlCharacters = {}

QuotedString(text) == IF Mentionable(text) THEN Quoted(text) ELSE Null
QuoteIfNeeded(text) ==
    IF ~Mentionable(text) THEN Null
    ELSE IF IsHeaderToken(text) THEN text ELSE Quoted(text)

(* unquote: any character may be escaped. *)
RECURSIVE Unescape(_)
Unescape(text) ==
    CASE text = <<>> -> <<>>
      [] Starts(text, "\\") /\ Len(text) > 1 -> <<text[2]>> \o Unescape(From(text, 3))
      [] OTHER -> <<text[1]>> \o Unescape(Tail(text))
Unquote(text) ==
    IF Len(text) > 1 /\ text[1] = "\"" /\ text[Len(text)] = "\""
    THEN Unescape(SubSeq(text, 2, Len(text) - 1)) ELSE text

(* A quoted string up to its end; the text is past the opening quote. *)
RECURSIVE QuotedRun(_, _)
QuotedRun(text, read) ==
    CASE text = <<>> -> Read(Null, text)
      [] Starts(text, "\"") -> Read(read, Tail(text))
      [] Starts(text, "\\") /\ Len(text) > 1 -> QuotedRun(From(text, 3), Append(read, text[2]))
      [] OTHER -> QuotedRun(Tail(text), Append(read, text[1]))

----------------------------------------------------------------------------
(* Members and parameters of quoted texts.                                  *)

(* Inside quotes a backslash takes the next character along. *)
QuotingAfter(quoting, symbol) ==
    CASE quoting = "escaped" -> "quoted"
      [] quoting = "quoted" /\ symbol = "\\" -> "escaped"
      [] quoting = "quoted" /\ symbol = "\"" -> "open"
      [] quoting = "open" /\ symbol = "\"" -> "quoted"
      [] OTHER -> quoting

(* The quoting before each symbol of the text. *)
QuotingOf(text) ==
    LET before[i \in 1..Len(text) + 1] ==
            IF i = 1 THEN "open" ELSE QuotingAfter(before[i - 1], text[i - 1])
    IN  before

Pieces(text, cuts) ==
    [k \in 1..Len(cuts) - 1 |-> SubSeq(text, cuts[k] + 1, cuts[k + 1] - 1)]
CutAt(text, positions) ==
    Pieces(text, SetToSortSeq({0, Len(text) + 1} \cup positions, <))

(* Mutant: quotes are not looked at. *)
SplitAnywhere(text, delimiter) ==
    CutAt(text, {i \in DOMAIN text : text[i] = delimiter})
SplitQuoted(text, delimiter) ==
    LET quoting == QuotingOf(text)
    IN  CutAt(text, {i \in DOMAIN text : text[i] = delimiter /\ quoting[i] = "open"})

NonBlank(parts) == SelectSeq([i \in DOMAIN parts |-> Trim(parts[i])], LAMBDA part : part # <<>>)

(* key and value around the first equals sign; value is Null without one. *)
ParseSegment(segment) ==
    LET equals == SelectInSeq(segment, LAMBDA c : c = "=")
    IN  IF equals = 0 THEN [key |-> segment, value |-> Null]
        ELSE [key |-> Trim(SubSeq(segment, 1, equals - 1)), value |-> Trim(From(segment, equals + 1))]
----------------------------------------------------------------------------
(* Extended values: a charset, a language and the text, whose symbols       *)
(* outside the attribute characters are percent-encoded.                    *)

AttrChars == HeaderTokenChars \ {"*", "'", "%"}
EncodeExtValue(text) ==
    <<"UTF-8", "'", "'">> \o FlattenSeq([i \in DOMAIN text |->
        IF text[i] \in AttrChars THEN <<text[i]>> ELSE <<"%", Hex[text[i]]>>])

RECURSIVE DecodeValueChars(_, _)
DecodeValueChars(text, read) ==
    CASE text = <<>> -> read
      [] Starts(text, "%") ->
            LET escaped == {c \in DOMAIN Hex : Len(text) > 1 /\ Hex[c] = text[2]}
            IN  IF escaped = {} THEN Null
                ELSE DecodeValueChars(From(text, 3), Append(read, CHOOSE c \in escaped : TRUE))
      [] OTHER -> IF text[1] \notin AttrChars THEN Null
                  ELSE DecodeValueChars(Tail(text), Append(read, text[1]))

(* The charset is checked and then left aside, the language also. *)
IsCharset(text) == text # <<>> /\ ToSet(text) \subseteq HeaderTokenChars \ {"*", "'", ".", "|"}
IsLanguage(text) == ToSet(text) \subseteq LowerWords \cup UpperWords \cup {"-"}
DecodeExtValue(text) ==
    LET quotes == SetToSortSeq({i \in DOMAIN text : text[i] = "'"}, <)
    IN  IF Len(quotes) < 2 THEN Null
        ELSE IF ~IsCharset(SubSeq(text, 1, quotes[1] - 1)) THEN Null
        ELSE IF ~IsLanguage(SubSeq(text, quotes[1] + 1, quotes[2] - 1)) THEN Null
        ELSE DecodeValueChars(From(text, quotes[2] + 1), <<>>)
=============================================================================
