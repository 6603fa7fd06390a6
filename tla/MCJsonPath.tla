----------------------------- MODULE MCJsonPath -----------------------------
(* Names and strings are the empty one, a, b and p (a pattern), u (an unsafe  *)
(* one), the names of functions, and q, which has a surrogate pair, a quote,  *)
(* a backslash and control characters, by rank.  The heap has a record, an    *)
(* array that holds it twice, an object that is its own member, two that are  *)
(* each other's, an array of these, and an object of the names q and "".      *)
EXTENDS JsonPathQuerying

Str(n) == [type |-> "string", v |-> n]
Ref(n) == [type |-> "ref", v |-> n]
a == Str(1)
b == Str(2)
p == Str(3)
u == Str(4)
length == Str(5)
count == Str(6)
match == Str(7)
value == Str(8)
search == Str(9)
empty == Str(0)
q == Str(10)
MCFunctionName == (length :> "length") @@ (count :> "count") @@ (match :> "match")
                  @@ (value :> "value") @@ (search :> "search")
MCStringLength == [n \in 0..11 |-> IF n = 0 THEN 0 ELSE IF n <= 2 THEN 1 ELSE 5]
MCRegex == [n \in 0..11 |-> [unsafe |-> n = 4, valid |-> n \notin {2, 11}, full |-> {1}, part |-> {1, 2}]]

Arr(items) == [kind |-> "array", keys |-> [n \in DOMAIN items |-> Num(n - 1)],
               at |-> [key \in {Num(n - 1) : n \in DOMAIN items} |-> items[key.v + 1]]]
Obj(names, items) == [kind |-> "object", keys |-> names,
                      at |-> [name \in ToSet(names) |-> items[CHOOSE n \in DOMAIN names : names[n] = name]]]
MCHeap == <<Obj(<<a, b>>, <<Num(1), a>>),
            Arr(<<Ref(1), Num(2), Ref(1)>>),
            Obj(<<b, a>>, <<Ref(2), Ref(3)>>),
            Obj(<<a>>, <<Ref(5)>>),
            Obj(<<a>>, <<Ref(4)>>),
            Arr(<<Ref(4), Ref(5), Ref(7)>>),
            Obj(<<q, empty>>, <<Ref(4), Num(1)>>)>>
MCDocuments == {Ref(n) : n \in {2, 3, 6}}

MCLetters == {"a", "b", "u", "n", "e", "length", "count", "match", "value", "search",
              "true", "false", "null"}
MCControls == {"BS", "FF", "\n", "\r", "\t", "US"}
MCHex == ("US" :> <<"0", "0", "1", "F">>) @@ ("\n" :> <<"0", "0", "0", "A">>)
         @@ ("high" :> <<"D", "8", "3", "D">>) @@ ("low" :> <<"D", "E", "0", "0">>)
MCWords == (<<>> :> 0) @@ (<<"a">> :> 1) @@ (<<"b">> :> 2) @@ (<<"a", "*">> :> 3)
           @@ (<<"(", "a", "*", ")", "*">> :> 4) @@ (<<"length">> :> 5) @@ (<<"count">> :> 6)
           @@ (<<"match">> :> 7) @@ (<<"value">> :> 8) @@ (<<"search">> :> 9)
           @@ (<<"high", "low", "'", "\\", "\n", "US">> :> 10)
(* Numerals of 0 to 12 and of 99, in three ways, and what damage makes of 99. *)
Numerals(n) == (Decimal(n) :> n) @@ (Decimal(n) \o <<".", "0">> :> n) @@ (Decimal(n) \o <<"e", "0">> :> n)
MCNumber == FoldLeft(LAMBDA all, n : all @@ Numerals(n), <<"-", "0">> :> 0,
                     [n \in 1..17 |-> IF n = 17 THEN 99 ELSE n - 4]) @@ Numerals(990)

R == Token("ROOT")
C == Token("CURRENT")
T(type) == Token(type)
V(it) == ValueToken(it)
Inexact(n) == [V(Num(n)) EXCEPT !.integral = FALSE]
Dot(name) == <<Token("DOT"), NameToken(name)>>
In(tokens) == <<Token("LBRACKET")>> \o tokens \o <<Token("RBRACKET")>>
Filter(tokens) == In(<<Token("QUESTION")>> \o tokens)
Call(name, tokens) == <<NameToken(name), Token("LPAREN")>> \o tokens \o <<Token("RPAREN")>>
Descend(tokens) == <<Token("DOTDOT")>> \o tokens

MCSentences == {
    <<R>> \o Descend(In(<<V(q)>>)) \o In(<<V(a), T("COMMA"), V(q), T("COMMA"), V(empty)>>),
    <<R>> \o Descend(Filter(<<C>> \o In(<<V(empty)>>) \o <<T("EQ"), V([type |-> "null", v |-> 0])>>))
          \o In(<<V(Num(0))>>),
    <<R>> \o Filter(<<C>> \o In(<<V(q)>>) \o In(<<V(a)>>)),
    <<R>> \o Dot(a) \o Dot(a),
    <<R>> \o In(<<V(a), T("COMMA"), V(b)>>),
    <<R>> \o Descend(<<T("WILDCARD")>>),
    <<R>> \o Descend(<<NameToken(a)>>) \o Dot(b),
    <<R>> \o In(<<V(Num(1)), T("COLON")>>),
    <<R>> \o In(<<T("COLON"), T("COLON"), V(Num(-1))>>),
    <<R>> \o In(<<V(Num(-1)), T("COMMA"), T("COLON"), V(Num(-1))>>) \o Dot(a),
    <<R>> \o Descend(In(<<V(Num(0)), T("COMMA"), V(Num(0)), T("COLON"), V(Num(3)), T("COLON"), V(Num(2))>>)),
    <<R, T("DOT"), T("WILDCARD")>> \o Filter(<<C>> \o Dot(a) \o <<T("GE"), Inexact(1)>>),
    <<R>> \o Filter(<<C>> \o Filter(<<C>>) \o <<T("AND"), C, T("NE"), R>> \o In(<<V(Num(0))>>)),
    <<R>> \o Descend(Filter(<<C, T("EQ"), R>> \o In(<<V(Num(1))>>))),
    <<R>> \o Filter(Call(count, <<C>> \o Descend(<<T("WILDCARD")>>)) \o <<T("GT"), V(Num(1))>>),
    <<R>> \o Filter(<<T("NOT"), C>> \o Dot(b) \o <<T("OR"), C>> \o Dot(a) \o <<T("LT"), Inexact(99)>>),
    <<R>> \o Filter(Call(length, <<C>> \o Dot(b)) \o <<T("EQ"), V(Num(1))>>),
    <<R>> \o Filter(Call(match, <<C>> \o Dot(b) \o <<T("COMMA"), V(p)>>)),
    <<R>> \o Filter(Call(match, <<C>> \o Dot(b) \o <<T("COMMA"), V(u)>>)),
    <<R>> \o Filter(<<T("NOT")>> \o Call(search, <<V(b), T("COMMA"), C>> \o Dot(b))),
    <<R>> \o Filter(Call(value, <<C>> \o Descend(<<NameToken(b)>>)) \o <<T("LE"), V(a)>>),
    <<R>> \o Filter(Parenthesised(<<C>> \o Dot(a) \o <<T("OR"), C>> \o Dot(b)) \o <<T("AND"), T("NOT")>>
                    \o Parenthesised(<<C>> \o Dot(a) \o <<T("EQ"), V(Num(1))>>))}

MCDamagedOn == Ref(6)
MCOptions == {[NoOption EXCEPT !.nodes = n, !.depth = d] :
                 n \in {Absent, 0, 4, 9}, d \in {Absent, 0, 2}}
MCDefaultLimits == [nodes |-> 60, depth |-> 4, pattern |-> 5, input |-> 1, rejectUnsafe |-> TRUE]
MCEntries == {"query", "throwOnError", "compiled"}
=============================================================================
