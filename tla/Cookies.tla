------------------------------ MODULE Cookies ------------------------------
(* The Cookie and Set-Cookie fields, the dates in them, and the choice of   *)
(* the stored cookies that go with a request.                               *)
(*                                                                          *)
(* A date is <<year, month, day, hour, minute, second>>; a request goes to  *)
(* a url [secure, host, path], its host and path texts.                     *)
EXTENDS HeaderText, Integers, TLC

CONSTANTS
    MonthNames,     \* twelve words
    MonthOf,        \* their numbers, of every word that begins with one
    WeekdayOf(_)    \* of a date: a word

(* A cookie is [name, value, expires, maxAge, domain, path, secure,         *)
(* httpOnly, extensions], with Null for what is not given.                  *)
NoAttributes == [expires |-> Null, maxAge |-> Null, domain |-> Null, path |-> Null,
                 secure |-> FALSE, httpOnly |-> FALSE, extensions |-> <<>>]

DigitNames == <<"0", "1", "2", "3", "4", "5", "6", "7", "8", "9">>
NumberIn(text) ==
    FoldLeft(LAMBDA n, c : 10 * n + (CHOOSE d \in 0..9 : DigitNames[d + 1] = c), 0, text)
Padded(number, width) ==
    [i \in 1..width |-> DigitNames[((number \div 10 ^ (width - i)) % 10) + 1]]
NumberText(number) ==
    LET size == IF number < 0 THEN -number ELSE number
        width == CHOOSE w \in 1..9 : size < 10 ^ w /\ (w > 1 => size >= 10 ^ (w - 1))
    IN  (IF number < 0 THEN <<"-">> ELSE <<>>) \o Padded(size, width)

----------------------------------------------------------------------------
(* Dates.                                                                   *)

FormatHTTPDate(date) ==
    <<WeekdayOf(date), ",", " ">> \o Padded(date[3], 2) \o <<" ", MonthNames[date[2]], " ">>
    \o Padded(date[1], 4) \o <<" ">> \o Padded(date[4], 2) \o <<":">> \o Padded(date[5], 2)
    \o <<":">> \o Padded(date[6], 2) \o <<" ", "GMT">>

NonDelimiters == LowerWords \cup UpperWords \cup Digits \cup {":"} \cup (Invisible \ {"\t"})
TokenizeCookieDate(text) ==
    SelectSeq(SplitAt(text, ToSet(text) \ NonDelimiters), LAMBDA token : token # <<>>)

Fewest(m, n) == IF m < n THEN m ELSE n
ParseDayOfMonth(token) ==
    LET n == RunLength(token, Digits)
    IN  IF n = 0 \/ (n = Len(token) /\ n >= 3) THEN Null
        ELSE NumberIn(SubSeq(token, 1, Fewest(n, 2)))
ParseMonth(token) == IF token[1] \in DOMAIN MonthOf THEN MonthOf[token[1]] ELSE Null
ParseYear(token) ==
    LET n == Fewest(RunLength(token, Digits), 4)
        year == NumberIn(SubSeq(token, 1, n))
    IN  IF n < 2 THEN Null
        ELSE IF n = 2 THEN (IF year >= 70 THEN year + 1900 ELSE year + 2000) ELSE year
ParseTime(token) ==
    LET parts == SplitAt(token, {":"})
    IN  IF Len(parts) # 3 THEN Null
        ELSE IF \E i \in 1..3 : Len(parts[i]) \notin 1..2 \/ ~(ToSet(parts[i]) \subseteq Digits)
        THEN Null ELSE <<NumberIn(parts[1]), NumberIn(parts[2]), NumberIn(parts[3])>>

(* Each token is the first of these that is still wanted and that it can be *)
Take(found, token) ==
    CASE found.time = Null /\ ParseTime(token) # Null -> [found EXCEPT !.time = ParseTime(token)]
      [] found.day = Null /\ ParseDayOfMonth(token) # Null -> [found EXCEPT !.day = ParseDayOfMonth(token)]
      [] found.month = Null /\ ParseMonth(token) # Null -> [found EXCEPT !.month = ParseMonth(token)]
      [] found.year = Null -> [found EXCEPT !.year = ParseYear(token)]
      [] OTHER -> found

IsLeapYear(year) == year % 4 = 0 /\ (year % 100 = 0 => year % 400 = 0)
DaysInMonth(year, month) ==
    CASE month = 2 -> IF IsLeapYear(year) THEN 29 ELSE 28
      [] month \in {4, 6, 9, 11} -> 30
      [] OTHER -> 31
Possible(year, month, day, time) ==
    /\ year \in 1601..9999
    /\ day \in 1..DaysInMonth(year, month)
    /\ time[1] <= 23 /\ time[2] <= 59 /\ time[3] <= 59
DateOf(found) ==
    IF Null \in {found.time, found.day, found.month, found.year} THEN Null
    ELSE IF Possible(found.year, found.month, found.day, found.time)
    THEN <<found.year, found.month, found.day>> \o found.time ELSE Null
ParseCookieDate(text) ==
    DateOf(FoldLeft(Take, [time |-> Null, day |-> Null, month |-> Null, year |-> Null],
                    TokenizeCookieDate(text)))

Before(date, other) ==
    \E i \in 1..6 : date[i] < other[i] /\ \A j \in 1..i - 1 : date[j] = other[j]

----------------------------------------------------------------------------
(* Cookie.                                                                  *)

FormatCookieValue(value) ==
    IF ~Mentionable(value) THEN Null
    ELSE IF ToSet(value) \cap {" ", "\t", ";", ",", "\"", "\\"} = {} THEN value ELSE Quoted(value)
CookiePair(name, value) ==
    IF IsHeaderToken(name) THEN Concat(<<name, <<"=">>, FormatCookieValue(value)>>) ELSE Null

(* name and value around the first equals sign, Null without one. *)
AroundEquals(text) ==
    LET equals == SelectInSeq(text, LAMBDA c : c = "=")
    IN  IF equals = 0 THEN [key |-> Null, value |-> text]
        ELSE [key |-> Trim(SubSeq(text, 1, equals - 1)),
              value |-> Unquote(Trim(From(text, equals + 1)))]
NamedPairs(text) ==
    LET parts == SplitAt(text, {";"})
    IN  SelectSeq([i \in DOMAIN parts |-> AroundEquals(parts[i])],
                  LAMBDA pair : pair.key \notin {Null, <<>>})

(* The first of a name counts. *)
ParseCookie(text) ==
    LET pairs == NamedPairs(text)
    IN  [name \in {pairs[i].key : i \in DOMAIN pairs} |-> Lookup(pairs, name)]

----------------------------------------------------------------------------
(* Set-Cookie.                                                              *)

(* The attribute is left as it was where its value says nothing. *)
ParseMaxAge(text) ==
    LET negative == Starts(text, "-")
        digits == IF negative THEN Tail(text) ELSE text
    IN  IF digits = <<>> \/ ~(ToSet(digits) \subseteq Digits) THEN Null
        ELSE IF negative THEN -NumberIn(digits) ELSE NumberIn(digits)
WithoutDot(domain) == IF Starts(domain, ".") THEN Tail(domain) ELSE domain
Unless(nothing, value, otherwise) == IF value \in nothing THEN otherwise ELSE value
Reading(value, Parse(_)) == IF value = Null THEN Null ELSE Parse(value)
WithAttribute(cookie, name, value) ==
    CASE name = <<"expires">> ->
            [cookie EXCEPT !.expires = Unless({Null}, Reading(value, ParseCookieDate), @)]
      [] name = <<"max-age">> ->
            [cookie EXCEPT !.maxAge = Unless({Null}, Reading(value, ParseMaxAge), @)]
      [] name = <<"domain">> ->
            [cookie EXCEPT !.domain =
                Unless({Null, <<>>}, Reading(value, LAMBDA text : WithoutDot(LowerCase(text))), @)]
      [] name = <<"path">> -> [cookie EXCEPT !.path = Unless({Null, <<>>}, value, @)]
      [] name = <<"secure">> -> [cookie EXCEPT !.secure = TRUE]
      [] name = <<"httponly">> -> [cookie EXCEPT !.httpOnly = TRUE]
      [] OTHER -> [cookie EXCEPT !.extensions = Put(@, name, value)]

(* The text of an attribute; its value is Null without an equals sign. *)
Attribute(cookie, text) ==
    LET equals == SelectInSeq(text, LAMBDA c : c = "=")
        name == IF equals = 0 THEN Trim(text) ELSE Trim(SubSeq(text, 1, equals - 1))
    IN  IF name = <<>> THEN cookie
        ELSE WithAttribute(cookie, LowerCase(name),
                           IF equals = 0 THEN Null ELSE Trim(From(text, equals + 1)))
CookieFrom(pair, attributes) ==
    IF pair.key \in {Null, <<>>} THEN Null
    ELSE FoldLeft(Attribute, [name |-> pair.key, value |-> pair.value] @@ NoAttributes, attributes)
ParseSetCookie(text) ==
    LET parts == SplitAt(text, {";"}) IN CookieFrom(AroundEquals(parts[1]), Tail(parts))

AttributeText(name, value) ==
    IF ~Mentionable(value) \/ ";" \in ToSet(value) THEN Null ELSE name \o <<"=">> \o value
ExtensionText(pair) ==
    IF ~IsHeaderToken(pair.key) THEN Null
    ELSE IF pair.value \in {Null, <<>>} THEN pair.key ELSE AttributeText(pair.key, pair.value)
Optional(given, text) == IF given THEN <<text>> ELSE <<>>
FormatSetCookie(cookie) ==
    Separated(
        <<CookiePair(cookie.name, cookie.value)>>
        \o (IF cookie.expires = Null THEN <<>>
            ELSE <<<<"Expires", "=">> \o FormatHTTPDate(cookie.expires)>>)
        \o (IF cookie.maxAge = Null THEN <<>>
            ELSE <<<<"Max-Age", "=">> \o NumberText(cookie.maxAge)>>)
        \o (IF cookie.domain \in {Null, <<>>} THEN <<>>
            ELSE <<AttributeText(<<"Domain">>, cookie.domain)>>)
        \o (IF cookie.path \in {Null, <<>>} THEN <<>> ELSE <<AttributeText(<<"Path">>, cookie.path)>>)
        \o Optional(cookie.secure, <<"Secure">>)
        \o Optional(cookie.httpOnly, <<"HttpOnly">>)
        \o [i \in DOMAIN cookie.extensions |-> ExtensionText(cookie.extensions[i])],
        <<";", " ">>)

----------------------------------------------------------------------------
(* Which cookies go with a request.                                         *)

IsIpAddress(host) ==
    \/ ":" \in ToSet(host)
    \/ LET parts == SplitAt(host, {"."})
       IN  /\ Len(parts) = 4
           /\ \A i \in 1..4 : /\ parts[i] # <<>> /\ ToSet(parts[i]) \subseteq Digits
                              /\ NumberIn(parts[i]) <= 255

EndsWith(text, end) == Len(end) <= Len(text) /\ From(text, Len(text) - Len(end) + 1) = end
DomainMatches(host, domain) ==
    /\ domain # <<>>
    /\ \/ LowerCase(host) = LowerCase(domain)
       \/ ~IsIpAddress(LowerCase(host)) /\ EndsWith(LowerCase(host), <<".">> \o LowerCase(domain))

(* Up to the last slash, which is left out unless it is the first. *)
DefaultPath(path) ==
    LET slash == SelectLastInSeq(path, LAMBDA c : c = "/")
    IN  IF slash <= 1 THEN <<"/">> ELSE SubSeq(path, 1, slash - 1)

(* Mutant: what follows the cookie's path is not looked at. *)
AnyContinuation(requestPath, cookiePath) == IsPrefix(cookiePath, requestPath)
PathMatches(requestPath, cookiePath) ==
    \/ requestPath = cookiePath
    \/ /\ IsPrefix(cookiePath, requestPath)
       /\ \/ cookiePath # <<>> /\ Last(cookiePath) = "/"
          \/ /\ Len(cookiePath) < Len(requestPath)
             /\ requestPath[Len(cookiePath) + 1] = "/"

(* A stored cookie is [name, value, domain, path, creationTime, expires,    *)
(* secureOnly, httpOnly, hostOnly].                                         *)
Goes(cookie, url, now, includeHttpOnly) ==
    /\ cookie.expires # Null => Before(now, cookie.expires)
    /\ IF cookie.hostOnly THEN LowerCase(url.host) = LowerCase(cookie.domain)
       ELSE DomainMatches(url.host, cookie.domain)
    /\ PathMatches(url.path, cookie.path)
    /\ cookie.secureOnly => url.secure
    /\ cookie.httpOnly => includeHttpOnly

(* Mutant: the shortest path comes first. *)
ShortestFirst(cookie, other) == Len(cookie.path) < Len(other.path)
Precedes(cookie, other) ==
    \/ Len(cookie.path) > Len(other.path)
    \/ Len(cookie.path) = Len(other.path) /\ Before(cookie.creationTime, other.creationTime)
(* The sort is stable. *)
Sorted(cookies) ==
    LET first(i, j) == \/ Precedes(cookies[i], cookies[j])
                       \/ ~Precedes(cookies[j], cookies[i]) /\ i < j
        order == SetToSortSeq(DOMAIN cookies, first)
    IN  [i \in DOMAIN order |-> cookies[order[i]]]

(* Null when none goes, and when a name or a value cannot be written. *)
BuildCookieHeader(cookies, url, now, includeHttpOnly) ==
    LET going == Sorted(SelectSeq(cookies, LAMBDA cookie : Goes(cookie, url, now, includeHttpOnly)))
    IN  IF going = <<>> THEN Null
        ELSE Separated([i \in DOMAIN going |-> CookiePair(going[i].name, going[i].value)], <<";", " ">>)
=============================================================================
