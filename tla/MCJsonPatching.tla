--------------------------- MODULE MCJsonPatching ---------------------------
(* Members are called a and b, which stands for a name that has to be escaped *)
(* in a pointer and encoded in a fragment.  The caller's array 1 stands in targets and is an operation's value.  Nodes *)
(* 2 to 17 are all objects of a and b with null, x, that array or nothing;    *)
(* nodes 18 to 26 have one of those without the array as their a.  Node 27 is *)
(* its own a, nodes 28 to 30 are a chain that is too deep, and node 31 has a  *)
(* member that is no JSON.                                                    *)
EXTENDS JsonPatching

CONSTANT x  \* a primitive value

a == <<"a">>
b == <<"~", "1", "%", "2", "5">>
MCIndexToken == <<<<"0">>, <<"1">>, <<"2">>>>
MCToken == {a, b, <<"-">>} \cup ToSet(MCIndexToken)
MCPath == {<<>>, <<a>>, <<b>>, <<a, <<"0">>>>, <<a, <<"1">>>>, <<b, <<"-">>>>}
MCBadPointer == {<<"a">>, <<"/", "a", "~">>, <<"/", "~", "2">>}
MCPercentEncoded == "%" :> <<"%", "2", "5">>

Choice == <<Missing, Null, x, 1>>
Flat(n) == [kind |-> "object",
            items |-> LET items == (a :> Choice[(n \div 4) + 1]) @@ (b :> Choice[(n % 4) + 1])
                      IN  [name \in {m \in {a, b} : items[m] # Missing} |-> items[name]]]
Nested(n) == [kind |-> "object",
              items |-> LET child == 2 + 4 * (n \div 3) + (n % 3)
                        IN  IF n % 2 = 0 THEN (a :> child) ELSE (a :> child) @@ (b :> x)]
BadMember == <<27, 29, 30, 18, NotJson>>
MCCallerHeap == <<[kind |-> "array", items |-> <<x>>]>>
                \o [n \in 1..16 |-> Flat(n - 1)] \o [n \in 1..9 |-> Nested(n - 1)]
                \o [n \in 1..5 |-> [kind |-> "object", items |-> a :> BadMember[n]]]

MCBadValue == {NotJson, 27, 28, 31}
MCMergeValue == {Null, x} \cup 1..26
MCMergeTarget == {Null} \cup 1..26
=============================================================================
