------------------------ MODULE RobotsWildcard_proofs ------------------------
(* wildcardMatchLinear is exact for every rule and every path.  The walk      *)
(* keeps one place to come back to and forgets all earlier stars; the         *)
(* invariant says why nothing is lost by that.                                *)
EXTENDS RobotsWildcard, TLAPS

-----------------------------------------------------------------------------
(* How a match begins.                                                        *)

(* A star passes over any part of the text.                                   *)
LEMMA MatchFromStar ==
    ASSUME NEW g \in Seq(Char), NEW v \in Seq(Char),
           NEW i \in 0..(Len(g) - 1), NEW j \in 0..Len(v), g[i + 1] = "*"
    PROVE  Matches(g, v, i, j) <=> \E k \in j..Len(v) : Matches(g, v, i + 1, k)
<1>1. ASSUME Matches(g, v, i, j)
      PROVE  \E k \in j..Len(v) : Matches(g, v, i + 1, k)
  <2>1. PICK cut \in [0..Len(g) -> 0..Len(v)] : Cuts(g, v, cut, i, j)
    BY <1>1 DEF Matches
  <2>2. cut[i] <= cut[i + 1] /\ cut[i] = j /\ cut[i + 1] \in 0..Len(v)
    BY <2>1 DEF Cuts
  <2>3. Cuts(g, v, cut, i + 1, cut[i + 1])
    BY <2>1 DEF Cuts
  <2> QED BY <2>2, <2>3 DEF Matches
<1>2. ASSUME NEW k \in j..Len(v), Matches(g, v, i + 1, k)
      PROVE  Matches(g, v, i, j)
  <2>1. PICK cut \in [0..Len(g) -> 0..Len(v)] : Cuts(g, v, cut, i + 1, k)
    BY <1>2 DEF Matches
  <2> DEFINE new == [cut EXCEPT ![i] = j]
  <2>2. new \in [0..Len(g) -> 0..Len(v)] /\ new[i] = j
        /\ \A q \in (i + 1)..Len(g) : new[q] = cut[q]
    OBVIOUS
  <2>3. Cuts(g, v, new, i, j)
    BY <2>1, <2>2 DEF Cuts
  <2> QED BY <2>2, <2>3 DEF Matches
<1> QED BY <1>1, <1>2

(* Any other character passes over itself.                                    *)
LEMMA MatchFromChar ==
    ASSUME NEW g \in Seq(Char), NEW v \in Seq(Char),
           NEW i \in 0..(Len(g) - 1), NEW j \in 0..Len(v), g[i + 1] # "*"
    PROVE  Matches(g, v, i, j)
           <=> j < Len(v) /\ v[j + 1] = g[i + 1] /\ Matches(g, v, i + 1, j + 1)
<1>1. ASSUME Matches(g, v, i, j)
      PROVE  j < Len(v) /\ v[j + 1] = g[i + 1] /\ Matches(g, v, i + 1, j + 1)
  <2>1. PICK cut \in [0..Len(g) -> 0..Len(v)] : Cuts(g, v, cut, i, j)
    BY <1>1 DEF Matches
  <2>2. cut[i + 1] = j + 1 /\ v[j + 1] = g[i + 1] /\ cut[i + 1] \in 0..Len(v)
    <3>1. cut[i] = j /\ i \in i..(Len(g) - 1)
      BY <2>1 DEF Cuts
    <3>2. cut[i + 1] = cut[i] + 1 /\ v[cut[i] + 1] = g[i + 1]
      BY <2>1, <3>1 DEF Cuts
    <3>3. cut[i + 1] \in 0..Len(v)
      OBVIOUS
    <3> QED BY <3>1, <3>2, <3>3
  <2>3. Cuts(g, v, cut, i + 1, j + 1)
    BY <2>1, <2>2 DEF Cuts
  <2> QED BY <2>2, <2>3 DEF Matches
<1>2. ASSUME j < Len(v), v[j + 1] = g[i + 1], Matches(g, v, i + 1, j + 1)
      PROVE  Matches(g, v, i, j)
  <2>1. PICK cut \in [0..Len(g) -> 0..Len(v)] : Cuts(g, v, cut, i + 1, j + 1)
    BY <1>2 DEF Matches
  <2> DEFINE new == [cut EXCEPT ![i] = j]
  <2>2. new \in [0..Len(g) -> 0..Len(v)] /\ new[i] = j
        /\ \A q \in (i + 1)..Len(g) : new[q] = cut[q]
    OBVIOUS
  <2>3. Cuts(g, v, new, i, j)
    BY <1>2, <2>1, <2>2 DEF Cuts
  <2> QED BY <2>2, <2>3 DEF Matches
<1> QED BY <1>1, <1>2

(* At the end of the glob only the end of the text matches.                   *)
LEMMA MatchFromEnd ==
    ASSUME NEW g \in Seq(Char), NEW v \in Seq(Char), NEW j \in 0..Len(v)
    PROVE  Matches(g, v, Len(g), j) <=> j = Len(v)
<1>1. Matches(g, v, Len(g), j) => j = Len(v)
  BY DEF Matches, Cuts
<1>2. ASSUME j = Len(v) PROVE Matches(g, v, Len(g), j)
  <2> DEFINE cut == [q \in 0..Len(g) |-> Len(v)]
  <2>1. cut \in [0..Len(g) -> 0..Len(v)] /\ Cuts(g, v, cut, Len(g), j)
    BY <1>2 DEF Cuts
  <2> QED BY <2>1 DEF Matches
<1> QED BY <1>1, <1>2

(* Outside the text nothing matches.                                          *)
LEMMA MatchInside ==
    ASSUME NEW g \in Seq(Char), NEW v \in Seq(Char), NEW i \in 0..Len(g), NEW j,
           Matches(g, v, i, j)
    PROVE  j \in 0..Len(v)
BY DEF Matches, Cuts

-----------------------------------------------------------------------------

M(i, j) == Matches(glob, value, i, j)

(* The last star is a star.                                                   *)
StarIsStar == starIndex >= 0 => glob[starIndex + 1] = "*"

(* Nothing is lost: the glob matches iff it matches from where the walk is,   *)
(* or the last star can take more.                                            *)
NothingLost ==
    result = "none" =>
        (M(0, 0) <=> M(globIndex, valueIndex)
                     \/ (starIndex >= 0 /\ M(starIndex, matchIndex + 1)))

(* Since the last star the walk has seen no other: a later try would stand    *)
(* just as much later now.  So a new star can do what the last one could.     *)
OnlyCharsSinceStar ==
    result = "none" /\ starIndex >= 0 =>
        \A k \in (matchIndex + 1)..Len(value) :
            M(starIndex + 1, k) => M(globIndex, k + (valueIndex - matchIndex))

IInv == TypeOK /\ StarIsStar /\ NothingLost /\ OnlyCharsSinceStar /\ AnswerIsExact

LEMMA InitIInv == Init => IInv
<1> SUFFICES ASSUME Init PROVE IInv
  OBVIOUS
<1> USE RobotsWildcardAssumption DEF Init
<1>1. pattern \in Seq(Char) /\ value \in Seq(Char)
  <2>1. PICK n \in 0..MaxPattern : pattern \in [1..n -> Char]
    BY DEF Texts
  <2>2. PICK m \in 0..MaxValue : value \in [1..m -> PathChar]
    BY DEF Texts
  <2> QED BY <2>1, <2>2
<1>2. glob \in Seq(Char)
  <2>1. CorePattern(pattern) \in Seq(Char)
    BY <1>1 DEF CorePattern, AnchoredEnd
  <2> QED BY <2>1 DEF CompilePathPattern
<1>3. TypeOK
  BY <1>1, <1>2 DEF TypeOK
<1> QED BY <1>3 DEF IInv, StarIsStar, NothingLost, OnlyCharsSinceStar, AnswerIsExact, M

(* The walk has come to a place from where the rest does not match.           *)
LEMMA DeadEnd ==
    ASSUME TypeOK, valueIndex < Len(value), ~AtStar, ~AtSameChar
    PROVE  ~M(globIndex, valueIndex)
<1>1. CASE globIndex = Len(glob)
  BY <1>1, MatchFromEnd DEF TypeOK, M
<1>2. CASE globIndex < Len(glob)
  <2>1. globIndex \in 0..(Len(glob) - 1) /\ valueIndex \in 0..Len(value)
        /\ glob[globIndex + 1] # "*" /\ glob[globIndex + 1] # value[valueIndex + 1]
    BY <1>2 DEF TypeOK, AtStar, AtSameChar
  <2> QED BY <2>1, MatchFromChar DEF TypeOK, M
<1> QED BY <1>1, <1>2 DEF TypeOK

(* At the end of the path the last star has nothing left to try.              *)
LEMMA NoMoreTries ==
    ASSUME IInv, AfterLoop, starIndex >= 0
    PROVE  /\ ~M(starIndex, matchIndex + 1)
           /\ \A k \in (matchIndex + 1)..Len(value) : ~M(starIndex + 1, k)
<1> USE DEF M
<1>1. ASSUME NEW k \in (matchIndex + 1)..Len(value), M(starIndex + 1, k)
      PROVE  FALSE
  <2>1. M(globIndex, k + (valueIndex - matchIndex))
    BY <1>1 DEF IInv, OnlyCharsSinceStar, AfterLoop
  <2>2. k + (valueIndex - matchIndex) > Len(value)
    BY DEF IInv, TypeOK, AfterLoop
  <2>3. k + (valueIndex - matchIndex) \in 0..Len(value)
    BY <2>1, MatchInside DEF IInv, TypeOK
  <2> QED BY <2>2, <2>3 DEF IInv, TypeOK
<1>2. ASSUME M(starIndex, matchIndex + 1) PROVE FALSE
  <2>1. matchIndex + 1 \in 0..Len(value) /\ starIndex \in 0..(Len(glob) - 1)
    BY <1>2, MatchInside DEF IInv, TypeOK
  <2>2. \E k \in (matchIndex + 1)..Len(value) : M(starIndex + 1, k)
    BY <1>2, <2>1, MatchFromStar DEF IInv, TypeOK, StarIsStar
  <2> QED BY <2>2, <1>1
<1> QED BY <1>1, <1>2

LEMMA MeetStarIInv == ASSUME IInv, MeetStar PROVE IInv'
<1> USE DEF M
<1>0. /\ UNCHANGED <<pattern, value, glob, valueIndex, result>>
      /\ globIndex' = globIndex + 1 /\ starIndex' = globIndex /\ matchIndex' = valueIndex
      /\ globIndex \in 0..(Len(glob) - 1) /\ glob[globIndex + 1] = "*"
      /\ valueIndex \in 0..Len(value) /\ valueIndex < Len(value) /\ result = "none"
      /\ glob \in Seq(Char) /\ value \in Seq(Char)
  BY DEF IInv, TypeOK, MeetStar, InLoop, AtStar, input
<1>1. TypeOK'
  BY DEF IInv, TypeOK, MeetStar, InLoop, AtStar, input
<1>2. StarIsStar'
  BY <1>0 DEF StarIsStar
<1>3. NothingLost'
  <2>1. M(globIndex, valueIndex) <=> M(globIndex + 1, valueIndex) \/ M(globIndex, valueIndex + 1)
    <3>1. M(globIndex, valueIndex) <=> \E k \in valueIndex..Len(value) : M(globIndex + 1, k)
      BY <1>0, MatchFromStar
    <3>2. M(globIndex, valueIndex + 1) <=> \E k \in (valueIndex + 1)..Len(value) : M(globIndex + 1, k)
      BY <1>0, MatchFromStar, valueIndex + 1 \in 0..Len(value)
    <3>3. valueIndex..Len(value) = {valueIndex} \cup (valueIndex + 1)..Len(value)
      BY <1>0
    <3> QED BY <3>1, <3>2, <3>3
  <2>2. ASSUME starIndex >= 0, M(starIndex, matchIndex + 1)
        PROVE  M(globIndex, valueIndex)
    <3>1. matchIndex + 1 \in 0..Len(value) /\ starIndex \in 0..(Len(glob) - 1)
      BY <2>2, MatchInside DEF IInv, TypeOK
    <3>2. PICK k \in (matchIndex + 1)..Len(value) : M(starIndex + 1, k)
      BY <2>2, <3>1, MatchFromStar DEF IInv, TypeOK, StarIsStar
    <3> DEFINE later == k + (valueIndex - matchIndex)
    <3>3. M(globIndex, later)
      BY <3>2, <2>2, <1>0 DEF IInv, OnlyCharsSinceStar
    <3>4. later \in 0..Len(value) /\ later >= valueIndex
      BY <3>3, <1>0, MatchInside DEF IInv, TypeOK
    <3>5. PICK n \in later..Len(value) : M(globIndex + 1, n)
      BY <3>3, <3>4, <1>0, MatchFromStar
    <3>6. n \in valueIndex..Len(value)
      BY <3>4, <3>5, <1>0
    <3> QED BY <3>5, <3>6, <1>0, MatchFromStar
  <2>3. M(0, 0) <=> M(globIndex, valueIndex)
    BY <2>2, <1>0 DEF IInv, NothingLost
  <2> QED BY <1>0, <2>1, <2>3 DEF NothingLost
<1>4. OnlyCharsSinceStar'
  BY <1>0 DEF OnlyCharsSinceStar
<1>5. AnswerIsExact'
  BY <1>0 DEF AnswerIsExact
<1> QED BY <1>1, <1>2, <1>3, <1>4, <1>5 DEF IInv

LEMMA MeetCharIInv == ASSUME IInv, MeetChar PROVE IInv'
<1> USE DEF M
<1>0. /\ UNCHANGED <<pattern, value, glob, starIndex, matchIndex, result>>
      /\ globIndex' = globIndex + 1 /\ valueIndex' = valueIndex + 1
      /\ globIndex \in 0..(Len(glob) - 1) /\ glob[globIndex + 1] # "*"
      /\ glob[globIndex + 1] = value[valueIndex + 1]
      /\ valueIndex \in 0..Len(value) /\ valueIndex < Len(value) /\ result = "none"
      /\ glob \in Seq(Char) /\ value \in Seq(Char)
      /\ matchIndex \in 0..Len(value) /\ matchIndex <= valueIndex
  BY DEF IInv, TypeOK, MeetChar, InLoop, AtStar, AtSameChar, input
<1>1. TypeOK'
  BY DEF IInv, TypeOK, MeetChar, InLoop, AtStar, AtSameChar, input
<1>2. StarIsStar'
  BY <1>0 DEF IInv, StarIsStar
<1>3. NothingLost'
  <2>1. M(globIndex, valueIndex) <=> M(globIndex + 1, valueIndex + 1)
    BY <1>0, MatchFromChar
  <2> QED BY <2>1, <1>0 DEF IInv, NothingLost
<1>4. OnlyCharsSinceStar'
  <2>1. ASSUME starIndex >= 0, NEW k \in (matchIndex + 1)..Len(value), M(starIndex + 1, k)
        PROVE  M(globIndex + 1, k + ((valueIndex + 1) - matchIndex))
    <3> DEFINE now == k + (valueIndex - matchIndex)
    <3>1. M(globIndex, now)
      BY <2>1, <1>0 DEF IInv, OnlyCharsSinceStar
    <3>2. now \in 0..Len(value)
      BY <3>1, <1>0, MatchInside
    <3>3. M(globIndex + 1, now + 1)
      BY <3>1, <3>2, <1>0, MatchFromChar
    <3>4. now + 1 = k + ((valueIndex + 1) - matchIndex)
      BY <1>0
    <3> QED BY <3>3, <3>4
  <2> QED BY <2>1, <1>0 DEF OnlyCharsSinceStar
<1>5. AnswerIsExact'
  BY <1>0 DEF AnswerIsExact
<1> QED BY <1>1, <1>2, <1>3, <1>4, <1>5 DEF IInv

LEMMA RetryIInv == ASSUME IInv, Retry PROVE IInv'
<1> USE DEF M
<1>0. /\ UNCHANGED <<pattern, value, glob, starIndex, result>>
      /\ globIndex' = starIndex + 1 /\ valueIndex' = matchIndex + 1
      /\ matchIndex' = matchIndex + 1
      /\ starIndex \in 0..(Len(glob) - 1) /\ glob[starIndex + 1] = "*"
      /\ matchIndex + 1 \in 0..Len(value) /\ result = "none"
      /\ glob \in Seq(Char) /\ value \in Seq(Char)
      /\ ~M(globIndex, valueIndex)
  BY DeadEnd DEF IInv, TypeOK, StarIsStar, Retry, InLoop, input
<1>1. TypeOK'
  BY <1>0 DEF IInv, TypeOK, Retry
<1>2. StarIsStar'
  BY <1>0 DEF StarIsStar
<1>3. NothingLost'
  <2> DEFINE at == matchIndex + 1
  <2>1. M(0, 0) <=> M(starIndex, at)
    BY <1>0 DEF IInv, NothingLost
  <2>2. M(starIndex, at) <=> \E k \in at..Len(value) : M(starIndex + 1, k)
    BY <1>0, MatchFromStar
  <2>3. at..Len(value) = {at} \cup (at + 1)..Len(value)
    BY <1>0
  <2>4. M(starIndex, at + 1) <=> \E k \in (at + 1)..Len(value) : M(starIndex + 1, k)
    <3>1. CASE at + 1 \in 0..Len(value)
      BY <3>1, <1>0, MatchFromStar
    <3>2. CASE at + 1 \notin 0..Len(value)
      BY <3>2, <1>0, MatchInside
    <3> QED BY <3>1, <3>2
  <2> QED BY <1>0, <2>1, <2>2, <2>3, <2>4 DEF NothingLost
<1>4. OnlyCharsSinceStar'
  BY <1>0 DEF OnlyCharsSinceStar
<1>5. AnswerIsExact'
  BY <1>0 DEF AnswerIsExact
<1> QED BY <1>1, <1>2, <1>3, <1>4, <1>5 DEF IInv

LEMMA GiveUpIInv == ASSUME IInv, GiveUp PROVE IInv'
<1> USE DEF M
<1>0. /\ UNCHANGED <<pattern, value, glob, globIndex, valueIndex, starIndex, matchIndex, steps>>
      /\ result' = "mismatch" /\ result = "none" /\ starIndex < 0
      /\ ~M(globIndex, valueIndex)
  BY DeadEnd DEF IInv, TypeOK, GiveUp, InLoop, input
<1>1. TypeOK'
  BY <1>0 DEF IInv, TypeOK
<1>2. AnswerIsExact'
  <2>1. ~M(0, 0)
    BY <1>0 DEF IInv, NothingLost, TypeOK
  <2> QED BY <1>0, <2>1 DEF AnswerIsExact
<1> QED BY <1>0, <1>1, <1>2 DEF IInv, StarIsStar, NothingLost, OnlyCharsSinceStar

LEMMA SkipStarIInv == ASSUME IInv, SkipStar PROVE IInv'
<1> USE DEF M
<1>0. /\ UNCHANGED <<pattern, value, glob, valueIndex, starIndex, matchIndex, result>>
      /\ globIndex' = globIndex + 1
      /\ globIndex \in 0..(Len(glob) - 1) /\ glob[globIndex + 1] = "*"
      /\ valueIndex = Len(value) /\ result = "none" /\ AfterLoop
      /\ glob \in Seq(Char) /\ value \in Seq(Char)
  BY DEF IInv, TypeOK, SkipStar, AfterLoop, AtStar, input
<1>1. TypeOK'
  BY <1>0 DEF IInv, TypeOK, SkipStar
<1>2. StarIsStar'
  BY <1>0 DEF IInv, StarIsStar
<1>3. NothingLost'
  <2>1. M(globIndex, valueIndex) <=> \E k \in valueIndex..Len(value) : M(globIndex + 1, k)
    BY <1>0, MatchFromStar DEF IInv, TypeOK
  <2>2. valueIndex..Len(value) = {valueIndex}
    BY <1>0
  <2> QED BY <1>0, <2>1, <2>2 DEF IInv, NothingLost
<1>4. OnlyCharsSinceStar'
  BY <1>0, NoMoreTries DEF OnlyCharsSinceStar
<1>5. AnswerIsExact'
  BY <1>0 DEF AnswerIsExact
<1> QED BY <1>1, <1>2, <1>3, <1>4, <1>5 DEF IInv

LEMMA FinishIInv == ASSUME IInv, Finish PROVE IInv'
<1> USE DEF M
<1>0. /\ UNCHANGED <<pattern, value, glob, globIndex, valueIndex, starIndex, matchIndex, steps>>
      /\ result' = IF globIndex = Len(glob) THEN "match" ELSE "mismatch"
      /\ valueIndex = Len(value) /\ result = "none" /\ AfterLoop /\ ~AtStar
      /\ glob \in Seq(Char) /\ value \in Seq(Char)
  BY DEF IInv, TypeOK, Finish, AfterLoop, input
<1>1. TypeOK'
  BY <1>0 DEF IInv, TypeOK
<1>2. AnswerIsExact'
  <2>1. M(0, 0) <=> M(globIndex, valueIndex)
    BY <1>0, NoMoreTries DEF IInv, NothingLost
  <2>2. M(globIndex, valueIndex) <=> globIndex = Len(glob)
    <3>1. CASE globIndex = Len(glob)
      BY <3>1, <1>0, MatchFromEnd
    <3>2. CASE globIndex < Len(glob)
      <4>1. globIndex \in 0..(Len(glob) - 1) /\ glob[globIndex + 1] # "*"
        BY <3>2, <1>0 DEF AtStar, IInv, TypeOK
      <4>2. ~M(globIndex, valueIndex)
        BY <4>1, <1>0, MatchFromChar
      <4> QED BY <4>2, <3>2, <1>0
    <3> QED BY <3>1, <3>2, <1>0 DEF IInv, TypeOK
  <2> QED BY <1>0, <2>1, <2>2 DEF AnswerIsExact
<1> QED BY <1>0, <1>1, <1>2 DEF IInv, StarIsStar, NothingLost, OnlyCharsSinceStar

LEMMA NextIInv == IInv /\ [Next]_vars => IInv'
<1> SUFFICES ASSUME IInv, [Next]_vars PROVE IInv'
  OBVIOUS
<1>1. CASE UNCHANGED vars
  BY <1>1 DEF IInv, TypeOK, StarIsStar, NothingLost, OnlyCharsSinceStar, AnswerIsExact, M, vars
<1> QED
  BY <1>1, MeetStarIInv, MeetCharIInv, RetryIInv, GiveUpIInv, SkipStarIInv, FinishIInv DEF Next

(* The matcher's answer is exact: wildcardMatchLinear returns true iff some   *)
(* way to spread the path over the stars of the compiled rule exists, for     *)
(* every rule and every path.                                                 *)
THEOREM MatchIsExact == Spec => []AnswerIsExact
<1>1. IInv => AnswerIsExact
  BY DEF IInv
<1> QED BY <1>1, InitIInv, NextIInv, PTL DEF Spec

(* The indices stay inside the rule and the path, and the walk never comes    *)
(* back to a place behind the one it tried last.                              *)
THEOREM IndicesInside == Spec => []TypeOK
<1>1. IInv => TypeOK
  BY DEF IInv
<1> QED BY <1>1, InitIInv, NextIInv, PTL DEF Spec

-----------------------------------------------------------------------------
(* How long the walk takes.                                                   *)

(* Every place tried in the path costs one pass over the glob at most; the    *)
(* pass of the place tried last has come to globIndex.                        *)
PassPerPlace == steps <= matchIndex * (Len(glob) + 1) + globIndex

LEMMA ProductGrows ==
    ASSUME NEW a \in Nat, NEW b \in Nat, NEW c \in Nat, a <= b
    PROVE  a * c \in Nat /\ b * c \in Nat /\ a * c <= b * c
<1>1. PICK d \in Nat : b = a + d
  <2>1. b - a \in Nat /\ b = a + (b - a)
    OBVIOUS
  <2> QED BY <2>1
<1>2. b * c = a * c + d * c
  BY <1>1
<1>3. a * c \in Nat /\ d * c \in Nat
  OBVIOUS
<1> QED BY <1>2, <1>3

LEMMA PassPerPlaceStep == TypeOK /\ PassPerPlace /\ [Next]_vars => PassPerPlace'
<1> SUFFICES ASSUME TypeOK, PassPerPlace, [Next]_vars PROVE PassPerPlace'
  OBVIOUS
<1> DEFINE width == Len(glob) + 1
<1>1. /\ width \in Nat /\ steps \in Nat /\ matchIndex \in Nat /\ globIndex \in Nat
      /\ valueIndex \in Nat /\ globIndex < width /\ matchIndex <= valueIndex
  BY DEF TypeOK
<1>2. matchIndex * width \in Nat /\ matchIndex * width <= valueIndex * width
      /\ valueIndex * width \in Nat
  BY <1>1, ProductGrows
<1>3. (matchIndex + 1) * width = matchIndex * width + width
  BY <1>1
<1>4. steps <= matchIndex * width + globIndex
  BY DEF PassPerPlace
<1> HIDE DEF width
<1>5. CASE MeetStar
  <2>1. steps' <= valueIndex * width + globIndex'
    BY <1>1, <1>2, <1>4, <1>5 DEF MeetStar
  <2> QED BY <1>5, <2>1 DEF MeetStar, PassPerPlace, input, width
<1>6. CASE Retry
  <2>1. steps' <= (matchIndex + 1) * width + globIndex'
    BY <1>1, <1>2, <1>3, <1>4, <1>6 DEF Retry, TypeOK
  <2> QED BY <1>6, <2>1 DEF Retry, PassPerPlace, input, width
<1>7. CASE MeetChar \/ SkipStar
  <2>1. steps' <= matchIndex * width + globIndex'
    BY <1>1, <1>2, <1>4, <1>7 DEF MeetChar, SkipStar
  <2> QED BY <1>7, <2>1 DEF MeetChar, SkipStar, PassPerPlace, input, width
<1>8. CASE GiveUp \/ Finish \/ UNCHANGED vars
  BY <1>8 DEF GiveUp, Finish, vars, input, PassPerPlace
<1> QED BY <1>5, <1>6, <1>7, <1>8 DEF Next

LEMMA WorkFromPasses == TypeOK /\ PassPerPlace => WorkBound
<1> SUFFICES ASSUME TypeOK, PassPerPlace PROVE WorkBound
  OBVIOUS
<1> DEFINE width == Len(glob) + 1
<1>1. /\ width \in Nat /\ matchIndex \in Nat /\ Len(value) \in Nat /\ steps \in Nat
      /\ globIndex \in Nat /\ globIndex < width /\ matchIndex <= Len(value)
  BY DEF TypeOK
<1>2. matchIndex * width <= Len(value) * width /\ Len(value) * width \in Nat
      /\ matchIndex * width \in Nat
  BY <1>1, ProductGrows
<1>3. width * (Len(value) + 1) = Len(value) * width + width
  BY <1>1
<1>4. steps <= matchIndex * width + globIndex
  BY DEF PassPerPlace
<1> HIDE DEF width
<1>5. steps <= width * (Len(value) + 1)
  BY <1>1, <1>2, <1>3, <1>4
<1> QED BY <1>5 DEF WorkBound, width

(* wildcardMatchLinear does at most one pass over the rule for each place it  *)
(* tries in the path, for every rule and every path: no rule makes the walk   *)
(* exponential, which is what it was written for (robots.ts:339).             *)
THEOREM WorkIsBounded == Spec => []WorkBound
<1>1. Init => PassPerPlace
  BY DEF Init, PassPerPlace
<1>2. IInv => TypeOK
  BY DEF IInv
<1> QED
  BY <1>1, <1>2, InitIInv, NextIInv, PassPerPlaceStep, WorkFromPasses, PTL DEF Spec
=============================================================================
