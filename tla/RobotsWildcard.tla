--------------------------- MODULE RobotsWildcard ---------------------------
(* Matching a path against one rule of robots.txt: compilePathPattern turns   *)
(* the pattern into a glob and wildcardMatchLinear walks the glob and the     *)
(* path with two indices and one place to come back to, the last star met.    *)
(* One action is one iteration of one of its loops; indices count from 0 as   *)
(* in the code.                                                               *)
EXTENDS Integers, Sequences

CONSTANTS
    Char,        \* the characters of patterns
    PathChar,    \* the characters of paths
    MaxPattern,  \* bound on the length of a pattern
    MaxValue     \* bound on the length of a path

ASSUME RobotsWildcardAssumption ==
    /\ {"*", "$"} \subseteq Char
    /\ PathChar \subseteq Char
    /\ MaxPattern \in Nat
    /\ MaxValue \in Nat

Texts(chars, max) == UNION {[1..n -> chars] : n \in 0..max}

AnchoredEnd(pattern) == pattern # <<>> /\ pattern[Len(pattern)] = "$"

CorePattern(pattern) ==
    IF AnchoredEnd(pattern) THEN SubSeq(pattern, 1, Len(pattern) - 1) ELSE pattern

CompilePathPattern(pattern) ==
    IF AnchoredEnd(pattern) THEN CorePattern(pattern)
    ELSE Append(CorePattern(pattern), "*")

-----------------------------------------------------------------------------

VARIABLES
    pattern, value,  \* the rule and the path
    glob,            \* the compiled rule
    globIndex, valueIndex,
    starIndex,       \* the last star met, -1 before the first
    matchIndex,      \* where the text after that star was last tried
    result,          \* "none" until the function returns
    steps            \* history: the iterations so far

input == <<pattern, value, glob>>
vars == <<pattern, value, glob, globIndex, valueIndex, starIndex, matchIndex,
          result, steps>>

Init ==
    /\ pattern \in Texts(Char, MaxPattern)
    /\ value \in Texts(PathChar, MaxValue)
    /\ glob = CompilePathPattern(pattern)
    /\ globIndex = 0
    /\ valueIndex = 0
    /\ starIndex = -1
    /\ matchIndex = 0
    /\ result = "none"
    /\ steps = 0

AtStar == globIndex < Len(glob) /\ glob[globIndex + 1] = "*"

AtSameChar == globIndex < Len(glob) /\ glob[globIndex + 1] = value[valueIndex + 1]

InLoop == result = "none" /\ valueIndex < Len(value)

MeetStar ==
    /\ InLoop /\ AtStar
    /\ starIndex' = globIndex
    /\ matchIndex' = valueIndex
    /\ globIndex' = globIndex + 1
    /\ steps' = steps + 1
    /\ UNCHANGED <<input, valueIndex, result>>

MeetChar ==
    /\ InLoop /\ ~AtStar /\ AtSameChar
    /\ globIndex' = globIndex + 1
    /\ valueIndex' = valueIndex + 1
    /\ steps' = steps + 1
    /\ UNCHANGED <<input, starIndex, matchIndex, result>>

(* Mutant: the second try starts where the first one failed. *)
RetryWhereItFailed ==
    /\ InLoop /\ ~AtStar /\ ~AtSameChar /\ starIndex >= 0
    /\ globIndex' = starIndex + 1
    /\ matchIndex' = valueIndex + 1
    /\ valueIndex' = valueIndex + 1
    /\ steps' = steps + 1
    /\ UNCHANGED <<input, starIndex, result>>
(* Mutant: the second try starts at the same place. *)
RetryInPlace ==
    /\ InLoop /\ ~AtStar /\ ~AtSameChar /\ starIndex >= 0
    /\ globIndex' = starIndex + 1
    /\ valueIndex' = matchIndex
    /\ steps' = steps + 1
    /\ UNCHANGED <<input, starIndex, matchIndex, result>>
(* The star takes one character more and the text after it is tried again.    *)
Retry ==
    /\ InLoop /\ ~AtStar /\ ~AtSameChar /\ starIndex >= 0
    /\ globIndex' = starIndex + 1
    /\ matchIndex' = matchIndex + 1
    /\ valueIndex' = matchIndex + 1
    /\ steps' = steps + 1
    /\ UNCHANGED <<input, starIndex, result>>

GiveUp ==
    /\ InLoop /\ ~AtStar /\ ~AtSameChar /\ starIndex < 0
    /\ result' = "mismatch"
    /\ UNCHANGED <<input, globIndex, valueIndex, starIndex, matchIndex, steps>>

AfterLoop == result = "none" /\ valueIndex >= Len(value)

(* Mutant: the second loop does not advance. *)
StayAtStar == AfterLoop /\ AtStar /\ UNCHANGED vars
SkipStar ==
    /\ AfterLoop /\ AtStar
    /\ globIndex' = globIndex + 1
    /\ steps' = steps + 1
    /\ UNCHANGED <<input, valueIndex, starIndex, matchIndex, result>>

Finish ==
    /\ AfterLoop /\ ~AtStar
    /\ result' = IF globIndex = Len(glob) THEN "match" ELSE "mismatch"
    /\ UNCHANGED <<input, globIndex, valueIndex, starIndex, matchIndex, steps>>

Next == MeetStar \/ MeetChar \/ Retry \/ GiveUp \/ SkipStar \/ Finish

Spec == Init /\ [][Next]_vars /\ WF_vars(Next)

-----------------------------------------------------------------------------
(* What a match is.  A cut says where in the text the part before each        *)
(* character of the glob ends: a star may pass over any text, any other       *)
(* character over itself.                                                     *)

Cuts(g, v, cut, i, j) ==
    /\ cut \in [0..Len(g) -> 0..Len(v)]
    /\ cut[i] = j
    /\ cut[Len(g)] = Len(v)
    /\ \A q \in i..(Len(g) - 1) :
          IF g[q + 1] = "*" THEN cut[q] <= cut[q + 1]
          ELSE cut[q + 1] = cut[q] + 1 /\ v[cut[q] + 1] = g[q + 1]

(* The glob from i on matches the text from j on.                             *)
Matches(g, v, i, j) == \E cut \in [0..Len(g) -> 0..Len(v)] : Cuts(g, v, cut, i, j)

-----------------------------------------------------------------------------
(* Properties.                                                                *)

(* The indices stay inside the two texts, and the place to come back to lies  *)
(* behind both.                                                               *)
TypeOK ==
    /\ pattern \in Seq(Char) /\ value \in Seq(Char) /\ glob \in Seq(Char)
    /\ globIndex \in 0..Len(glob)
    /\ valueIndex \in 0..Len(value)
    /\ starIndex \in -1..(Len(glob) - 1)
    /\ starIndex < globIndex
    /\ matchIndex \in 0..Len(value)
    /\ matchIndex <= valueIndex
    /\ result \in {"none", "match", "mismatch"}
    /\ steps \in Nat

(* wildcardMatchLinear, which remembers only the last star, answers what all  *)
(* ways to spread the text over all stars answer.                             *)
AnswerIsExact ==
    result # "none" => (result = "match" <=> Matches(glob, value, 0, 0))

(* The loops make at most one pass over the glob for each place tried in the  *)
(* path: the walk is bounded by the product of the lengths, whatever the rule *)
(* ("in linear time", robots.ts:339, holds for a rule of fixed length).       *)
WorkBound == steps <= (Len(glob) + 1) * (Len(value) + 1)

(* The function returns for every rule and path.                              *)
Returns == <>(result # "none")
=============================================================================
