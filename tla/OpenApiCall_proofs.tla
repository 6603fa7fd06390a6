------------------------- MODULE OpenApiCall_proofs -------------------------
(* What one more credential can change, for every document, list of         *)
(* requirements, registry, credential and option; and where the matcher     *)
(* sends a call, for every document whose paths have texts of their own;    *)
(* and what a callback's url is, for every key.                             *)
EXTENDS OpenApiCall, FiniteSetTheorems, SequenceTheorems, NaturalsInduction,
        WellFoundedInduction, TLAPS

-----------------------------------------------------------------------------
(* A scheme without a credential is not satisfied.                          *)
LEMMA NothingSatisfiesNoScheme ==
    ASSUME NEW scheme, scheme.type \in SecuritySchemeTypes, NEW scopes
    PROVE  SchemeSatisfied(scheme, scopes, NoCredential) = FALSE
<1>1. /\ NoCredential.present = FALSE /\ NoCredential.present # Null
      /\ NoCredential.bare = FALSE
  BY OpenApiAssumption DEF NoCredential
<1>2. /\ HasPlainCredential(NoCredential) = FALSE
      /\ HasHttpCredential(NoCredential) = FALSE
      /\ HasScopedCredential(NoCredential) = FALSE
  BY <1>1, Zenon DEF HasPlainCredential, HasHttpCredential, HasScopedCredential, Believed
<1> QED BY <1>2 DEF SchemeSatisfied, SecuritySchemeTypes

(* A requirement that was satisfied stays so when a scheme that had no      *)
(* credential gets one.                                                     *)
LEMMA RequirementStaysSatisfied ==
    ASSUME NEW registry, KnownSchemes(registry), NEW credentials, NEW options, NEW extra,
           NEW name \in DOMAIN registry \ DOMAIN credentials, NEW requirement,
           RequirementSatisfied(requirement, registry, credentials, options)
    PROVE  RequirementSatisfied(requirement, registry,
                                WithCredential(credentials, name, extra), options)
<1> DEFINE more == WithCredential(credentials, name, extra)
<1>1. SUFFICES ASSUME NEW n \in DOMAIN requirement, n \in DOMAIN registry
               PROVE  SchemeSatisfied(registry[n], requirement[n], CredentialFor(more, n))
  BY Zenon DEF RequirementSatisfied
<1>2. SchemeSatisfied(registry[n], requirement[n], CredentialFor(credentials, n))
  BY <1>1, Zenon DEF RequirementSatisfied
<1>3. CASE n = name
  <2>1. CredentialFor(credentials, n) = NoCredential
    BY <1>3 DEF CredentialFor
  <2>2. registry[n].type \in SecuritySchemeTypes
    BY <1>1 DEF KnownSchemes
  <2> QED BY <1>2, <2>1, <2>2, NothingSatisfiesNoScheme, Zenon
<1>4. CASE n # name
  <2>1. CredentialFor(more, n) = CredentialFor(credentials, n)
    BY <1>4 DEF CredentialFor, WithCredential
  <2> QED BY <1>2, <2>1, Zenon
<1> QED BY <1>3, <1>4

LEMMA LeastNat ==
    ASSUME NEW T \in SUBSET Nat, T # {}
    PROVE  \E m \in T : \A n \in T : m <= n
<1>1. PICK R : IsWellFoundedOn(R, Nat) /\ \A x, y \in Nat : <<x, y>> \in R <=> x < y
  <2>1. IsWellFoundedOn(OpToRel(<, Nat), Nat)
    BY NatLessThanWellFounded
  <2>2. \A x, y \in Nat : <<x, y>> \in OpToRel(<, Nat) <=> x < y
    BY DEF OpToRel
  <2> QED BY <2>1, <2>2, Zenon
<1>2. T \subseteq Nat
  OBVIOUS
<1>3. PICK x \in T : \A y \in T : ~ (<<y, x>> \in R)
  <2>1. IsWellFoundedOn(R, Nat)
    BY <1>1
  <2>2. \E x \in T : \A y \in T : ~ (<<y, x>> \in R)
    BY <2>1, <1>2, WFMin
  <2> QED BY <2>2
<1>4. ASSUME NEW y \in T PROVE x <= y
  <2>1. x \in Nat /\ y \in Nat
    OBVIOUS
  <2>2. ~ (y < x)
    BY <1>1, <1>3, <2>1, Zenon
  <2> QED BY <2>1, <2>2
<1> QED BY <1>3, <1>4

LEMMA LeastInteger ==
    ASSUME NEW n, NEW T \in SUBSET (1..n), T # {}
    PROVE  Min(T) \in T /\ \A y \in T : Min(T) <= y
<1>1. T \in SUBSET Nat
  OBVIOUS
<1>2. PICK x \in T : \A y \in T : x <= y
  BY <1>1, LeastNat
<1> QED BY <1>2, Zenon DEF Min

(* SelectInSeq finds the first element that fits, and finds it no later     *)
(* when more elements fit.                                                  *)
LEMMA FirstOfMore ==
    ASSUME NEW n, NEW T \in SUBSET (1..n), NEW U \in SUBSET (1..n), T \subseteq U, T # {}
    PROVE  /\ Min(T) \in T /\ Min(U) \in U /\ U # {}
           /\ Min(T) \in Int /\ Min(U) \in Int /\ 1 <= Min(U) /\ Min(U) <= Min(T)
<1>1. U # {}
  OBVIOUS
<1>2. Min(T) \in T /\ \A y \in T : Min(T) <= y
  BY LeastInteger
<1>3. Min(U) \in U /\ \A y \in U : Min(U) <= y
  BY <1>1, LeastInteger
<1>4. Min(T) \in U
  BY <1>2
<1>5. Min(T) \in 1..n /\ Min(U) \in 1..n
  BY <1>3, <1>4
<1> QED BY <1>1, <1>2, <1>3, <1>4, <1>5

(* What EvaluateSecurity answers, without the choice of the first.           *)
Satisfied(list, registry, credentials, options) ==
    {i \in 1..Len(list) :
        RequirementSatisfied(list[i], registry, credentials, options)}
Throws(list, registry, options) ==
    IsStrictMode(options) /\ ValidationThrows(list, registry, options)

LEMMA VerdictIs ==
    ASSUME NEW list, NEW registry, NEW credentials, NEW options
    PROVE  LET verdict == EvaluateSecurity(list, registry, credentials, options)
               fitting == Satisfied(list, registry, credentials, options)
           IN  verdict = IF Throws(list, registry, options)
                         THEN [Denied EXCEPT !.throws = TRUE]
                         ELSE IF ~IsRequirementList(list) THEN Denied
                         ELSE IF list = <<>> THEN Verdict(TRUE, TRUE, Null)
                         ELSE IF (IF fitting # {} THEN Min(fitting) ELSE 0) = 0 THEN Denied
                         ELSE Verdict(TRUE, list[IF fitting # {} THEN Min(fitting) ELSE 0] = <<>>,
                                      IF fitting # {} THEN Min(fitting) ELSE 0)
  BY Zenon DEF EvaluateSecurity, Satisfied, Throws, SelectInSeq

LEMMA MoreIsNeverLess ==
    ASSUME NEW registry, KnownSchemes(registry), NEW credentials, NEW options, NEW extra,
           NEW name \in DOMAIN registry \ DOMAIN credentials, NEW list,
           EvaluateSecurity(list, registry, credentials, options).allowed
    PROVE  LET verdict == EvaluateSecurity(list, registry, credentials, options)
               more == EvaluateSecurity(list, registry,
                           WithCredential(credentials, name, extra), options)
           IN  more.allowed /\ (more.anonymous => verdict.anonymous
                                  \/ more.matchedRequirementIndex
                                       < verdict.matchedRequirementIndex)
<1> DEFINE T == Satisfied(list, registry, credentials, options)
           U == Satisfied(list, registry, WithCredential(credentials, name, extra), options)
           verdict == EvaluateSecurity(list, registry, credentials, options)
           more == EvaluateSecurity(list, registry,
                       WithCredential(credentials, name, extra), options)
<1>1. T \subseteq U /\ T \in SUBSET (1..Len(list)) /\ U \in SUBSET (1..Len(list))
  BY RequirementStaysSatisfied DEF Satisfied
<1>2. Denied.allowed = FALSE /\ [Denied EXCEPT !.throws = TRUE].allowed = FALSE
  BY DEF Denied, Verdict
<1>3. ~Throws(list, registry, options) /\ IsRequirementList(list)
  BY <1>2, VerdictIs, Zenon
<1>4. CASE list = <<>>
  <2>1. verdict = Verdict(TRUE, TRUE, Null) /\ more = Verdict(TRUE, TRUE, Null)
    BY <1>3, <1>4, VerdictIs, Zenon
  <2> QED BY <2>1 DEF Verdict
<1>5. CASE list # <<>>
  <2>1. T # {}
    BY <1>2, <1>3, <1>5, VerdictIs, Zenon
  <2>2. /\ U # {} /\ Min(T) \in Int /\ Min(U) \in Int
        /\ 1 <= Min(U) /\ Min(U) <= Min(T)
    <3> HIDE DEF T, U
    <3> QED BY <1>1, <2>1, FirstOfMore, Zenon
  <2>3. Min(T) # 0 /\ Min(U) # 0
    <3> HIDE DEF T, U
    <3> QED BY <2>2
  <2>4. /\ verdict = Verdict(TRUE, list[Min(T)] = <<>>, Min(T))
        /\ more = Verdict(TRUE, list[Min(U)] = <<>>, Min(U))
    BY <1>3, <1>5, <2>1, <2>2, <2>3, VerdictIs, Zenon
  <2>5. /\ more.allowed
        /\ verdict.anonymous = (list[Min(T)] = <<>>) /\ verdict.matchedRequirementIndex = Min(T)
        /\ more.anonymous = (list[Min(U)] = <<>>) /\ more.matchedRequirementIndex = Min(U)
    <3> HIDE DEF T, U
    <3> QED BY <2>4 DEF Verdict
  <2>6. Min(U) < Min(T) \/ Min(U) = Min(T)
    <3> HIDE DEF T, U
    <3> QED BY <2>2
  <2> QED BY <2>5, <2>6, Zenon
<1> QED BY <1>4, <1>5

-----------------------------------------------------------------------------
(* The call keeps the verdict it was let in with: nobody changes the         *)
(* credentials, the match or the document between the check and its use.     *)
AccessInv ==
    phase = "extract" =>
        /\ access = EvaluateSecurity(Security, Document.registry, request.credentials,
                                     scenario.securityOptions)
        /\ access.allowed

LEMMA AccessIsKept == Spec => []AccessInv
<1>1. Init => AccessInv
  BY DEF Init, AccessInv
<1>2. AccessInv /\ [Next]_vars => AccessInv'
  <2> SUFFICES ASSUME AccessInv, [Next]_vars PROVE AccessInv'
    OBVIOUS
  <2>1. CASE Authorize
    BY <2>1, Zenon DEF Authorize, AccessInv, Security, Document
  <2>2. CASE UNCHANGED vars
    BY <2>2, Zenon DEF vars, AccessInv, Security, Document
  <2>3. CASE Refuse \/ Prepare \/ Route \/ Extract \/ CallBack \/ FollowLink \/ Answer
    <3>1. phase' # "extract"
      BY <2>3 DEF Refuse, Prepare, Route, Extract, CallBack, FollowLink, Answer
    <3> QED BY <3>1 DEF AccessInv
  <2> QED BY <2>1, <2>2, <2>3 DEF Next
<1> QED BY <1>1, <1>2, PTL DEF Spec

(* The document of a call never changes, so its schemes stay known. *)
LEMMA SchemesStayKnown == Spec => []KnownSchemes(Document.registry)
<1>1. Init => KnownSchemes(Document.registry)
  BY DEF Init, IsCall
<1>2. KnownSchemes(Document.registry) /\ [Next]_vars => KnownSchemes(Document.registry)'
  <2>1. [Next]_vars => scenario' = scenario
    BY DEF Next, vars, Refuse, Prepare, Route, Authorize, Extract, CallBack, FollowLink, Answer
  <2> QED BY <2>1 DEF Document, KnownSchemes
<1> QED BY <1>1, <1>2, PTL DEF Spec

(* A credential that is added never turns an answer of evaluateOpenApi-      *)
(* Security from allowed to forbidden, nor from a named requirement to       *)
(* anonymous access by a later one.                                          *)
THEOREM AddedCredentialsNeverDeny == Spec => []MoreCredentialsNeverDeny
<1>1. KnownSchemes(Document.registry) /\ AccessInv => MoreCredentialsNeverDeny
  <2> SUFFICES ASSUME KnownSchemes(Document.registry), AccessInv, phase = "extract",
                      NEW name \in DOMAIN Document.registry \ DOMAIN request.credentials,
                      NEW extra
               PROVE  LET more == EvaluateSecurity(Security, Document.registry,
                            WithCredential(request.credentials, name, extra),
                            scenario.securityOptions)
                      IN  more.allowed /\ (more.anonymous => access.anonymous
                                   \/ more.matchedRequirementIndex
                                        < access.matchedRequirementIndex)
    BY Zenon DEF MoreCredentialsNeverDeny
  <2>1. /\ access = EvaluateSecurity(Security, Document.registry, request.credentials,
                                     scenario.securityOptions)
        /\ access.allowed
    BY Zenon DEF AccessInv
  <2> QED BY <2>1, MoreIsNeverLess, Zenon
<1> QED BY <1>1, AccessIsKept, SchemesStayKnown, PTL
-----------------------------------------------------------------------------
(* Whom x comes after. *)
Before(P, R, x) == {y \in P : y # x /\ <<y, x>> \in R}
IsOrderOn(R, P) ==
    /\ \A l, r \in P : l # r => (<<l, r>> \in R <=> <<r, l>> \notin R)
    /\ \A l, m, r \in P : l # r /\ <<l, m>> \in R /\ <<m, r>> \in R => <<l, r>> \in R
InOrder(s, P, R) ==
    /\ s \in [1..Cardinality(P) -> P]
    /\ \A i, j \in 1..Cardinality(P) : i < j => s[i] # s[j] /\ <<s[i], s[j]>> \in R

(* What comes later has more before it. *)
LEMMA LaterHasMoreBefore ==
    ASSUME NEW P, IsFiniteSet(P), NEW R, IsOrderOn(R, P), NEW x \in P, NEW y \in P,
           x # y, <<x, y>> \in R
    PROVE  /\ Cardinality(Before(P, R, x)) \in Nat /\ Cardinality(Before(P, R, y)) \in Nat
           /\ Cardinality(Before(P, R, x)) < Cardinality(Before(P, R, y))
           /\ Cardinality(Before(P, R, y)) < Cardinality(P)
<1>1. Before(P, R, x) \subseteq Before(P, R, y)
  <2> SUFFICES ASSUME NEW z \in P, z # x, <<z, x>> \in R PROVE z # y /\ <<z, y>> \in R
    BY DEF Before
  <2>1. z # y
    BY DEF IsOrderOn
  <2> QED BY <2>1 DEF IsOrderOn
<1>2. x \in Before(P, R, y) /\ x \notin Before(P, R, x)
  BY DEF Before
<1>3. y \notin Before(P, R, y) /\ Before(P, R, y) \subseteq P
  BY DEF Before
<1>4. /\ IsFiniteSet(Before(P, R, y)) /\ Cardinality(Before(P, R, y)) <= Cardinality(P)
      /\ Cardinality(P) # Cardinality(Before(P, R, y))
  <2>1. Before(P, R, y) \in SUBSET P
    BY <1>3
  <2> QED BY <1>3, <2>1, FS_Subset
<1>5. /\ IsFiniteSet(Before(P, R, x))
      /\ Cardinality(Before(P, R, x)) <= Cardinality(Before(P, R, y))
      /\ Cardinality(Before(P, R, y)) # Cardinality(Before(P, R, x))
  <2>1. Before(P, R, x) \in SUBSET Before(P, R, y)
    BY <1>1
  <2> QED BY <1>2, <1>4, <2>1, FS_Subset
<1>6. /\ Cardinality(Before(P, R, x)) \in Nat /\ Cardinality(Before(P, R, y)) \in Nat
      /\ Cardinality(P) \in Nat
  BY <1>4, <1>5, FS_CardinalityType
<1> QED BY <1>4, <1>5, <1>6

(* A finite set has a list in every order on it. *)
LEMMA OrderedListExists ==
    ASSUME NEW P, IsFiniteSet(P), NEW R, IsOrderOn(R, P)
    PROVE  \E s : InOrder(s, P, R)
<1>1. PICK n \in Nat : n = Cardinality(P)
  BY FS_CardinalityType
<1> DEFINE place == [x \in P |-> Cardinality(Before(P, R, x)) + 1]
<1>2. ASSUME NEW x \in P PROVE place[x] \in 1..n
  <2>1. Before(P, R, x) \in SUBSET P /\ x \notin Before(P, R, x)
    BY DEF Before
  <2>2. /\ IsFiniteSet(Before(P, R, x)) /\ Cardinality(Before(P, R, x)) <= n
        /\ Cardinality(Before(P, R, x)) # n
    BY <1>1, <2>1, FS_Subset
  <2>3. Cardinality(Before(P, R, x)) \in Nat
    BY <2>2, FS_CardinalityType
  <2> QED BY <1>1, <2>2, <2>3
<1>3. ASSUME NEW x \in P, NEW y \in P, x # y, <<x, y>> \in R PROVE place[x] < place[y]
  <2>1. PICK a \in Nat, b \in Nat :
          a = Cardinality(Before(P, R, x)) /\ b = Cardinality(Before(P, R, y)) /\ a < b
    BY <1>3, LaterHasMoreBefore
  <2>2. place[x] = a + 1 /\ place[y] = b + 1
    BY <2>1
  <2> QED BY <2>1, <2>2
<1> HIDE DEF place
<1>4. ASSUME NEW x \in P, NEW y \in P, x # y PROVE place[x] # place[y]
  <2>1. place[x] \in 1..n /\ place[y] \in 1..n
    BY <1>2
  <2>2. place[x] < place[y] \/ place[y] < place[x]
    BY <1>3, <1>4 DEF IsOrderOn
  <2> QED BY <2>1, <2>2
<1>5. place \in [P -> 1..n]
  <2>1. place = [x \in P |-> place[x]]
    BY DEF place
  <2> QED BY <1>2, <2>1
<1>6. place \in Injection(P, 1..n)
  BY <1>4, <1>5 DEF Injection, IsInjective
<1>7. IsFiniteSet(1..n) /\ Cardinality(1..n) = n
  BY FS_Interval
<1>8. place \in Surjection(P, 1..n)
  BY <1>1, <1>6, <1>7, FS_Injection
<1>9. \A i \in 1..n : \E x \in P : place[x] = i
  BY <1>8 DEF Surjection
<1> DEFINE s == [i \in 1..n |-> CHOOSE x \in P : place[x] = i]
<1>10. \A i \in 1..n : s[i] \in P /\ place[s[i]] = i
  BY <1>9
<1> HIDE DEF s
<1>11. s \in [1..n -> P]
  <2>1. s = [i \in 1..n |-> s[i]]
    BY DEF s
  <2> QED BY <1>10, <2>1
<1>12. ASSUME NEW i \in 1..n, NEW j \in 1..n, i < j PROVE s[i] # s[j] /\ <<s[i], s[j]>> \in R
  <2>1. s[i] # s[j]
    BY <1>10, <1>12
  <2>2. CASE <<s[j], s[i]>> \in R
    <3>1. place[s[j]] < place[s[i]]
      BY <1>3, <1>10, <2>1, <2>2
    <3>2. j < i
      BY <1>10, <3>1
    <3> QED BY <1>12, <3>2
  <2>3. CASE <<s[j], s[i]>> \notin R
    BY <1>10, <2>1, <2>3 DEF IsOrderOn
  <2> QED BY <2>1, <2>2, <2>3
<1> QED BY <1>1, <1>11, <1>12 DEF InOrder

(* Such a list has every element. *)
LEMMA OrderedListIsWhole ==
    ASSUME NEW P, IsFiniteSet(P), NEW R, NEW s, InOrder(s, P, R), NEW x \in P
    PROVE  \E i \in 1..Cardinality(P) : s[i] = x
<1>1. PICK n \in Nat : n = Cardinality(P)
  BY FS_CardinalityType
<1>2. s \in [1..n -> P] /\ \A i, j \in 1..n : i < j => s[i] # s[j]
  BY <1>1 DEF InOrder
<1>3. \A i, j \in 1..n : i # j => s[i] # s[j]
  <2>1. \A i, j \in 1..n : i # j => i < j \/ j < i
    OBVIOUS
  <2> QED BY <1>2, <2>1
<1>4. s \in Injection(1..n, P)
  BY <1>2, <1>3 DEF Injection, IsInjective
<1>5. IsFiniteSet(1..n) /\ Cardinality(1..n) = n
  BY FS_Interval
<1>6. s \in Surjection(1..n, P)
  BY <1>1, <1>4, <1>5, FS_Injection
<1> QED BY <1>1, <1>6 DEF Surjection
-----------------------------------------------------------------------------
(* comparePathCandidates orders the paths of a document. *)
FirstPairs(P) == {pair \in P \X P : ComesFirst(pair[1], pair[2])}

(* A list of segments has a length, and a number of literals. *)
LEMMA SegmentsAreCounted ==
    ASSUME NEW segments, IsSequence(segments)
    PROVE  /\ Len(segments) \in Nat /\ DOMAIN segments = 1..Len(segments)
           /\ LiteralCount(segments) \in Nat
<1>1. Len(segments) \in Nat /\ DOMAIN segments = 1..Len(segments)
  BY DEF IsSequence
<1>2. IsFiniteSet(DOMAIN segments)
  BY <1>1, FS_Interval
<1>3. {i \in DOMAIN segments : segments[i].kind # "param"} \in SUBSET DOMAIN segments
  OBVIOUS
<1> QED BY <1>1, <1>2, <1>3, FS_Subset, FS_CardinalityType DEF LiteralCount

(* comparePathCandidates without its local names. *)
Later(l, r) ==
    IF IsTemplated(l.segments) # IsTemplated(r.segments) THEN ~IsTemplated(l.segments)
    ELSE IF LiteralCount(l.segments) # LiteralCount(r.segments)
    THEN LiteralCount(l.segments) > LiteralCount(r.segments)
    ELSE IF Len(l.segments) # Len(r.segments) THEN Len(l.segments) > Len(r.segments)
    ELSE Collation(l, r)

(* They say the same. *)
LEMMA ComesFirstMeans ==
    ASSUME NEW l, NEW r PROVE ComesFirst(l, r) <=> Later(l, r)
BY Zenon DEF ComesFirst, Later

(* Of two paths one comes first, and it does so through a third: whatever  *)
(* their segments, the texts decide in the end.                             *)
LEMMA ComesFirstIsOrder ==
    ASSUME NEW document, IsDocument(document)
    PROVE  IsOrderOn(FirstPairs(ToSet(document.paths)), ToSet(document.paths))
<1> DEFINE P == ToSet(document.paths)
<1>1. \A t \in P : LiteralCount(t.segments) \in Nat /\ Len(t.segments) \in Nat
  BY SegmentsAreCounted DEF IsDocument, IsTemplate
<1>2. /\ \A l, r \in P : l # r => (Collation(l, r) <=> ~Collation(r, l))
      /\ \A l, m, r \in P : Collation(l, m) /\ Collation(m, r) => Collation(l, r)
  BY DEF IsDocument, TextsDiffer
<1>3. \A l, r \in P : <<l, r>> \in FirstPairs(P) <=> ComesFirst(l, r)
  BY Zenon DEF FirstPairs
<1> HIDE DEF P
<1>4. \A t \in P : IsTemplated(t.segments) \in BOOLEAN
  BY DEF IsTemplated
<1>5. ASSUME NEW l \in P, NEW r \in P, l # r PROVE ComesFirst(l, r) <=> ~ComesFirst(r, l)
  <2>1. /\ ComesFirst(l, r) <=> Later(l, r)
        /\ ComesFirst(r, l) <=> Later(r, l)
        /\ Collation(l, r) <=> ~Collation(r, l)
    BY <1>2, <1>5, ComesFirstMeans, Zenon
  <2>2. PICK m \in Nat, n \in Nat, i \in Nat, j \in Nat, a \in BOOLEAN, b \in BOOLEAN :
          /\ m = LiteralCount(l.segments) /\ n = LiteralCount(r.segments)
          /\ i = Len(l.segments) /\ j = Len(r.segments)
          /\ a = IsTemplated(l.segments) /\ b = IsTemplated(r.segments)
    BY <1>1, <1>4
  <2> QED BY <2>1, <2>2, Z3 DEF Later
<1>6. ASSUME NEW l \in P, NEW m \in P, NEW r \in P, l # r, ComesFirst(l, m), ComesFirst(m, r)
      PROVE  ComesFirst(l, r)
  <2>1. /\ ComesFirst(l, m) <=> Later(l, m)
        /\ ComesFirst(m, r) <=> Later(m, r)
        /\ ComesFirst(l, r) <=> Later(l, r)
        /\ Collation(l, m) /\ Collation(m, r) => Collation(l, r)
    BY <1>2, ComesFirstMeans, Zenon
  <2> QED BY <1>1, <1>4, <1>6, <2>1 DEF Later
<1> QED BY <1>3, <1>5, <1>6 DEF IsOrderOn, P
-----------------------------------------------------------------------------
(* A document has finitely many paths. *)
LEMMA PathsAreFinite ==
    ASSUME NEW document, IsDocument(document)
    PROVE  IsFiniteSet(ToSet(document.paths))
<1> DEFINE paths == document.paths
<1>1. PICK n \in Nat : DOMAIN paths = 1..n
  BY DEF IsDocument, IsSequence
<1> DEFINE f == [i \in 1..n |-> paths[i]]
<1>2. f \in Surjection(1..n, ToSet(paths))
  BY <1>1 DEF Surjection, ToSet
<1>3. IsFiniteSet(1..n)
  BY FS_Interval
<1> QED BY <1>2, <1>3, FS_Surjection

(* compilePathMatcher holds every path, in that order. *)
LEMMA CompiledInOrder ==
    ASSUME NEW document, IsDocument(document)
    PROVE  InOrder(CompilePathMatcher(document.paths), ToSet(document.paths),
                   FirstPairs(ToSet(document.paths)))
<1> DEFINE P == ToSet(document.paths)
           Sorted(s) == /\ s \in [1..Cardinality(P) -> P]
                        /\ \A i, j \in DOMAIN s : i < j => s[i] # s[j] /\ ComesFirst(s[i], s[j])
<1>1. \E s : InOrder(s, P, FirstPairs(P))
  BY PathsAreFinite, ComesFirstIsOrder, OrderedListExists
<1>2. ASSUME NEW s PROVE Sorted(s) <=> InOrder(s, P, FirstPairs(P))
  <2>1. s \in [1..Cardinality(P) -> P] =>
          /\ DOMAIN s = 1..Cardinality(P)
          /\ \A i, j \in DOMAIN s : <<s[i], s[j]>> \in FirstPairs(P) <=> ComesFirst(s[i], s[j])
    BY Zenon DEF FirstPairs
  <2> HIDE DEF P
  <2> QED BY <2>1, Zenon DEF InOrder
<1>3. CompilePathMatcher(document.paths) =
        CHOOSE s \in [1..Cardinality(P) -> P] :
            \A i, j \in DOMAIN s : i < j => s[i] # s[j] /\ ComesFirst(s[i], s[j])
  BY Zenon DEF CompilePathMatcher
<1>4. \E s \in [1..Cardinality(P) -> P] :
         \A i, j \in DOMAIN s : i < j => s[i] # s[j] /\ ComesFirst(s[i], s[j])
  BY <1>1, <1>2, Zenon
<1>5. Sorted(CompilePathMatcher(document.paths))
  <2> HIDE DEF P
  <2> QED BY <1>3, <1>4, Zenon
<1> QED BY <1>2, <1>5, Zenon

(* The matcher answers with the path that fits and comes first. *)
LEMMA MatchIsFirst ==
    ASSUME NEW document, IsDocument(document), NEW path, NEW method, NEW options,
           Match(document.paths, path, method, options) # Null
    PROVE  \E e \in ToSet(document.paths) :
              /\ Match(document.paths, path, method, options)
                    = MatchOf(e, RequestSegments(path), method, options)
              /\ CandidateMatches(e, RequestSegments(path), method, options)
              /\ \A t \in ToSet(document.paths) :
                    t # e /\ CandidateMatches(t, RequestSegments(path), method, options)
                        => ComesFirst(e, t)
<1> DEFINE P == ToSet(document.paths)
           entries == CompilePathMatcher(document.paths)
           Fits(e) == CandidateMatches(e, RequestSegments(path), method, options)
           I == {i \in 1..Len(entries) : Fits(entries[i])}
<1>1. PICK n \in Nat : n = Cardinality(P)
  BY PathsAreFinite, FS_CardinalityType
<1>2. /\ entries \in [1..n -> P]
      /\ \A i, j \in 1..n : i < j => entries[i] # entries[j] /\ ComesFirst(entries[i], entries[j])
  <2>1. InOrder(entries, P, FirstPairs(P))
    BY CompiledInOrder
  <2> HIDE DEF P, entries
  <2>2. /\ entries \in [1..n -> P]
        /\ \A i, j \in 1..n : i < j => entries[i] # entries[j] /\ <<entries[i], entries[j]>> \in FirstPairs(P)
    BY <1>1, <2>1 DEF InOrder
  <2>3. \A l, r \in P : <<l, r>> \in FirstPairs(P) <=> ComesFirst(l, r)
    BY Zenon DEF FirstPairs
  <2> QED BY <2>2, <2>3
<1>3. \A t \in P : \E i \in 1..n : entries[i] = t
  BY <1>1, CompiledInOrder, PathsAreFinite, OrderedListIsWhole
<1>4. Len(entries) = n
  <2> HIDE DEF P, entries
  <2> QED BY <1>2
<1>5. Match(document.paths, path, method, options) =
        IF (IF I # {} THEN Min(I) ELSE 0) = 0 THEN Null
        ELSE MatchOf(entries[IF I # {} THEN Min(I) ELSE 0], RequestSegments(path), method, options)
  BY Zenon DEF Match, SelectInSeq
<1> HIDE DEF P, entries, Fits
<1>6. I # {}
  <2> HIDE DEF I
  <2> QED BY <1>5
<1>7. Min(I) \in I /\ \A y \in I : Min(I) <= y
  <2>1. I \in SUBSET (1..n)
    BY <1>4
  <2> HIDE DEF I
  <2> QED BY <1>6, <2>1, LeastInteger
<1>8. PICK k \in 1..n : k = Min(I) /\ Fits(entries[k]) /\ \A i \in 1..n : Fits(entries[i]) => k <= i
  BY <1>4, <1>7
<1>9. Match(document.paths, path, method, options)
        = MatchOf(entries[k], RequestSegments(path), method, options)
  <2>1. k # 0
    OBVIOUS
  <2> HIDE DEF I
  <2> QED BY <1>5, <1>6, <1>8, <2>1, Zenon
<1>10. ASSUME NEW t \in P, t # entries[k], Fits(t) PROVE ComesFirst(entries[k], t)
  <2>1. PICK i \in 1..n : entries[i] = t
    BY <1>3
  <2>2. k < i
    BY <1>8, <1>10, <2>1
  <2> QED BY <1>2, <2>1, <2>2
<1>11. entries[k] \in P
  BY <1>2
<1> QED BY <1>8, <1>9, <1>10, <1>11, Zenon DEF P, Fits
-----------------------------------------------------------------------------
(* Two paths that fit one request, the second written for it. *)
Shared(e, t) ==
    /\ Len(e.segments) = Len(t.segments)
    /\ \A i \in DOMAIN t.segments :
          /\ t.segments[i].kind = "param" => e.segments[i].kind = "param"
          /\ t.segments[i].kind # "param" /\ e.segments[i].kind # "param" =>
                LiteralText(e.segments[i]) = LiteralText(t.segments[i])

(* Where no names collide and no two paths are the same, a path that comes  *)
(* first and shares the request of another one is that one.                 *)
LEMMA FirstIsHome ==
    ASSUME NEW document, IsDocument(document), Collisions(document.paths) = {},
           \A l, r \in ToSet(document.paths) : ~Indistinct(l, r),
           NEW e \in ToSet(document.paths), NEW t \in ToSet(document.paths),
           t # e => ComesFirst(e, t), Shared(e, t)
    PROVE  e = t
<1> DEFINE paths == document.paths
           es == e.segments
           ts == t.segments
<1>1. PICK n \in Nat : /\ DOMAIN es = 1..n /\ DOMAIN ts = 1..n
                       /\ \A i \in 1..n : IsSegment(es[i]) /\ IsSegment(ts[i])
  <2>1. IsTemplate(e) /\ IsTemplate(t)
    BY DEF IsDocument
  <2>2. /\ IsSequence(es) /\ \A i \in DOMAIN es : IsSegment(es[i])
        /\ IsSequence(ts) /\ \A i \in DOMAIN ts : IsSegment(ts[i])
    BY <2>1, Zenon DEF IsTemplate, ToSet
  <2> QED BY <2>2, SegmentsAreCounted DEF Shared
<1>2. ASSUME NEW i \in 1..n, es[i].kind # "param" PROVE ts[i].kind # "param" /\ es[i] = ts[i]
  <2>1. ts[i].kind # "param" /\ LiteralText(es[i]) = LiteralText(ts[i])
    BY <1>1, <1>2 DEF Shared
  <2>2. es[i] \in LiteralSegments(paths) /\ ts[i] \in LiteralSegments(paths)
    <3>1. es[i] \in ToSet(es) /\ ts[i] \in ToSet(ts)
      BY <1>1 DEF ToSet
    <3> QED BY <1>2, <2>1, <3>1, Zenon DEF LiteralSegments
  <2> QED BY <2>1, <2>2, Zenon DEF IsDocument, TextsDiffer
<1> SUFFICES ASSUME e # t PROVE FALSE
  OBVIOUS
<1>3. Later(e, t)
  BY ComesFirstMeans, Zenon
<1>4. CASE \E i \in 1..n : es[i].kind = "param" /\ ts[i].kind # "param"
  <2> DEFINE E == {i \in 1..n : es[i].kind # "param"}
             T == {i \in 1..n : ts[i].kind # "param"}
  <2>1. E \in SUBSET T /\ E # T
    BY <1>2, <1>4
  <2>2. T \in SUBSET (1..n) /\ IsFiniteSet(1..n)
    BY FS_Interval
  <2>3. IsFiniteSet(T)
    BY <2>2, FS_Subset
  <2>4. /\ Cardinality(E) <= Cardinality(T) /\ Cardinality(E) # Cardinality(T)
        /\ IsFiniteSet(E)
    <3> HIDE DEF E, T
    <3> QED BY <2>1, <2>3, FS_Subset
  <2>5. Cardinality(E) \in Nat /\ Cardinality(T) \in Nat
    BY <2>3, <2>4, FS_CardinalityType
  <2>6. LiteralCount(es) = Cardinality(E) /\ LiteralCount(ts) = Cardinality(T)
    BY <1>1, Zenon DEF LiteralCount
  <2>7. IsTemplated(es)
    BY <1>1, <1>4 DEF IsTemplated
  <2>8. LiteralCount(es) # LiteralCount(ts) /\ ~(LiteralCount(es) > LiteralCount(ts))
    <3> HIDE DEF E, T
    <3> QED BY <2>4, <2>5, <2>6
  <2>9. IsTemplated(ts) \in BOOLEAN /\ IsTemplated(es) \in BOOLEAN
    BY DEF IsTemplated
  <2> QED BY <1>3, <2>7, <2>8, <2>9, Zenon DEF Later
<1>5. CASE \A i \in 1..n : es[i].kind = "param" => ts[i].kind = "param"
  <2>1. ASSUME NEW i \in 1..n PROVE es[i] = ts[i]
    <3>1. CASE es[i].kind # "param"
      BY <1>2, <3>1
    <3>2. CASE es[i].kind = "param"
      <4>1. ts[i].kind = "param"
        BY <1>5, <3>2
      <4>2. IsTemplated(es) /\ IsTemplated(ts)
        BY <1>1, <3>2, <4>1 DEF IsTemplated
      <4>3. \A j \in 1..n : es[j].kind # "param" \/ ts[j].kind # "param" => es[j] = ts[j]
        BY <1>2, <1>5
      <4>4. SameShape(e, t)
        BY <1>1, <4>2, <4>3, Zenon DEF SameShape, Shared
      <4>5. ~Collide(e, t)
        <5>1. <<e, t>> \in ToSet(paths) \X ToSet(paths) /\ <<e, t>>[1] = e /\ <<e, t>>[2] = t
          OBVIOUS
        <5> QED BY <5>1, Zenon DEF Collisions
      <4>6. es[i].name = ts[i].name
        BY <1>1, <4>4, <4>5, Zenon DEF Collide
      <4>7. es[i] = Param(es[i].name)
        BY <1>1, <3>2 DEF IsSegment, Literal, Param, Mixed
      <4>8. ts[i] = Param(ts[i].name)
        BY <1>1, <4>1 DEF IsSegment, Literal, Param, Mixed
      <4> QED BY <4>6, <4>7, <4>8, Zenon
    <3> QED BY <3>1, <3>2
  <2>2. es = ts
    <3>1. es = [i \in 1..n |-> es[i]] /\ ts = [i \in 1..n |-> ts[i]]
      <4>1. IsSequence(es) /\ IsSequence(ts)
        BY DEF IsDocument, IsTemplate
      <4> QED BY <1>1, <4>1 DEF IsSequence
    <3> QED BY <2>1, <3>1
  <2> QED BY <2>2, Zenon DEF Indistinct
<1> QED BY <1>4, <1>5

(* The path of a call fits it. *)
Sent(path) == \E written : path = FilledPath(Template, Parameter, written)

(* It fits the template it was written for. *)
LEMMA SentFits ==
    ASSUME IsCall, Sent(request.path), RequestSegments(request.path) = request.path
    PROVE  CandidateMatches(Template, RequestSegments(request.path), scenario.method, MatcherOptions)
<1>1. PICK written : request.path = FilledPath(Template, Parameter, written)
  BY DEF Sent
<1> DEFINE segments == Template.segments
<1>2. PICK n \in Nat : n = Len(segments) /\ DOMAIN segments = 1..n
  BY SegmentsAreCounted DEF IsCall, IsDocument, IsTemplate
<1>3. DOMAIN request.path = 1..n /\ Len(request.path) = n
  BY <1>1, <1>2 DEF FilledPath
<1>4. ASSUME NEW i \in 1..n PROVE SegmentMatches(segments[i], request.path[i], MatcherOptions)
  <2>1. CASE segments[i].kind = "param"
    BY <2>1 DEF SegmentMatches, MatcherOptions
  <2>2. CASE segments[i].kind # "param"
    <3>1. request.path[i] = LiteralText(segments[i])
      BY <1>1, <1>2, <2>2, Zenon DEF FilledPath
    <3> QED BY <2>2, <3>1 DEF SegmentMatches, SegmentEquals, MatcherOptions
  <2> QED BY <2>1, <2>2
<1> QED BY <1>2, <1>3, <1>4 DEF CandidateMatches, IsCall

(* Whatever fits it, and spells out no value, shares it with the template.  *)
LEMMA FittingIsShared ==
    ASSUME IsCall, Sent(request.path), RequestSegments(request.path) = request.path,
           NEW e \in ToSet(Document.paths),
           CandidateMatches(e, RequestSegments(request.path), scenario.method, MatcherOptions),
           \A i \in DOMAIN Template.segments :
              Template.segments[i].kind = "param" => e.segments[i].kind = "param"
    PROVE  Shared(e, Template)
<1>1. PICK written : request.path = FilledPath(Template, Parameter, written)
  BY DEF Sent
<1> DEFINE segments == Template.segments
<1>2. PICK n \in Nat : n = Len(segments) /\ DOMAIN segments = 1..n
  BY SegmentsAreCounted DEF IsCall, IsDocument, IsTemplate
<1>3. DOMAIN request.path = 1..n /\ Len(request.path) = n
  BY <1>1, <1>2 DEF FilledPath
<1>4. Len(e.segments) = n /\ \A i \in 1..n : SegmentMatches(e.segments[i], request.path[i], MatcherOptions)
  BY <1>3 DEF CandidateMatches
<1>5. ASSUME NEW i \in 1..n, segments[i].kind # "param", e.segments[i].kind # "param"
      PROVE  LiteralText(e.segments[i]) = LiteralText(segments[i])
  <2>1. request.path[i] = LiteralText(segments[i])
    BY <1>1, <1>2, <1>5, Zenon DEF FilledPath
  <2>2. LiteralText(e.segments[i]) = request.path[i]
    BY <1>4, <1>5 DEF SegmentMatches, SegmentEquals, MatcherOptions
  <2> QED BY <2>1, <2>2
<1> QED BY <1>2, <1>4, <1>5 DEF Shared
-----------------------------------------------------------------------------
(* The matcher's answer to a path. *)
Answered(called, path) ==
    Match(called.document.paths, path, called.method, MatcherOptions)

(* What the steps of a call hand on to each other. *)
RouteInv ==
    /\ IsCall
    /\ phase \in {"route", "authorize"} => Sent(request.path)
    /\ phase = "authorize" =>
          /\ match = Answered(scenario, request.path)
          /\ match # Null

(* A document and its call stay, and so does the answer to its path. *)
LEMMA RouteIsKept == Spec => []RouteInv
<1>1. Init => RouteInv
  BY Zenon DEF Init, RouteInv
<1>2. RouteInv /\ [Next]_vars => RouteInv'
  <2> SUFFICES ASSUME RouteInv, [Next]_vars PROVE RouteInv'
    OBVIOUS
  <2>1. scenario' = scenario
    BY DEF Next, vars, Refuse, Prepare, Route, Authorize, Extract, CallBack, FollowLink, Answer
  <2>2. IsCall'
    BY <2>1, Zenon DEF RouteInv, IsCall, Document, Template
  <2>3. Sent(request.path) /\ request' = request => Sent(request.path)'
    BY <2>1, Zenon DEF Sent, FilledPath, Template, Parameter
  <2>4. CASE Prepare
    <3>1. phase' = "route"
      BY <2>4 DEF Prepare
    <3>2. \E written, field, credentials, servers :
             request' = [path |-> FilledPath(Template, Parameter, written), field |-> field,
                         credentials |-> credentials, servers |-> servers]
      BY <2>4, Zenon DEF Prepare
    <3>3. Sent(request.path)'
      BY <2>1, <3>2 DEF Sent, FilledPath, Template, Parameter
    <3> QED BY <2>2, <3>1, <3>3 DEF RouteInv
  <2>5. CASE Route
    <3>1. /\ phase = "route" /\ request' = request
          /\ match' = Answered(scenario, request.path)
          /\ phase' = IF match' = Null THEN "notFound" ELSE "authorize"
      BY <2>5, Zenon DEF Route, Answered, Document
    <3>2. phase' = "authorize" => match' # Null
      BY <3>1
    <3>3. Answered(scenario, request.path)' = Answered(scenario, request.path)
      BY <2>1, <3>1
    <3>4. Sent(request.path)'
      BY <2>3, <3>1 DEF RouteInv
    <3> QED BY <2>2, <3>1, <3>2, <3>3, <3>4, Zenon DEF RouteInv
  <2>6. CASE UNCHANGED vars
    <3>1. phase' = phase /\ request' = request /\ match' = match
      BY <2>6 DEF vars
    <3>2. Answered(scenario, request.path)' = Answered(scenario, request.path)
      BY <2>1, <3>1
    <3> QED BY <2>2, <2>3, <3>1, <3>2, Zenon DEF RouteInv
  <2>7. CASE Refuse \/ Authorize \/ Extract \/ CallBack \/ FollowLink \/ Answer
    <3>1. phase' \notin {"route", "authorize"}
      BY <2>7 DEF Refuse, Authorize, Extract, CallBack, FollowLink, Answer
    <3> QED BY <2>2, <3>1 DEF RouteInv
  <2> QED BY <2>4, <2>5, <2>6, <2>7 DEF Next
<1> QED BY <1>1, <1>2, PTL DEF Spec

(* The matcher's answer in a call. *)
LEMMA RoutedTo ==
    ASSUME RouteInv, phase = "authorize"
    PROVE  \E e \in ToSet(Document.paths) :
              LET segments == RequestSegments(request.path)
              IN  /\ match = MatchOf(e, segments, scenario.method, MatcherOptions)
                  /\ match.template = e
                  /\ CandidateMatches(e, segments, scenario.method, MatcherOptions)
                  /\ \A t \in ToSet(Document.paths) :
                        t # e /\ CandidateMatches(t, segments, scenario.method, MatcherOptions)
                            => ComesFirst(e, t)
<1> DEFINE segments == RequestSegments(request.path)
<1>1. IsDocument(Document)
  BY DEF RouteInv, IsCall
<1>2. PICK e \in ToSet(Document.paths) :
        /\ match = MatchOf(e, segments, scenario.method, MatcherOptions)
        /\ CandidateMatches(e, segments, scenario.method, MatcherOptions)
        /\ \A t \in ToSet(Document.paths) :
              t # e /\ CandidateMatches(t, segments, scenario.method, MatcherOptions)
                  => ComesFirst(e, t)
  <2>1. /\ match = Match(Document.paths, request.path, scenario.method, MatcherOptions)
        /\ match # Null
    BY DEF RouteInv, Answered, Document
  <2> QED BY <1>1, <2>1, MatchIsFirst, Zenon
<1>3. match.template = e
  BY <1>2 DEF MatchOf
<1> QED BY <1>2, <1>3, Zenon

(* In a document the lint rules pass, a call reaches the operation it was   *)
(* written for, or one that spells out what it sent as a value: for any     *)
(* number of templates in any order, any segments and any values.           *)
THEOREM CallsAreRoutedHome == Spec => []LintedRoutesHome
<1>1. RouteInv => LintedRoutesHome
  <2> SUFFICES ASSUME RouteInv, phase = "authorize", Distinct,
                      RequestSegments(request.path) = request.path,
                      LintedClean(Document.components, Document.paths),
                      ~\E i \in DOMAIN Template.segments :
                          Template.segments[i].kind = "param"
                             /\ match.template.segments[i].kind # "param"
               PROVE  match.template = Template
    BY Zenon DEF LintedRoutesHome
  <2>1. IsCall /\ Sent(request.path) /\ IsDocument(Document)
    BY DEF RouteInv, IsCall
  <2>2. PICK e \in ToSet(Document.paths) :
          /\ match.template = e
          /\ CandidateMatches(e, RequestSegments(request.path), scenario.method, MatcherOptions)
          /\ \A t \in ToSet(Document.paths) :
                t # e /\ CandidateMatches(t, RequestSegments(request.path), scenario.method, MatcherOptions)
                    => ComesFirst(e, t)
    BY RoutedTo, Zenon
  <2>3. Template \in ToSet(Document.paths)
    BY <2>1 DEF IsCall
  <2>4. Template # e => ComesFirst(e, Template)
    BY <2>1, <2>2, <2>3, SentFits, Zenon
  <2>5. Shared(e, Template)
    BY <2>1, <2>2, FittingIsShared, Zenon
  <2>6. /\ Collisions(Document.paths) = {}
        /\ \A l, r \in ToSet(Document.paths) : ~Indistinct(l, r)
    BY Zenon DEF LintedClean, Distinct
  <2>7. e = Template
    BY <2>1, <2>3, <2>4, <2>5, <2>6, FirstIsHome, Zenon
  <2> QED BY <2>2, <2>7
<1> QED BY <1>1, RouteIsKept, PTL

(* The declaration a list holds at a place. *)
Declares(components, p, name) ==
    LET declared == Dereference(components, p)
    IN  declared # Null /\ declared.in = "path" /\ declared.name = name

(* PathDeclarations has the names its list declares. *)
LEMMA DeclaredInAList ==
    ASSUME NEW components, NEW list, NEW name
    PROVE  name \in DOMAIN PathDeclarations(components, list) <=>
              \E i \in DOMAIN list : Declares(components, list[i], name)
<1> DEFINE declared == [i \in DOMAIN list |-> Dereference(components, list[i])]
           OfPath == {i \in DOMAIN declared : declared[i] # Null /\ declared[i].in = "path"}
<1>1. DOMAIN PathDeclarations(components, list) = {declared[i].name : i \in OfPath}
  BY Zenon DEF PathDeclarations
<1>2. name \in {declared[i].name : i \in OfPath} <=>
         \E i \in DOMAIN list : declared[i] # Null /\ declared[i].in = "path" /\ declared[i].name = name
  OBVIOUS
<1>3. \A i \in DOMAIN list : declared[i] = Dereference(components, list[i])
  OBVIOUS
<1> HIDE DEF declared, OfPath
<1> QED BY <1>1, <1>2, <1>3, Zenon DEF Declares

(* What two lists declare one after the other, one of them declares. *)
LEMMA DeclaredInOneOfTwo ==
    ASSUME NEW components, NEW left, IsSequence(left), NEW right, IsSequence(right),
           NEW name \in DOMAIN PathDeclarations(components, left \o right)
    PROVE  \/ name \in DOMAIN PathDeclarations(components, left)
           \/ name \in DOMAIN PathDeclarations(components, right)
<1>1. PICK i \in DOMAIN (left \o right) : Declares(components, (left \o right)[i], name)
  BY DeclaredInAList, Zenon
<1>2. \/ \E j \in DOMAIN left : (left \o right)[i] = left[j]
      \/ \E j \in DOMAIN right : (left \o right)[i] = right[j]
  <2>1. PICK l \in Nat : l = Len(left) /\ DOMAIN left = 1..l
    BY SegmentsAreCounted
  <2>2. PICK r \in Nat : r = Len(right) /\ DOMAIN right = 1..r
    BY SegmentsAreCounted
  <2>3. /\ DOMAIN (left \o right) = 1..(l + r)
        /\ (left \o right)[i] = IF i <= l THEN left[i] ELSE right[i - l]
    BY <2>1, <2>2
  <2>4. CASE i <= l
    BY <2>1, <2>3, <2>4
  <2>5. CASE ~(i <= l)
    <3>1. i - l \in 1..r
      BY <2>3, <2>5
    <3> QED BY <2>2, <2>3, <2>5, <3>1
  <2> QED BY <2>4, <2>5
<1>3. CASE \E j \in DOMAIN left : (left \o right)[i] = left[j]
  BY <1>1, <1>3, DeclaredInAList, Zenon
<1>4. CASE \E j \in DOMAIN right : (left \o right)[i] = right[j]
  BY <1>1, <1>4, DeclaredInAList, Zenon
<1> QED BY <1>2, <1>3, <1>4

(* In a document the lint rules pass, the parameters the matcher binds are  *)
(* those the matched operation declares: for any declarations, references   *)
(* among components that may lead anywhere, methods and values.             *)
THEOREM ParametersOfCleanDocumentsAreBound == Spec => []LintedParametersAreBound
<1>1. RouteInv => LintedParametersAreBound
  <2> SUFFICES ASSUME RouteInv, phase = "authorize",
                      LintedClean(Document.components, Document.paths),
                      ~\E i \in DOMAIN match.template.segments :
                          match.template.segments[i].kind = "mixed",
                      ~HasPotentialReference(match.template.parameters
                                \o match.template.operations[scenario.method])
               PROVE  DOMAIN match.params =
                         DOMAIN MergedPathDeclarations(Document.components, match.template,
                                                       scenario.method)
    BY Zenon DEF LintedParametersAreBound
  <2> DEFINE components == Document.components
             method == scenario.method
  <2>1. PICK e \in ToSet(Document.paths) :
          /\ match = MatchOf(e, RequestSegments(request.path), method, MatcherOptions)
          /\ match.template = e
          /\ CandidateMatches(e, RequestSegments(request.path), method, MatcherOptions)
    BY RoutedTo, Zenon
  <2>2. IsTemplate(e)
    BY DEF RouteInv, IsCall, IsDocument
  <2>3. method \in e.methods
    BY <2>1 DEF RouteInv, IsCall, CandidateMatches
  <2>4. MissingRequired(components, e) = {} /\ NotInTemplate(components, e) = {}
    BY Zenon DEF LintedClean
  <2> HIDE DEF components, method
  <2>5. DOMAIN match.params = Placeholders(e)
    <3>1. match.params = BoundParams(e, RequestSegments(request.path), MatcherOptions)
      BY <2>1 DEF MatchOf
    <3>2. DOMAIN match.params =
             {e.segments[i].name : i \in {j \in DOMAIN e.segments : e.segments[j].kind = "param"}}
      BY <3>1, Zenon DEF BoundParams
    <3>3. \A i \in DOMAIN e.segments : e.segments[i].kind = "param" <=> e.segments[i].kind # "literal"
      <4>1. TAKE i \in DOMAIN e.segments
      <4>2. IsSegment(e.segments[i])
        BY <2>2 DEF IsTemplate, ToSet
      <4>3. e.segments[i].kind # "mixed"
        BY <2>1
      <4>4. e.segments[i].kind \in {"literal", "param", "mixed"}
        BY <4>2 DEF IsSegment, Literal, Param, Mixed
      <4> QED BY <4>3, <4>4
    <3> QED BY <3>2, <3>3 DEF Placeholders
  <2>6. ASSUME NEW name \in Placeholders(e)
        PROVE  name \in DOMAIN MergedPathDeclarations(components, e, method)
    <3>1. <<method, name>> \in e.methods \X Placeholders(e)
      BY <2>3
    <3>2. <<method, name>>[1] = method /\ <<method, name>>[2] = name
      OBVIOUS
    <3>3. ~HasPotentialReference(e.parameters \o e.operations[method])
      BY <2>1 DEF method
    <3>4. <<method, name>> \notin MissingRequired(components, e)
      BY <2>4
    <3> QED BY <3>1, <3>2, <3>3, <3>4, Zenon DEF MissingRequired
  <2>7. ASSUME NEW name \in DOMAIN MergedPathDeclarations(components, e, method)
        PROVE  name \in Placeholders(e)
    <3>1. IsSequence(e.parameters) /\ IsSequence(e.operations[method])
      BY <2>2, <2>3 DEF IsTemplate
    <3>2. \/ name \in DOMAIN PathDeclarations(components, e.parameters)
          \/ name \in DOMAIN PathDeclarations(components, e.operations[method])
      BY <3>1, DeclaredInOneOfTwo DEF MergedPathDeclarations
    <3>3. DOMAIN PathDeclarations(components, e.parameters) \ Placeholders(e) = {}
      BY <2>4 DEF NotInTemplate
    <3>4. DOMAIN PathDeclarations(components, e.operations[method]) \ Placeholders(e) = {}
      BY <2>3, <2>4 DEF NotInTemplate
    <3> QED BY <3>2, <3>3, <3>4
  <2> QED BY <2>1, <2>5, <2>6, <2>7 DEF components, method
<1> QED BY <1>1, RouteIsKept, PTL

-----------------------------------------------------------------------------
(* Induction over a set of numbers, which needs no predicate.               *)
LEMMA InductionOver ==
    ASSUME NEW S, 0 \in S, \A n \in Nat : n \in S => n + 1 \in S
    PROVE  Nat \subseteq S
<1> SUFFICES ASSUME NEW x \in Nat, x \notin S PROVE FALSE
  OBVIOUS
<1> DEFINE C == {n \in Nat : n \notin S}
<1>1. PICK m \in C : \A k \in C : m <= k
  <2>1. C \in SUBSET Nat /\ C # {}
    OBVIOUS
  <2> QED BY <2>1, LeastNat
<1>2. m # 0 /\ m - 1 \in Nat /\ m - 1 \notin C
  BY <1>1
<1>3. m - 1 \in S /\ (m - 1) + 1 = m
  BY <1>2
<1> QED BY <1>1, <1>2, <1>3

(* The next brace of a kind.                                                *)
LEMMA NextIs ==
    ASSUME NEW tokens, NEW length \in Nat, length = Len(tokens), NEW kind, NEW from \in Nat \ {0}
    PROVE  LET n == NextOf(tokens, kind, from)
           IN  /\ n \in Nat
               /\ n = 0 => \A i \in from..length : tokens[i].kind # kind
               /\ n # 0 => /\ n \in from..length /\ tokens[n].kind = kind
                           /\ \A i \in from..n - 1 : tokens[i].kind # kind
<1> DEFINE I == {i \in from..length : tokens[i].kind = kind}
<1>1. NextOf(tokens, kind, from) = IF I # {} THEN Min(I) ELSE 0
  BY Zenon DEF NextOf, SelectInSubSeq
<1>2. CASE I = {}
  BY <1>1, <1>2
<1>3. CASE I # {}
  <2>1. I \in SUBSET (1..length)
    OBVIOUS
  <2>2. Min(I) \in I /\ \A y \in I : Min(I) <= y
    <3> HIDE DEF I
    <3> QED BY <1>3, <2>1, LeastInteger
  <2>3. NextOf(tokens, kind, from) = Min(I)
    BY <1>1, <1>3
  <2>4. Min(I) \in from..length /\ tokens[Min(I)].kind = kind /\ Min(I) # 0
    BY <2>2
  <2>5. ASSUME NEW i \in from..Min(I) - 1 PROVE tokens[i].kind # kind
    <3>1. i \notin I
      BY <2>2, <2>4
    <3>2. i \in from..length
      BY <2>4
    <3> QED BY <3>1, <3>2
  <2> HIDE DEF I
  <2> QED BY <2>3, <2>4, <2>5
<1> QED BY <1>2, <1>3

(* What is filled from a cursor depends only on what follows it.            *)
LEMMA FillLooksAhead ==
    ASSUME NEW tokens, NEW length \in Nat, length = Len(tokens),
           NEW context, NEW options, NEW refuse, NEW c \in 1..length + 1, NEW f, NEW g,
           \A k \in c + 1..length + 1 : f[k] = g[k]
    PROVE  FillFrom(tokens, context, options, refuse, f, c)
              = FillFrom(tokens, context, options, refuse, g, c)
<1> DEFINE open == NextOf(tokens, "open", c)
           end == NextOf(tokens, "close", open + 1)
<1>1. open # 0 /\ end # 0 => end + 1 \in c + 1..length + 1
  <2>1. open \in Nat /\ (open # 0 => open \in c..length)
    BY NextIs
  <2>2. open + 1 \in Nat \ {0}
    BY <2>1
  <2>3. end \in Nat /\ (end # 0 => end \in open + 1..length)
    BY <2>2, NextIs
  <2> HIDE DEF open, end
  <2> QED BY <2>1, <2>3
<1>2. open # 0 /\ end # 0 => f[end + 1] = g[end + 1]
  BY <1>1
<1> QED BY <1>2, Zenon DEF FillFrom

(* The recursion over a template's cursors, as FillTemplate states it.      *)
IsFilling(f, tokens, context, options, refuse) ==
    f = [c \in 1..Len(tokens) + 1 |-> FillFrom(tokens, context, options, refuse, f, c)]

(* The recursion defines something: each cursor looks only further ahead.   *)
LEMMA FillingExists ==
    ASSUME NEW tokens, NEW length \in Nat, length = Len(tokens),
           NEW context, NEW options, NEW refuse
    PROVE  \E f : IsFilling(f, tokens, context, options, refuse)
<1> DEFINE Step(f, c) == FillFrom(tokens, context, options, refuse, f, c)
           Solves(f, m) == \A c \in length + 2 - m..length + 1 : f[c] = Step(f, c)
           S == {m \in Nat : m <= length + 1 => \E f : Solves(f, m)}
<1>1. ASSUME NEW c \in 1..length + 1, NEW f, NEW g, \A k \in c + 1..length + 1 : f[k] = g[k]
      PROVE  Step(f, c) = Step(g, c)
  BY <1>1, FillLooksAhead
<1> HIDE DEF Step
<1>2. 0 \in S
  OBVIOUS
<1>3. ASSUME NEW m \in Nat, m \in S PROVE m + 1 \in S
  <2> SUFFICES ASSUME m + 1 <= length + 1 PROVE \E f : Solves(f, m + 1)
    OBVIOUS
  <2>1. PICK f : Solves(f, m)
    BY <1>3
  <2> DEFINE d == length + 1 - m
             g == [c \in 1..length + 1 |-> IF c = d THEN Step(f, d) ELSE f[c]]
  <2>2. d \in 1..length + 1
    OBVIOUS
  <2>3. \A k \in d + 1..length + 1 : g[k] = f[k]
    OBVIOUS
  <2>4. g[d] = Step(f, d)
    BY <2>2
  <2> HIDE DEF g
  <2>5. ASSUME NEW c \in d..length + 1 PROVE g[c] = Step(g, c)
    <3>1. Step(f, c) = Step(g, c)
      BY <1>1, <2>2, <2>3
    <3>2. c # d => f[c] = Step(f, c)
      BY <2>1
    <3> QED BY <2>3, <2>4, <3>1, <3>2
  <2>6. Solves(g, m + 1)
    BY <2>5
  <2> QED BY <2>6
<1>4. length + 1 \in S
  <2> HIDE DEF S
  <2> QED BY <1>2, <1>3, InductionOver
<1>5. PICK f : \A c \in 1..length + 1 : f[c] = Step(f, c)
  BY <1>4
<1> DEFINE g == [c \in 1..length + 1 |-> f[c]]
<1>6. ASSUME NEW c \in 1..length + 1 PROVE f[c] = Step(g, c)
  <2>1. \A k \in c + 1..length + 1 : f[k] = g[k]
    OBVIOUS
  <2> HIDE DEF g
  <2> QED BY <1>1, <1>5, <2>1
<1>7. g = [c \in 1..length + 1 |-> Step(g, c)]
  BY <1>6
<1> QED BY <1>7, Zenon DEF Step, IsFilling

(* FillTemplate is what the recursion gives at the first cursor.            *)
LEMMA FillTemplateIs ==
    ASSUME NEW tokens, NEW length \in Nat, length = Len(tokens),
           NEW context, NEW options, NEW refuse
    PROVE  \E f : /\ IsFilling(f, tokens, context, options, refuse)
                  /\ FillTemplate(tokens, context, options, refuse) = f[1]
<1> DEFINE F == CHOOSE f : IsFilling(f, tokens, context, options, refuse)
<1>1. \E f : IsFilling(f, tokens, context, options, refuse)
  BY FillingExists
<1>2. FillTemplate(tokens, context, options, refuse) = F[1]
  BY Zenon DEF FillTemplate, IsFilling
<1>3. IsFilling(F, tokens, context, options, refuse)
  BY <1>1, Zenon
<1> HIDE DEF F
<1> QED BY <1>2, <1>3

(* The tokens that are no braces, counted one by one.                       *)
IsPlain(token) == token.kind \notin {"open", "close"}

(* One token more is one plain token more, or none.                         *)
LEMMA PlainCounted ==
    ASSUME NEW tokens, NEW n \in Nat
    PROVE  /\ IsFiniteSet(Plain(tokens, n))
           /\ Cardinality(Plain(tokens, n)) \in Nat
           /\ Cardinality(Plain(tokens, 0)) = 0
           /\ Cardinality(Plain(tokens, n + 1))
                 = Cardinality(Plain(tokens, n)) + (IF IsPlain(tokens[n + 1]) THEN 1 ELSE 0)
<1>1. IsFiniteSet(1..n)
  BY FS_Interval
<1>2. Plain(tokens, n) \in SUBSET (1..n)
  BY DEF Plain
<1>3. IsFiniteSet(Plain(tokens, n))
  BY <1>1, <1>2, FS_Subset
<1>4. Cardinality(Plain(tokens, n)) \in Nat
  BY <1>3, FS_CardinalityType
<1>5. Plain(tokens, 0) = {}
  BY DEF Plain
<1>6. n + 1 \notin Plain(tokens, n)
  BY DEF Plain
<1>7. Plain(tokens, n + 1)
         = IF IsPlain(tokens[n + 1]) THEN Plain(tokens, n) \cup {n + 1} ELSE Plain(tokens, n)
  <2>1. 1..n + 1 = 1..n \cup {n + 1}
    OBVIOUS
  <2> QED BY <2>1 DEF Plain, IsPlain
<1>8. Cardinality(Plain(tokens, n) \cup {n + 1}) = Cardinality(Plain(tokens, n)) + 1
  BY <1>3, <1>6, FS_AddElement
<1> QED BY <1>3, <1>4, <1>5, <1>7, <1>8, FS_EmptySet

(* A run of plain tokens is counted by its length.                          *)
LEMMA PlainRun ==
    ASSUME NEW tokens, NEW a \in Nat, NEW b \in Nat,
           \A i \in a + 1..a + b : IsPlain(tokens[i])
    PROVE  Cardinality(Plain(tokens, a + b)) = Cardinality(Plain(tokens, a)) + b
<1> DEFINE N(i) == Cardinality(Plain(tokens, i))
           S == {m \in Nat : m <= b => N(a + m) = N(a) + m}
<1>1. \A n \in Nat : N(n) \in Nat /\ (IsPlain(tokens[n + 1]) => N(n + 1) = N(n) + 1)
  BY PlainCounted
<1> HIDE DEF N
<1>2. 0 \in S
  BY <1>1
<1>3. ASSUME NEW m \in Nat, m \in S PROVE m + 1 \in S
  <2> SUFFICES ASSUME m + 1 <= b PROVE N(a + (m + 1)) = N(a) + (m + 1)
    OBVIOUS
  <2>1. N(a + m) = N(a) + m
    BY <1>3
  <2>2. a + m + 1 \in a + 1..a + b /\ a + m \in Nat
    OBVIOUS
  <2>3. N(a + m + 1) = N(a + m) + 1
    BY <1>1, <2>2
  <2>4. a + m + 1 = a + (m + 1)
    OBVIOUS
  <2> QED BY <1>1, <2>1, <2>3, <2>4
<1>4. b \in S
  <2> HIDE DEF S
  <2> QED BY <1>2, <1>3, InductionOver
<1> QED BY <1>4 DEF N

(* The count never falls.                                                   *)
LEMMA PlainGrows ==
    ASSUME NEW tokens, NEW a \in Nat, NEW b \in Nat, a <= b
    PROVE  Cardinality(Plain(tokens, a)) <= Cardinality(Plain(tokens, b))
<1>1. Plain(tokens, a) \in SUBSET Plain(tokens, b)
  BY DEF Plain
<1> QED BY <1>1, PlainCounted, FS_Subset

(* Only an expression that is one resolves.                                 *)
LEMMA MalformedIsUnresolved ==
    ASSUME NEW context, NEW options
    PROVE  Resolve(Malformed, context, options) = Null
<1>1. ~IsRuntimeExpression(Malformed)
  BY DEF IsRuntimeExpression, Malformed, Expression, ExpressionTypes
<1>2. Malformed.type = "malformed"
  BY DEF Malformed, Expression
<1>3. Evaluate(Malformed, context, options) = Null
  BY <1>1, <1>2 DEF Evaluate
<1> QED BY <1>3, Zenon DEF Resolve

(* What FillFrom owes at a cursor that stands at the start or after a closing*)
(* brace: issues exactly when the rest of the key is not paired, and for a  *)
(* paired rest the chunks of its plain tokens, each at its own place.       *)
Counted(tokens, i) == Cardinality(Plain(tokens, i))
Arrived(tokens, c) == c = 1 \/ tokens[c - 1].kind = "close"
PairedFrom(tokens, c) ==
    \A i \in c..Len(tokens) :
        /\ tokens[i].kind = "open" =>
              i + 2 <= Len(tokens) /\ Resolves(tokens[i + 1]) /\ tokens[i + 2].kind = "close"
        /\ tokens[i].kind = "close" => i >= c + 2 /\ tokens[i - 2].kind = "open"
ChunksOf(tokens) ==
    {tokens[i] : i \in 1..Len(tokens)}
    \cup {Token("value", Resolve(tokens[i].value, Context, RuntimeOptions)) : i \in 1..Len(tokens)}
Placed(tokens, chunks, c) ==
    /\ Len(chunks) = Counted(tokens, Len(tokens)) - Counted(tokens, c - 1)
    /\ \A i \in c..Len(tokens) :
          IsPlain(tokens[i]) =>
             chunks[Counted(tokens, i) - Counted(tokens, c - 1)] = Piece(tokens, i)
FilledWell(tokens, filled, c) ==
    /\ filled.issues \in Nat
    /\ filled.chunks \in Seq(ChunksOf(tokens))
    /\ filled.issues = 0 <=> PairedFrom(tokens, c)
    /\ PairedFrom(tokens, c) => Placed(tokens, filled.chunks, c)

(* A part of a template.                                                    *)
LEMMA CutOf ==
    ASSUME NEW tokens, NEW length \in Nat, length = Len(tokens),
           NEW c \in 1..length + 1, NEW d \in Int, c - 1 <= d, d <= length
    PROVE  /\ SubSeq(tokens, c, d) \in Seq(ChunksOf(tokens))
           /\ Len(SubSeq(tokens, c, d)) = d - c + 1
           /\ \A i \in 1..d - c + 1 : SubSeq(tokens, c, d)[i] = tokens[c + i - 1]
<1>1. \A i \in c..d : tokens[i] \in ChunksOf(tokens)
  BY DEF ChunksOf
<1> HIDE DEF ChunksOf
<1>2. c \in Int /\ (c <= d \/ d = c - 1)
  OBVIOUS
<1> QED BY <1>1, <1>2, SubSeqProperties

(* The count up to a run of plain tokens.                                   *)
LEMMA RunCounted ==
    ASSUME NEW tokens, NEW c \in Nat \ {0}, NEW d \in Nat, c - 1 <= d,
           \A i \in c..d : IsPlain(tokens[i]), NEW i \in c - 1..d
    PROVE  /\ Counted(tokens, i) \in Nat /\ Counted(tokens, c - 1) \in Nat
           /\ Counted(tokens, i) = Counted(tokens, c - 1) + (i - (c - 1))
<1> DEFINE a == c - 1
           b == i - (c - 1)
<1>1. a \in Nat /\ b \in Nat /\ a + b = i /\ i \in Nat
  OBVIOUS
<1>2. \A j \in a + 1..a + b : IsPlain(tokens[j])
  BY <1>1
<1>3. Cardinality(Plain(tokens, a + b)) = Cardinality(Plain(tokens, a)) + b
  <2> HIDE DEF a, b
  <2> QED BY <1>1, <1>2, PlainRun
<1>4. Cardinality(Plain(tokens, i)) \in Nat /\ Cardinality(Plain(tokens, a)) \in Nat
  <2> HIDE DEF a, b
  <2> QED BY <1>1, PlainCounted
<1> QED BY <1>1, <1>3, <1>4 DEF Counted

(* No brace is left.                                                        *)
LEMMA FilledToTheEnd ==
    ASSUME NEW tokens, NEW length \in Nat, length = Len(tokens),
           NEW c \in 1..length + 1, Arrived(tokens, c),
           \A i \in c..length : IsPlain(tokens[i])
    PROVE  FilledWell(tokens, Filled(SubSeq(tokens, c, length), 0), c)
<1> DEFINE chunks == SubSeq(tokens, c, length)
<1>1. /\ chunks \in Seq(ChunksOf(tokens)) /\ Len(chunks) = length - c + 1
      /\ \A i \in 1..length - c + 1 : chunks[i] = tokens[c + i - 1]
  <2>1. length \in Int /\ c - 1 <= length /\ length <= length
    OBVIOUS
  <2> QED BY <2>1, CutOf, Zenon
<1>2. \A i \in c - 1..length :
         /\ Counted(tokens, i) \in Nat /\ Counted(tokens, c - 1) \in Nat
         /\ Counted(tokens, i) = Counted(tokens, c - 1) + (i - (c - 1))
  BY RunCounted
<1>3. \A i \in c..length : Piece(tokens, i) = tokens[i]
  <2>1. TAKE i \in c..length
  <2>2. i > 1 => tokens[i - 1].kind # "open"
    BY DEF Arrived, IsPlain
  <2> QED BY <2>2 DEF Piece
<1>4. PairedFrom(tokens, c)
  BY DEF PairedFrom, IsPlain
<1> HIDE DEF chunks
<1>5. Len(chunks) = Counted(tokens, length) - Counted(tokens, c - 1)
  BY <1>1, <1>2
<1>6. ASSUME NEW i \in c..length
      PROVE  chunks[Counted(tokens, i) - Counted(tokens, c - 1)] = Piece(tokens, i)
  <2>1. Counted(tokens, i) - Counted(tokens, c - 1) = i - c + 1
    BY <1>2
  <2>2. i - c + 1 \in 1..length - c + 1 /\ c + (i - c + 1) - 1 = i
    OBVIOUS
  <2> QED BY <1>1, <1>3, <2>1, <2>2
<1>7. Placed(tokens, chunks, c)
  BY <1>5, <1>6 DEF Placed
<1>8. Filled(chunks, 0).chunks = chunks /\ Filled(chunks, 0).issues = 0
  BY DEF Filled
<1>9. FilledWell(tokens, Filled(chunks, 0), c)
  BY <1>1, <1>4, <1>7, <1>8 DEF FilledWell
<1> QED BY <1>9 DEF chunks

(* Something is wrong between the cursor and the end.                       *)
LEMMA FilledWithIssues ==
    ASSUME NEW tokens, NEW c, ~PairedFrom(tokens, c),
           NEW chunks \in Seq(ChunksOf(tokens)), NEW issues \in Nat \ {0}
    PROVE  FilledWell(tokens, Filled(chunks, issues), c)
  BY DEF FilledWell, Filled

(* After an expression in braces the same holds as before it.               *)
LEMMA PairedBeyond ==
    ASSUME NEW tokens, NEW length \in Nat, length = Len(tokens),
           NEW c \in 1..length + 1, NEW open \in c..length, open + 2 <= length,
           \A i \in c..open - 1 : IsPlain(tokens[i]),
           tokens[open].kind = "open", Resolves(tokens[open + 1]),
           tokens[open + 2].kind = "close"
    PROVE  PairedFrom(tokens, c) <=> PairedFrom(tokens, open + 3)
<1>1. tokens[open + 1].kind = "expression"
  BY DEF Resolves, IsExpressionToken
<1>2. ASSUME PairedFrom(tokens, c) PROVE PairedFrom(tokens, open + 3)
  <2> SUFFICES ASSUME NEW i \in open + 3..length, tokens[i].kind = "close"
               PROVE  i >= open + 3 + 2
    BY <1>2 DEF PairedFrom
  <2>1. tokens[i - 2].kind = "open"
    BY <1>2 DEF PairedFrom
  <2>2. i # open + 3 /\ i # open + 4
    <3>1. i = open + 3 => i - 2 = open + 1
      OBVIOUS
    <3>2. i = open + 4 => i - 2 = open + 2
      OBVIOUS
    <3> QED BY <1>1, <2>1, <3>1, <3>2
  <2> QED BY <2>2
<1>3. ASSUME PairedFrom(tokens, open + 3) PROVE PairedFrom(tokens, c)
  <2> SUFFICES ASSUME NEW i \in c..length
               PROVE  /\ tokens[i].kind = "open" =>
                            i + 2 <= length /\ Resolves(tokens[i + 1])
                               /\ tokens[i + 2].kind = "close"
                      /\ tokens[i].kind = "close" => i >= c + 2 /\ tokens[i - 2].kind = "open"
    BY DEF PairedFrom
  <2>1. CASE i < open
    BY <2>1 DEF IsPlain
  <2>2. CASE i = open
    BY <2>2
  <2>3. CASE i = open + 1
    BY <1>1, <2>3
  <2>4. CASE i = open + 2
    BY <2>4
  <2>5. CASE i >= open + 3
    BY <1>3, <2>5 DEF PairedFrom
  <2> QED BY <2>1, <2>2, <2>3, <2>4, <2>5
<1> QED BY <1>2, <1>3

(* Chunks one after another.                                                *)
Joined(joined, S, left, right) ==
    /\ joined \in Seq(S)
    /\ Len(joined) = Len(left) + Len(right)
    /\ \A i \in 1..Len(left) + Len(right) :
          joined[i] = IF i <= Len(left) THEN left[i] ELSE right[i - Len(left)]

(* Two sequences one after the other.                                       *)
LEMMA JoinOf ==
    ASSUME NEW S, NEW left \in Seq(S), NEW right \in Seq(S)
    PROVE  Joined(left \o right, S, left, right)
  BY ConcatProperties, Zenon DEF Joined

(* A chunk between two sequences of chunks.                                 *)
JoinedAround(joined, S, before, item, rest) ==
    /\ joined \in Seq(S)
    /\ Len(joined) = Len(before) + 1 + Len(rest)
    /\ \A i \in 1..Len(before) + 1 + Len(rest) :
          joined[i] = IF i <= Len(before) THEN before[i]
                      ELSE IF i = Len(before) + 1 THEN item
                      ELSE rest[i - (Len(before) + 1)]

(* Splicing a chunk between two sequences.                                  *)
LEMMA JoinOfThree ==
    ASSUME NEW S, NEW before \in Seq(S), NEW item \in S, NEW rest \in Seq(S)
    PROVE  JoinedAround(before \o <<item>> \o rest, S, before, item, rest)
<1> DEFINE middle == <<item>>
           front == before \o middle
           all == front \o rest
<1>1. middle \in Seq(S) /\ Len(middle) = 1 /\ middle[1] = item
  OBVIOUS
<1>2. Len(before) \in Nat /\ Len(rest) \in Nat
  OBVIOUS
<1> HIDE DEF middle
<1>3. Joined(front, S, before, middle)
  BY <1>1, JoinOf
<1> HIDE DEF front
<1>4. front \in Seq(S) /\ Len(front) = Len(before) + 1
  BY <1>1, <1>3 DEF Joined
<1>5. \A i \in 1..Len(before) + 1 : front[i] = IF i <= Len(before) THEN before[i] ELSE item
  <2>1. TAKE i \in 1..Len(before) + 1
  <2>2. i > Len(before) => i - Len(before) = 1
    BY <1>2
  <2> QED BY <1>1, <1>2, <1>3, <2>2 DEF Joined
<1>6. Joined(all, S, front, rest)
  BY <1>4, JoinOf
<1> HIDE DEF all
<1>7. JoinedAround(all, S, before, item, rest)
  BY <1>2, <1>4, <1>5, <1>6 DEF Joined, JoinedAround
<1> QED BY <1>7 DEF all, front, middle

(* The counts before, at and after an expression in braces.                 *)
CountsAround(tokens, length, c, open, at, base) ==
    /\ base \in Nat /\ Counted(tokens, length) \in Nat
    /\ \A i \in c..open - 1 : Counted(tokens, i) = base + (i - (c - 1))
    /\ Counted(tokens, open + 1) = base + at + 1
    /\ Counted(tokens, open + 2) = base + at + 1
    /\ base + at + 1 <= Counted(tokens, length)
    /\ \A i \in open + 3..length : IsPlain(tokens[i]) =>
          /\ Counted(tokens, i) \in Nat /\ base + at + 1 < Counted(tokens, i)
          /\ Counted(tokens, i) <= Counted(tokens, length)

(* How many plain tokens there are up to each place around an expression.   *)
LEMMA CountedAround ==
    ASSUME NEW tokens, NEW length \in Nat, NEW c \in Nat \ {0}, NEW at \in Nat,
           NEW open \in Nat, open = c + at, open + 2 <= length,
           \A i \in c..open - 1 : IsPlain(tokens[i]),
           ~IsPlain(tokens[open]), IsPlain(tokens[open + 1]), ~IsPlain(tokens[open + 2]),
           NEW base, base = Counted(tokens, c - 1)
    PROVE  CountsAround(tokens, length, c, open, at, base)
<1>1. \A n \in Nat :
         /\ Counted(tokens, n) \in Nat
         /\ IsPlain(tokens[n + 1]) => Counted(tokens, n + 1) = Counted(tokens, n) + 1
         /\ ~IsPlain(tokens[n + 1]) => Counted(tokens, n + 1) = Counted(tokens, n)
  BY PlainCounted DEF Counted
<1>2. \A i \in c - 1..open - 1 : Counted(tokens, i) = base + (i - (c - 1))
  <2>1. open - 1 \in Nat /\ c - 1 <= open - 1
    OBVIOUS
  <2> QED BY <2>1, RunCounted
<1>3. base \in Nat
  <2>1. c - 1 \in Nat
    OBVIOUS
  <2> QED BY <1>1, <2>1
<1>4. Counted(tokens, open) = base + at
  <2>1. open - 1 \in Nat /\ (open - 1) + 1 = open /\ open - 1 \in c - 1..open - 1
    OBVIOUS
  <2>2. Counted(tokens, open - 1) = base + at
    BY <1>2, <1>3, <2>1
  <2>3. Counted(tokens, (open - 1) + 1) = Counted(tokens, open - 1)
    BY <1>1, <2>1
  <2> QED BY <2>1, <2>2, <2>3
<1>5. Counted(tokens, open + 1) = base + at + 1
  BY <1>1, <1>4
<1>6. Counted(tokens, open + 2) = base + at + 1
  <2>1. open + 1 \in Nat /\ (open + 1) + 1 = open + 2
    OBVIOUS
  <2>2. Counted(tokens, (open + 1) + 1) = Counted(tokens, open + 1)
    BY <1>1, <2>1
  <2> QED BY <1>5, <2>1, <2>2
<1>7. \A a, b \in Nat : a <= b => Counted(tokens, a) <= Counted(tokens, b)
  BY PlainGrows DEF Counted
<1>8. ASSUME NEW i \in open + 3..length, IsPlain(tokens[i])
      PROVE  /\ Counted(tokens, i) \in Nat /\ base + at + 1 < Counted(tokens, i)
             /\ Counted(tokens, i) <= Counted(tokens, length)
  <2>1. /\ i - 1 \in Nat /\ (i - 1) + 1 = i /\ open + 2 <= i - 1 /\ open + 2 \in Nat
        /\ i \in Nat /\ i <= length
    OBVIOUS
  <2>2. Counted(tokens, i) = Counted(tokens, i - 1) + 1
    BY <1>1, <1>8, <2>1
  <2>3. Counted(tokens, open + 2) <= Counted(tokens, i - 1)
    BY <1>7, <2>1
  <2>4. Counted(tokens, i) <= Counted(tokens, length)
    BY <1>7, <2>1
  <2>5. Counted(tokens, i) \in Nat /\ Counted(tokens, i - 1) \in Nat
    BY <1>1, <2>1
  <2> QED BY <1>3, <1>6, <2>2, <2>3, <2>4, <2>5
<1>9. Counted(tokens, open + 2) <= Counted(tokens, length)
  BY <1>7
<1>10. \A i \in c..open - 1 : Counted(tokens, i) = base + (i - (c - 1))
  <2>1. \A i \in c..open - 1 : i \in c - 1..open - 1
    OBVIOUS
  <2> QED BY <1>2, <2>1
<1>11. Counted(tokens, length) \in Nat /\ base + at + 1 <= Counted(tokens, length)
  BY <1>1, <1>6, <1>9
<1> QED BY <1>3, <1>5, <1>6, <1>8, <1>10, <1>11 DEF CountsAround

(* The chunks of what stands before an expression, its value and the rest.  *)
PutAround(chunks, tokens, c, at, item, rest, size) ==
    /\ Len(chunks) = at + 1 + size
    /\ \A i \in 1..at + 1 + size :
          chunks[i] = IF i <= at THEN tokens[c + i - 1]
                      ELSE IF i = at + 1 THEN item ELSE rest[i - (at + 1)]

(* An expression that resolves stands in braces, with plain tokens before.  *)
StandsAt(tokens, c, open) ==
    /\ Arrived(tokens, c)
    /\ \A i \in c..open - 1 : IsPlain(tokens[i])
    /\ tokens[open].kind = "open" /\ Resolves(tokens[open + 1])
    /\ tokens[open + 2].kind = "close"
ValueOf(tokens, open) ==
    Token("value", Resolve(tokens[open + 1].value, Context, RuntimeOptions))

(* What is placed around an expression and after it is placed in the whole. *)
LEMMA PlacedAround ==
    ASSUME NEW tokens, NEW length \in Nat, length = Len(tokens),
           NEW c \in Nat \ {0}, NEW at \in Nat, NEW open \in Nat,
           open = c + at, open + 2 <= length, StandsAt(tokens, c, open),
           NEW rest, NEW size \in Nat, size = Len(rest),
           Placed(tokens, rest, open + 3),
           NEW chunks, PutAround(chunks, tokens, c, at, ValueOf(tokens, open), rest, size)
    PROVE  Placed(tokens, chunks, c)
<1>1. PICK base : base = Counted(tokens, c - 1)
  OBVIOUS
<1>2. CountsAround(tokens, length, c, open, at, base)
  <2>1. ~IsPlain(tokens[open]) /\ IsPlain(tokens[open + 1]) /\ ~IsPlain(tokens[open + 2])
    BY DEF StandsAt, IsPlain, Resolves, IsExpressionToken
  <2>2. \A i \in c..open - 1 : IsPlain(tokens[i])
    BY DEF StandsAt
  <2> QED BY <1>1, <2>1, <2>2, CountedAround
<1>3. Counted(tokens, (open + 3) - 1) = base + at + 1
  <2>1. (open + 3) - 1 = open + 2
    OBVIOUS
  <2> QED BY <1>2, <2>1 DEF CountsAround
<1>4. size = Counted(tokens, length) - (base + at + 1)
  BY <1>3 DEF Placed
<1>5. Len(chunks) = Counted(tokens, length) - base
  <2>1. Len(chunks) = at + 1 + size
    BY DEF PutAround
  <2>2. base \in Nat /\ Counted(tokens, length) \in Nat
    BY <1>2 DEF CountsAround
  <2> QED BY <1>4, <2>1, <2>2
<1>6. \A k \in 1..at + 1 + size :
         chunks[k] = IF k <= at THEN tokens[c + k - 1]
                     ELSE IF k = at + 1 THEN ValueOf(tokens, open) ELSE rest[k - (at + 1)]
  BY DEF PutAround
<1>7. ASSUME NEW i \in c..length, IsPlain(tokens[i])
      PROVE  chunks[Counted(tokens, i) - base] = Piece(tokens, i)
  <2>1. CASE i < open
    <3>1. Piece(tokens, i) = tokens[i]
      <4>1. i > 1 => tokens[i - 1].kind # "open"
        <5>1. CASE i = c
          BY <5>1 DEF StandsAt, Arrived
        <5>2. CASE i # c
          <6>1. i - 1 \in c..open - 1
            BY <2>1, <5>2
          <6>2. IsPlain(tokens[i - 1])
            BY <6>1 DEF StandsAt
          <6> QED BY <6>2 DEF IsPlain
        <5> QED BY <5>1, <5>2
      <4> QED BY <4>1 DEF Piece
    <3>2. PICK k : k = i - (c - 1)
      OBVIOUS
    <3>3. k \in 1..at /\ c + k - 1 = i
      BY <2>1, <3>2
    <3>4. Counted(tokens, i) - base = k
      BY <1>2, <2>1, <3>2 DEF CountsAround
    <3>5. chunks[k] = tokens[c + k - 1]
      <4>1. k \in 1..at + 1 + size /\ k <= at
        BY <3>3
      <4> QED BY <1>6, <4>1
    <3> QED BY <3>1, <3>3, <3>4, <3>5
  <2>2. CASE i = open + 1
    <3>1. Piece(tokens, i) = ValueOf(tokens, open)
      <4>1. i > 1 /\ tokens[i - 1].kind = "open"
        <5>1. i > 1 /\ i - 1 = open
          BY <2>2
        <5>2. tokens[open].kind = "open"
          BY DEF StandsAt
        <5> QED BY <5>1, <5>2
      <4> QED BY <2>2, <4>1 DEF Piece, ValueOf
    <3>2. Counted(tokens, i) - base = at + 1
      BY <1>2, <2>2 DEF CountsAround
    <3>3. chunks[at + 1] = ValueOf(tokens, open)
      BY <1>6
    <3> QED BY <3>1, <3>2, <3>3
  <2>3. CASE i >= open + 3
    <3>1. PICK k : k = Counted(tokens, i) - (base + at + 1)
      OBVIOUS
    <3>2. i \in open + 3..length
      BY <2>3
    <3>3. rest[k] = Piece(tokens, i)
      BY <1>3, <1>7, <3>1, <3>2 DEF Placed
    <3>4. k \in 1..size /\ Counted(tokens, i) - base = k + (at + 1)
      <4>1. base \in Nat /\ Counted(tokens, length) \in Nat
        BY <1>2 DEF CountsAround
      <4>2. /\ Counted(tokens, i) \in Nat /\ base + at + 1 < Counted(tokens, i)
            /\ Counted(tokens, i) <= Counted(tokens, length)
        BY <1>2, <1>7, <3>2 DEF CountsAround
      <4>3. /\ k \in 1..Counted(tokens, length) - (base + at + 1)
            /\ Counted(tokens, i) - base = k + (at + 1)
        <5> DEFINE n == Counted(tokens, i)
                   total == Counted(tokens, length)
        <5>1. n \in Nat /\ total \in Nat /\ base + at + 1 < n /\ n <= total
          BY <4>1, <4>2
        <5> HIDE DEF n, total
        <5>2. /\ n - (base + at + 1) \in 1..total - (base + at + 1)
              /\ n - base = (n - (base + at + 1)) + (at + 1)
          BY <4>1, <5>1
        <5> QED BY <3>1, <5>2 DEF n, total
      <4> QED BY <1>4, <4>3
    <3>5. k + (at + 1) \in 1..at + 1 + size /\ ~(k + (at + 1) <= at)
          /\ k + (at + 1) # at + 1 /\ (k + (at + 1)) - (at + 1) = k
      BY <3>4
    <3>6. chunks[k + (at + 1)] = rest[k]
      BY <1>6, <3>5
    <3> QED BY <3>3, <3>4, <3>6
  <2>4. i # open /\ i # open + 2
    BY <1>7 DEF StandsAt, IsPlain
  <2> QED BY <2>1, <2>2, <2>3, <2>4
<1> QED BY <1>1, <1>5, <1>7 DEF Placed

(* An expression resolved, and the rest of the template was filled.         *)
LEMMA FilledByAValue ==
    ASSUME NEW tokens, NEW length \in Nat, length = Len(tokens),
           NEW c \in 1..length + 1, Arrived(tokens, c),
           NEW open \in c..length, open + 2 <= length,
           \A i \in c..open - 1 : IsPlain(tokens[i]),
           tokens[open].kind = "open", Resolves(tokens[open + 1]),
           tokens[open + 2].kind = "close",
           NEW got, got = Resolve(tokens[open + 1].value, Context, RuntimeOptions),
           NEW rest, FilledWell(tokens, rest, open + 3)
    PROVE  FilledWell(tokens, Splice(SubSeq(tokens, c, open - 1), got, rest), c)
<1> DEFINE before == SubSeq(tokens, c, open - 1)
           chunks == before \o <<Token("value", got)>> \o rest.chunks
           S == ChunksOf(tokens)
           at == open - c
<1>1. got # Null /\ tokens[open + 1].kind = "expression"
  BY DEF Resolves, IsExpressionToken
<1>2. Splice(before, got, rest) = Filled(chunks, rest.issues)
  BY <1>1, Zenon DEF Splice
<1>3. /\ before \in Seq(S) /\ Len(before) = at
      /\ \A i \in 1..at : before[i] = tokens[c + i - 1]
  <2>1. open - 1 \in Int /\ c - 1 <= open - 1 /\ open - 1 <= length
    OBVIOUS
  <2>2. (open - 1) - c + 1 = at
    OBVIOUS
  <2>3. /\ before \in Seq(S) /\ Len(before) = (open - 1) - c + 1
        /\ \A i \in 1..(open - 1) - c + 1 : before[i] = tokens[c + i - 1]
    BY <2>1, CutOf, Zenon
  <2> HIDE DEF before, S
  <2> QED BY <2>2, <2>3
<1>5. rest.issues \in Nat /\ rest.chunks \in Seq(S)
  BY DEF FilledWell
<1>6. /\ chunks \in Seq(S) /\ Len(chunks) = at + 1 + Len(rest.chunks)
      /\ \A i \in 1..at + 1 + Len(rest.chunks) :
            chunks[i] = IF i <= at THEN tokens[c + i - 1]
                        ELSE IF i = at + 1 THEN Token("value", got)
                        ELSE rest.chunks[i - (at + 1)]
  <2>1. Token("value", got) \in S
    <3>1. open + 1 \in 1..Len(tokens)
      OBVIOUS
    <3> QED BY <3>1 DEF ChunksOf
  <2> HIDE DEF before, S
  <2>2. JoinedAround(chunks, S, before, Token("value", got), rest.chunks)
    BY <1>3, <1>5, <2>1, JoinOfThree, Zenon
  <2> HIDE DEF chunks
  <2>3. Len(before) = at /\ at \in Nat
    BY <1>3
  <2>4. \A i \in 1..at : before[i] = tokens[c + i - 1]
    BY <1>3
  <2> HIDE DEF at
  <2>5. Len(rest.chunks) \in Nat
    BY <1>5
  <2>6. chunks \in Seq(S) /\ Len(chunks) = at + 1 + Len(rest.chunks)
    BY <2>2, <2>3 DEF JoinedAround
  <2>7. ASSUME NEW i \in 1..at + 1 + Len(rest.chunks)
        PROVE  chunks[i] = IF i <= at THEN tokens[c + i - 1]
                           ELSE IF i = at + 1 THEN Token("value", got)
                           ELSE rest.chunks[i - (at + 1)]
    <3>1. chunks[i] = IF i <= at THEN before[i]
                      ELSE IF i = at + 1 THEN Token("value", got)
                      ELSE rest.chunks[i - (at + 1)]
      BY <2>2, <2>3 DEF JoinedAround
    <3>2. i <= at => before[i] = tokens[c + i - 1]
      BY <2>3, <2>4, <2>5
    <3> QED BY <3>1, <3>2, Zenon
  <2> QED BY <2>6, <2>7, Zenon
<1>7. PairedFrom(tokens, c) <=> PairedFrom(tokens, open + 3)
  BY PairedBeyond
<1>8. ASSUME PairedFrom(tokens, open + 3) PROVE Placed(tokens, chunks, c)
  <2>1. Placed(tokens, rest.chunks, open + 3)
    BY <1>8 DEF FilledWell
  <2>2. Len(rest.chunks) \in Nat /\ at \in Nat /\ open = c + at
    BY <1>5
  <2> HIDE DEF chunks, at
  <2>3. PutAround(chunks, tokens, c, at, ValueOf(tokens, open), rest.chunks, Len(rest.chunks))
    BY <1>6, Zenon DEF PutAround, ValueOf
  <2>4. c \in Nat \ {0} /\ open \in Nat
    OBVIOUS
  <2>5. StandsAt(tokens, c, open)
    BY DEF StandsAt
  <2> HIDE DEF S, before
  <2> QED BY <2>1, <2>2, <2>3, <2>4, <2>5, PlacedAround
<1>9. Filled(chunks, rest.issues).chunks = chunks
      /\ Filled(chunks, rest.issues).issues = rest.issues
  BY DEF Filled
<1> HIDE DEF chunks
<1>10. FilledWell(tokens, Filled(chunks, rest.issues), c)
  BY <1>5, <1>6, <1>7, <1>8, <1>9 DEF FilledWell
<1> QED BY <1>2, <1>10

(* One turn of the loop of resolveOpenApiCallbackUrl: a closing brace that  *)
(* stands alone, no brace left, an opening brace without a closing one, an  *)
(* expression that does not resolve, and one that does.                     *)
LEMMA FillStep ==
    ASSUME NEW tokens, NEW length \in Nat, length = Len(tokens),
           NEW c \in 1..length + 1, Arrived(tokens, c), NEW f,
           \A k \in c + 1..length + 1 : Arrived(tokens, k) => FilledWell(tokens, f[k], k)
    PROVE  FilledWell(tokens, FillFrom(tokens, Context, RuntimeOptions, TRUE, f, c), c)
<1> DEFINE open == NextOf(tokens, "open", c)
           close == NextOf(tokens, "close", c)
           end == NextOf(tokens, "close", open + 1)
           before == SubSeq(tokens, c, open - 1)
           got == Resolve(RawExpression(tokens, open, end), Context, RuntimeOptions)
           filled == FillFrom(tokens, Context, RuntimeOptions, TRUE, f, c)
<1>1. filled = IF LoneClose(open, close) THEN Filled(<<>>, 1)
               ELSE IF open = 0 THEN Filled(SubSeq(tokens, c, length), 0)
               ELSE IF end = 0 THEN Filled(before, 1)
               ELSE Splice(before, got, f[end + 1])
  BY Zenon DEF FillFrom
<1>2. /\ open \in Nat
      /\ open = 0 => \A i \in c..length : tokens[i].kind # "open"
      /\ open # 0 => /\ open \in c..length /\ tokens[open].kind = "open"
                     /\ \A i \in c..open - 1 : tokens[i].kind # "open"
  BY NextIs
<1>3. /\ close \in Nat
      /\ close = 0 => \A i \in c..length : tokens[i].kind # "close"
      /\ close # 0 => /\ close \in c..length /\ tokens[close].kind = "close"
                      /\ \A i \in c..close - 1 : tokens[i].kind # "close"
  BY NextIs
<1>4. /\ end \in Nat
      /\ end = 0 => \A i \in open + 1..length : tokens[i].kind # "close"
      /\ end # 0 => /\ end \in open + 1..length /\ tokens[end].kind = "close"
                    /\ \A i \in open + 1..end - 1 : tokens[i].kind # "close"
  <2>1. open + 1 \in Nat \ {0}
    BY <1>2
  <2> QED BY <2>1, NextIs
<1>5. <<>> \in Seq(ChunksOf(tokens))
  OBVIOUS
<1>6. open # 0 => before \in Seq(ChunksOf(tokens))
  <2> SUFFICES ASSUME open # 0 PROVE before \in Seq(ChunksOf(tokens))
    OBVIOUS
  <2>1. open - 1 \in Int /\ c - 1 <= open - 1 /\ open - 1 <= length
    BY <1>2
  <2> QED BY <2>1, CutOf, Zenon
<1> HIDE DEF open, close, end, before, got, filled
<1>7. CASE LoneClose(open, close)
  <2>1. ~PairedFrom(tokens, c)
    <3>1. close # 0 /\ (open = 0 \/ close < open)
      BY <1>7 DEF LoneClose
    <3>2. close \in c..length /\ tokens[close].kind = "close"
      BY <1>3, <3>1
    <3> SUFFICES ASSUME close >= c + 2, tokens[close - 2].kind = "open" PROVE FALSE
      BY <3>2 DEF PairedFrom
    <3>3. close - 2 \in c..length /\ (open # 0 => close - 2 \in c..open - 1)
      BY <1>2, <3>1, <3>2
    <3> QED BY <1>2, <3>3
  <2>2. filled = Filled(<<>>, 1)
    BY <1>1, <1>7
  <2>3. FilledWell(tokens, Filled(<<>>, 1), c)
    <3>1. 1 \in Nat \ {0}
      OBVIOUS
    <3> QED BY <1>5, <2>1, <3>1, FilledWithIssues, Zenon
  <2> QED BY <2>2, <2>3 DEF filled
<1>8. CASE ~LoneClose(open, close) /\ open = 0
  <2>1. close = 0
    BY <1>8 DEF LoneClose
  <2>2. \A i \in c..length : IsPlain(tokens[i])
    BY <1>2, <1>3, <1>8, <2>1 DEF IsPlain
  <2>3. filled = Filled(SubSeq(tokens, c, length), 0)
    BY <1>1, <1>8
  <2>4. FilledWell(tokens, Filled(SubSeq(tokens, c, length), 0), c)
    BY <2>2, FilledToTheEnd
  <2> QED BY <2>3, <2>4 DEF filled
<1>9. CASE ~LoneClose(open, close) /\ open # 0 /\ end = 0
  <2>1. open \in c..length /\ tokens[open].kind = "open"
    BY <1>2, <1>9
  <2>2. ~PairedFrom(tokens, c)
    <3> SUFFICES ASSUME open + 2 <= length, tokens[open + 2].kind = "close" PROVE FALSE
      BY <2>1 DEF PairedFrom
    <3>1. open + 2 \in open + 1..length
      BY <2>1
    <3> QED BY <1>4, <1>9, <3>1
  <2>3. filled = Filled(before, 1)
    BY <1>1, <1>9
  <2>4. FilledWell(tokens, Filled(before, 1), c)
    BY <1>6, <1>9, <2>2, FilledWithIssues
  <2> QED BY <2>3, <2>4 DEF filled
<1>10. CASE ~LoneClose(open, close) /\ open # 0 /\ end # 0
  <2> DEFINE rest == f[end + 1]
  <2>1. open \in c..length /\ tokens[open].kind = "open"
    BY <1>2, <1>10
  <2>2. end \in open + 1..length /\ tokens[end].kind = "close"
    BY <1>4, <1>10
  <2>3. FilledWell(tokens, rest, end + 1)
    <3>1. end + 1 \in c + 1..length + 1 /\ (end + 1) - 1 = end
      BY <2>1, <2>2
    <3>2. Arrived(tokens, end + 1)
      BY <2>2, <3>1 DEF Arrived
    <3> QED BY <3>1, <3>2
  <2>4. filled = Splice(before, got, rest)
    BY <1>1, <1>10
  <2> HIDE DEF rest
  <2>5. CASE got = Null
    <3>1. ~PairedFrom(tokens, c)
      <4> SUFFICES ASSUME open + 2 <= length, Resolves(tokens[open + 1]),
                          tokens[open + 2].kind = "close" PROVE FALSE
        BY <2>1 DEF PairedFrom
      <4>1. IsExpressionToken(tokens[open + 1])
        BY DEF Resolves
      <4>2. tokens[open + 1].kind # "close"
        BY <4>1 DEF IsExpressionToken
      <4>3. end = open + 2
        <5>1. end # open + 1
          BY <2>2, <4>2
        <5>2. ~(open + 2 \in open + 1..end - 1)
          BY <1>4, <1>10
        <5>3. open \in Nat /\ end \in Nat /\ end >= open + 1
          BY <1>2, <1>4, <2>2
        <5> QED BY <5>1, <5>2, <5>3
      <4>4. RawExpression(tokens, open, end) = tokens[open + 1].value
        BY <4>1, <4>3, Zenon DEF RawExpression
      <4> QED BY <2>5, <4>4, Zenon DEF Resolves, got
    <3>2. before \o rest.chunks \in Seq(ChunksOf(tokens)) /\ rest.issues + 1 \in Nat \ {0}
      <4>1. rest.chunks \in Seq(ChunksOf(tokens)) /\ rest.issues \in Nat
        BY <2>3 DEF FilledWell
      <4>2. before \in Seq(ChunksOf(tokens))
        BY <1>6, <1>10
      <4>3. before \o rest.chunks \in Seq(ChunksOf(tokens))
        BY <4>1, <4>2, ConcatProperties, Zenon
      <4> QED BY <4>1, <4>3
    <3>3. filled = Filled(before \o rest.chunks, rest.issues + 1)
      BY <2>4, <2>5, Zenon DEF Splice
    <3>4. FilledWell(tokens, Filled(before \o rest.chunks, rest.issues + 1), c)
      BY <3>1, <3>2, FilledWithIssues
    <3> QED BY <3>3, <3>4 DEF filled
  <2>6. CASE got # Null
    <3>1. end = open + 2 /\ IsExpressionToken(tokens[open + 1])
      <4>1. RawExpression(tokens, open, end) # Malformed
        BY <2>6, MalformedIsUnresolved, Zenon DEF got
      <4> QED BY <4>1, Zenon DEF RawExpression
    <3>2. RawExpression(tokens, open, end) = tokens[open + 1].value
      BY <3>1, Zenon DEF RawExpression
    <3>3. got = Resolve(tokens[open + 1].value, Context, RuntimeOptions)
      BY <3>2, Zenon DEF got
    <3>4. Resolves(tokens[open + 1])
      BY <2>6, <3>1, <3>3, Zenon DEF Resolves
    <3>5. open + 2 <= length /\ tokens[open + 2].kind = "close"
      BY <2>2, <3>1
    <3>6. \A i \in c..open - 1 : IsPlain(tokens[i])
      <4>1. close = 0 \/ close >= open
        BY <1>2, <1>3, <1>10 DEF LoneClose
      <4>2. ASSUME NEW i \in c..open - 1 PROVE tokens[i].kind # "close"
        <5>1. i \in c..length /\ (close >= open => i \in c..close - 1)
          BY <1>2, <1>3, <2>1
        <5> QED BY <1>3, <4>1, <5>1
      <4> QED BY <1>2, <1>10, <4>2 DEF IsPlain
    <3>7. FilledWell(tokens, rest, open + 3)
      <4>1. end + 1 = open + 3
        BY <2>1, <3>1
      <4> QED BY <2>3, <4>1
    <3>8. FilledWell(tokens, Splice(SubSeq(tokens, c, open - 1), got, rest), c)
      BY <2>1, <3>3, <3>4, <3>5, <3>6, <3>7, FilledByAValue
    <3> QED BY <2>4, <3>8 DEF filled, before
  <2> QED BY <2>5, <2>6
<1> QED BY <1>7, <1>8, <1>9, <1>10

(* The whole template.                                                      *)
LEMMA TemplateFilledWell ==
    ASSUME NEW tokens, NEW length \in Nat, length = Len(tokens)
    PROVE  FilledWell(tokens, FillTemplate(tokens, Context, RuntimeOptions, TRUE), 1)
<1>1. PICK f :
        /\ IsFilling(f, tokens, Context, RuntimeOptions, TRUE)
        /\ FillTemplate(tokens, Context, RuntimeOptions, TRUE) = f[1]
  BY FillTemplateIs
<1> DEFINE Well(c) == Arrived(tokens, c) => FilledWell(tokens, f[c], c)
           S == {m \in Nat : m <= length + 1 => \A c \in length + 2 - m..length + 1 : Well(c)}
<1>2. ASSUME NEW c \in 1..length + 1, \A k \in c + 1..length + 1 : Well(k) PROVE Well(c)
  <2> SUFFICES ASSUME Arrived(tokens, c) PROVE FilledWell(tokens, f[c], c)
    OBVIOUS
  <2>1. f[c] = FillFrom(tokens, Context, RuntimeOptions, TRUE, f, c)
    BY <1>1 DEF IsFilling
  <2>2. FilledWell(tokens, FillFrom(tokens, Context, RuntimeOptions, TRUE, f, c), c)
    BY <1>2, FillStep
  <2> QED BY <2>1, <2>2
<1> HIDE DEF Well
<1>3. 0 \in S
  OBVIOUS
<1>4. ASSUME NEW m \in Nat, m \in S PROVE m + 1 \in S
  <2> SUFFICES ASSUME m + 1 <= length + 1
               PROVE  \A c \in length + 2 - (m + 1)..length + 1 : Well(c)
    OBVIOUS
  <2>1. \A k \in length + 2 - m..length + 1 : Well(k)
    BY <1>4
  <2>2. PICK d : d = length + 1 - m
    OBVIOUS
  <2>3. d \in 1..length + 1 /\ d + 1 = length + 2 - m /\ d = length + 2 - (m + 1)
    BY <2>2
  <2>4. Well(d)
    BY <1>2, <2>1, <2>3
  <2> QED BY <2>1, <2>3, <2>4
<1>5. length + 1 \in S
  <2> HIDE DEF S
  <2> QED BY <1>3, <1>4, InductionOver
<1>6. Well(1)
  BY <1>5
<1>7. Arrived(tokens, 1)
  BY DEF Arrived
<1> QED BY <1>1, <1>6, <1>7 DEF Well

(* What is called back is what the template gave when the call was made.    *)
CallbackInv ==
    /\ IsCall
    /\ callback # Null =>
          /\ phase = "done" /\ scenario.callback # Null
          /\ callback = ResolveCallbackUrl(scenario.callback, Context, RuntimeOptions)

(* The callback is resolved in the last step, and what it was resolved from *)
(* does not change after it.                                                *)
LEMMA CallbackIsKept == Spec => []CallbackInv
<1>1. Init => CallbackInv
  BY DEF Init, CallbackInv
<1>2. CallbackInv /\ [Next]_vars => CallbackInv'
  <2> SUFFICES ASSUME CallbackInv, [Next]_vars PROVE CallbackInv'
    OBVIOUS
  <2>1. scenario' = scenario
    BY DEF Next, vars, Refuse, Prepare, Route, Authorize, Extract, CallBack, FollowLink, Answer
  <2>2. IsCall'
    BY <2>1 DEF CallbackInv, IsCall, Document, Template
  <2>3. CASE UNCHANGED vars
    <3>1. Context' = Context /\ RuntimeOptions' = RuntimeOptions
      BY <2>3, Zenon DEF vars, Context, RuntimeOptions, Parameter
    <3> QED BY <2>2, <2>3, <3>1, Zenon DEF vars, CallbackInv
  <2>4. CASE CallBack
    <3>1. Context' = Context /\ RuntimeOptions' = RuntimeOptions
      BY <2>4, Zenon DEF CallBack, Context, RuntimeOptions, Parameter
    <3> QED BY <2>1, <2>2, <2>4, <3>1, Zenon DEF CallBack, CallbackInv
  <2>5. CASE Refuse \/ Prepare \/ Route \/ Authorize \/ Extract \/ FollowLink \/ Answer
    <3>1. phase # "done" /\ callback' = callback
      BY <2>5 DEF Refuse, Prepare, Route, Authorize, Extract, FollowLink, Answer
    <3> QED BY <2>2, <3>1 DEF CallbackInv
  <2> QED BY <2>3, <2>4, <2>5 DEF Next
<1> QED BY <1>1, <1>2, PTL DEF Spec

(* A callback's url is whole or there is none: for every key, whatever its  *)
(* braces and expressions, in every context and mode, resolveOpenApi-       *)
(* CallbackUrl replaces each expression where it stood and keeps the rest in*)
(* its place, and a key with a brace or an expression astray gives no url.  *)
THEOREM CallbackUrlsAreWhole == Spec => []CallbackUrlIsWhole
<1>1. CallbackInv => CallbackUrlIsWhole
  <2> SUFFICES ASSUME CallbackInv, callback # Null, Len(scenario.callback) # 1
               PROVE  LET tokens == scenario.callback
                      IN  IF Paired(tokens) /\ ~ReadsAsName(tokens)
                          THEN /\ Len(callback.url) = Cardinality(Plain(tokens, Len(tokens)))
                               /\ \A i \in Plain(tokens, Len(tokens)) :
                                     callback.url[Cardinality(Plain(tokens, i))] = Piece(tokens, i)
                          ELSE callback.url = Null
    BY Zenon DEF CallbackUrlIsWhole
  <2> DEFINE tokens == scenario.callback
             filled == FillTemplate(tokens, Context, RuntimeOptions, TRUE)
  <2>1. Len(tokens) \in Nat /\ DOMAIN tokens = 1..Len(tokens)
    BY DEF CallbackInv, IsCall, IsSequence
  <2>2. callback = ResolveCallbackUrl(tokens, Context, RuntimeOptions)
    BY DEF CallbackInv
  <2> HIDE DEF tokens
  <2>3. FilledWell(tokens, filled, 1)
    BY <2>1, TemplateFilledWell
  <2>4. PairedFrom(tokens, 1) <=> Paired(tokens)
    <3>1. \A i \in 1..Len(tokens) : i > 2 <=> i >= 1 + 2
      BY <2>1
    <3> QED BY <2>1, <3>1, Zenon DEF PairedFrom, Paired
  <2>5. Counted(tokens, 0) = 0 /\ \A n \in Nat : Counted(tokens, n) \in Nat
    BY PlainCounted DEF Counted
  <2>6. CASE ReadsAsName(tokens)
    <3>1. callback = Callback(WholeUrl(Null), RuntimeOptions)
      BY <2>2, <2>6, Zenon DEF ResolveCallbackUrl
    <3>2. WholeUrl(Null).issues > 0
      BY DEF WholeUrl, Filled
    <3>3. callback.url = Null
      BY <3>1, <3>2 DEF Callback
    <3> QED BY <2>6, <3>3 DEF tokens
  <2>7. CASE ~ReadsAsName(tokens)
    <3>1. callback = Callback(filled, RuntimeOptions)
      BY <2>2, <2>7, Zenon DEF ResolveCallbackUrl, tokens
    <3> HIDE DEF filled
    <3>2. callback.url = IF filled.issues > 0 THEN Null ELSE filled.chunks
      BY <3>1 DEF Callback
    <3>3. CASE ~Paired(tokens)
      <4>1. filled.issues > 0
        BY <2>3, <2>4, <3>3 DEF FilledWell
      <4> QED BY <3>2, <3>3, <4>1 DEF tokens
    <3>4. CASE Paired(tokens)
      <4>1. filled.issues = 0 /\ Placed(tokens, filled.chunks, 1)
        BY <2>3, <2>4, <3>4, Zenon DEF FilledWell
      <4>2. callback.url = filled.chunks
        BY <3>2, <4>1
      <4>3. Counted(tokens, 1 - 1) = 0
        BY <2>5
      <4>4. Len(callback.url) = Counted(tokens, Len(tokens))
        BY <2>1, <2>5, <4>1, <4>2, <4>3 DEF Placed
      <4>5. ASSUME NEW i \in Plain(tokens, Len(tokens))
            PROVE  callback.url[Counted(tokens, i)] = Piece(tokens, i)
        <5>1. i \in 1..Len(tokens) /\ IsPlain(tokens[i]) /\ i \in Nat
          BY <2>1 DEF Plain, IsPlain
        <5>2. callback.url[Counted(tokens, i) - Counted(tokens, 1 - 1)] = Piece(tokens, i)
          BY <4>1, <4>2, <5>1 DEF Placed
        <5>3. Counted(tokens, i) - 0 = Counted(tokens, i)
          BY <2>5, <5>1
        <5> QED BY <4>3, <5>2, <5>3
      <4> QED BY <2>7, <3>4, <4>4, <4>5, Zenon DEF Counted, tokens
    <3> QED BY <3>3, <3>4
  <2> QED BY <2>6, <2>7
<1> QED BY <1>1, CallbackIsKept, PTL
=============================================================================
