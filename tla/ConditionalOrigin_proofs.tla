----------------------- MODULE ConditionalOrigin_proofs -----------------------
(* Proofs about ConditionalOrigin for every set of clients and every bound.  *)
EXTENDS ConditionalOrigin, TLAPS

(* Every date the origin hands out or stores is a natural number of ticks.   *)
LEMMA WholeSecondType ==
    ASSUME NEW d \in Nat
    PROVE  WholeSecond(d) \in Nat
<1>1. d \div TicksPerSecond \in Nat
  BY ConditionalAssumption
<1>2. QED
  BY <1>1, ConditionalAssumption DEF WholeSecond

(* The validators sent with a reply are a tag and a date of the right type.  *)
LEMMA ValidatorsType ==
    ASSUME TypeOK
    PROVE  /\ CurrentTag \in {Null} \cup Tag
           /\ BuildConditionalHeaders(CurrentTag, modified).tag \in {Null} \cup Tag
           /\ BuildConditionalHeaders(CurrentTag, modified).date \in Date
<1>1. CurrentTag \in {Null} \cup Tag
  BY OriginAssumption DEF TypeOK, CurrentTag, GenerateETag, Tag
<1>2. modified # Null => WholeSecond(modified) \in Nat
  BY WholeSecondType DEF TypeOK, Date
<1>3. QED
  BY <1>1, <1>2 DEF BuildConditionalHeaders, Date

(* Preconditions decide between three outcomes.                              *)
LEMMA VerdictType ==
    ASSUME NEW request
    PROVE  Verdict(request) \in {"proceed", "304", "412"}
  BY DEF Verdict, EvaluatePreconditions

LEMMA InitType == Init => TypeOK
<1>1. {} \in Content /\ {} # Null /\ 0 # Null
  BY OriginAssumption, ConditionalAssumption DEF Content
<1>2. QED
  BY <1>1 DEF Init, TypeOK, Date

(* A client sends a well-formed request.                                     *)
LEMMA SendType ==
    ASSUME TypeOK, NEW c \in Client, NEW request \in RequestSet,
           Send(c, request)
    PROVE  TypeOK'
<1>1. awaiting' \in [Client -> {Null} \cup RequestSet]
  BY DEF TypeOK, Send
<1>2. requests' \subseteq RequestSet
  BY DEF TypeOK, Send
<1>3. QED
  BY <1>1, <1>2 DEF TypeOK, Send

(* The headers a client derives from its stored copy are well typed.         *)
LEMMA HeadersType ==
    ASSUME TypeOK, NEW c \in Client
    PROVE  /\ AnyTag \in TagHeader /\ AbsentTags \in TagHeader /\ Null \in Date
           /\ HasCopy(c) => /\ view[c].content \in Content
                            /\ TagList({view[c].tag}) \in TagHeader
                            /\ view[c].date \in Date
  BY DEF TypeOK, HasCopy, View, TagHeader, TagList, AnyTag, AbsentTags, Date

LEMMA RequestType ==
    ASSUME NEW c \in Client, NEW method \in {"GET", "PUT", "DELETE"},
           NEW body \in {Null} \cup Content, method = "PUT" => body # Null,
           NEW ifMatch \in TagHeader, NEW ifNoneMatch \in TagHeader,
           NEW modifiedSince \in Date, NEW unmodifiedSince \in Date
    PROVE  Request(c, method, body,
               [ifMatch |-> ifMatch, ifNoneMatch |-> ifNoneMatch,
                ifModifiedSince |-> modifiedSince,
                ifUnmodifiedSince |-> unmodifiedSince]) \in RequestSet
  BY DEF Request, RequestSet

(* The clients' steps.                                                       *)
LEMMA ReadType ==
    ASSUME TypeOK, NEW c \in Client, Read(c)
    PROVE  TypeOK'
<1>1. Request(c, "GET", Null, NoHeaders) \in RequestSet
  BY HeadersType, RequestType DEF NoHeaders
<1>2. QED
  BY <1>1, SendType DEF Read

LEMMA RevalidateType ==
    ASSUME TypeOK, NEW c \in Client, NEW by \in RevalidateBy, Revalidate(c, by)
    PROVE  TypeOK'
<1> DEFINE headers ==
      [ifMatch |-> AbsentTags,
       ifNoneMatch |-> IF by = "date" THEN AbsentTags ELSE TagList({view[c].tag}),
       ifModifiedSince |-> IF by = "tag" THEN Null ELSE view[c].date,
       ifUnmodifiedSince |-> Null]
<1>1. Request(c, "GET", Null, headers) \in RequestSet
  BY HeadersType, RequestType DEF Revalidate
<1>2. QED
  BY <1>1, SendType DEF Revalidate

(* The precondition of a write is a well-typed set of headers.               *)
LEMMA PreconditionType ==
    ASSUME TypeOK, NEW c \in Client, NEW by,
           NEW method \in {"PUT", "DELETE"}, NEW body \in {Null} \cup Content,
           method = "PUT" => body # Null
    PROVE  Request(c, method, body, Precondition(c, by)) \in RequestSet
<1>1. Precondition(c, by) =
        [ifMatch |-> IF HasCopy(c) /\ by = "tag" THEN TagList({view[c].tag})
                     ELSE AbsentTags,
         ifNoneMatch |-> IF HasCopy(c) THEN AbsentTags ELSE AnyTag,
         ifModifiedSince |-> Null,
         ifUnmodifiedSince |-> IF HasCopy(c) /\ by # "tag" THEN view[c].date
                               ELSE Null]
  BY DEF Precondition, NoHeaders
<1>2. QED
  BY <1>1, HeadersType, RequestType

LEMMA EditType ==
    ASSUME TypeOK, NEW c \in Client, NEW by \in WriteBy, Edit(c, by)
    PROVE  TypeOK'
<1> DEFINE base == IF HasCopy(c) THEN view[c].content ELSE {}
<1>1. base \cup {c} \in Content
  BY HeadersType DEF Content
<1>2. base \cup {c} # Null
  BY <1>1, OriginAssumption
<1>3. Request(c, "PUT", base \cup {c}, Precondition(c, by)) \in RequestSet
  BY <1>1, <1>2, PreconditionType
<1>4. QED
  BY <1>3, SendType DEF Edit

LEMMA DeleteType ==
    ASSUME TypeOK, NEW c \in Client, NEW by \in WriteBy, Delete(c, by)
    PROVE  TypeOK'
<1>1. Request(c, "DELETE", Null, Precondition(c, by)) \in RequestSet
  BY PreconditionType
<1>2. QED
  BY <1>1, SendType DEF Delete

LEMMA RetryType ==
    ASSUME TypeOK, NEW c \in Client, Retry(c)
    PROVE  TypeOK'
  BY DEF TypeOK, Retry

LEMMA ReceiveType ==
    ASSUME TypeOK, NEW c \in Client, NEW reply \in replies, Receive(c, reply)
    PROVE  TypeOK'
<1>1. reply \in ReplySet /\ view[c] \in {Null} \cup View
  BY DEF TypeOK
<1>2. reply.to.method = "GET" => Stored(c, reply) \in {Null} \cup View
  <2> SUFFICES ASSUME reply.to.method = "GET"
               PROVE  Stored(c, reply) \in {Null} \cup View
    OBVIOUS
  <2>1. CASE reply.status = "200"
    BY <2>1, <1>1 DEF Stored, View, ReplySet
  <2>2. CASE reply.status = "404"
    BY <2>2, <1>1 DEF Stored, View, ReplySet, Date
  <2>3. CASE reply.status = "304"
    <3>1. CASE HasCopy(c)
      BY <2>3, <3>1, <1>1 DEF Stored, View, ReplySet, HasCopy
    <3>2. CASE ~HasCopy(c)
      BY <2>3, <3>2, <1>1 DEF Stored
    <3>3. QED
      BY <3>1, <3>2
  <2>4. CASE reply.status = "412"
    BY <2>4, <1>1 DEF Stored
  <2>5. QED
    BY <2>1, <2>2, <2>3, <2>4, <1>1 DEF ReplySet
<1>3. view' \in [Client -> {Null} \cup View]
  BY <1>1, <1>2 DEF TypeOK, Receive
<1>4. NextPhase(c, reply) \in {"read", "write", "done"}
  BY DEF NextPhase
<1>5. phase' \in [Client -> {"read", "write", "done"}]
  BY <1>4 DEF TypeOK, Receive
<1>6. awaiting' \in [Client -> {Null} \cup RequestSet]
  BY DEF TypeOK, Receive
<1>7. replies' \subseteq ReplySet
  BY DEF TypeOK, Receive
<1>8. QED
  BY <1>3, <1>5, <1>6, <1>7 DEF TypeOK, Receive

LEMMA GiveUpType ==
    ASSUME TypeOK, NEW c \in Client, GiveUp(c)
    PROVE  TypeOK'
  BY DEF TypeOK, GiveUp

(* The origin's steps.                                                       *)
LEMMA RefuseType ==
    ASSUME TypeOK, NEW request \in requests, Refuse(request)
    PROVE  TypeOK'
<1>1. request \in RequestSet /\ Verdict(request) \in {"304", "412"}
  BY VerdictType DEF TypeOK, Refuse
<1>2. Verdict(request) = "304" =>
        request.method = "GET" /\ CurrentTag # Null /\ modified # Null
  <2>1. Verdict(request) = "304" => IsSafeMethod(request.method)
    BY DEF Verdict, EvaluatePreconditions, HitsIfModifiedSince
  <2>2. Verdict(request) = "304" => CurrentTag # Null \/ modified # Null
    BY DEF Verdict, EvaluatePreconditions, HitsIfModifiedSince, HitsIfNoneMatch,
           EvaluateIfNoneMatch, EvaluateIfModifiedSince
  <2>3. CurrentTag # Null <=> modified # Null
    BY OriginAssumption DEF TypeOK, CurrentTag, GenerateETag, Tag
  <2>4. QED
    BY <1>1, <2>1, <2>2, <2>3 DEF IsSafeMethod, RequestSet
<1>3. Reply(request, Verdict(request), Null) \in ReplySet
  <2>1. modified # Null => WholeSecond(modified) # Null
    BY WholeSecondType, ConditionalAssumption DEF TypeOK, Date
  <2>2. QED
    BY <1>1, <1>2, <2>1, ValidatorsType DEF Reply, ReplySet, BuildConditionalHeaders
<1>4. QED
  BY <1>3 DEF TypeOK, Refuse, Answer

(* A reply to a write carries no body; a reply to a GET carries the content. *)
LEMMA ReplyType ==
    ASSUME TypeOK, NEW request \in RequestSet
    PROVE  /\ request.method # "GET" =>
                \A status \in {"200", "404"} : Reply(request, status, Null) \in ReplySet
           /\ Reply(request, IF content = Null THEN "404" ELSE "200", content)
                \in ReplySet
<1>1. content # Null => CurrentTag # Null /\ modified # Null
  BY OriginAssumption DEF TypeOK, CurrentTag, GenerateETag, Tag
<1>2. modified # Null => WholeSecond(modified) # Null
  BY WholeSecondType, ConditionalAssumption DEF TypeOK, Date
<1>3. content \in {Null} \cup Content
  BY DEF TypeOK
<1>4. ASSUME request.method # "GET", NEW status \in {"200", "404"}
      PROVE  Reply(request, status, Null) \in ReplySet
  BY <1>4, ValidatorsType DEF Reply, ReplySet
<1>5. Reply(request, IF content = Null THEN "404" ELSE "200", content) \in ReplySet
  <2>1. CASE content = Null
    BY <2>1, <1>3, ValidatorsType DEF Reply, ReplySet
  <2>2. CASE content # Null
    BY <2>2, <1>1, <1>2, <1>3, ValidatorsType DEF Reply, ReplySet, BuildConditionalHeaders
  <2>3. QED
    BY <2>1, <2>2
<1>6. QED
  BY <1>4, <1>5

LEMMA ServeGetType ==
    ASSUME TypeOK, NEW request \in requests, ServeGet(request)
    PROVE  TypeOK'
<1>1. Reply(request, IF content = Null THEN "404" ELSE "200", content) \in ReplySet
  BY ReplyType DEF TypeOK, ServeGet
<1>2. QED
  BY <1>1 DEF TypeOK, ServeGet, Answer

LEMMA ServePutType ==
    ASSUME TypeOK, NEW request \in requests, ServePut(request)
    PROVE  TypeOK'
<1>1. request \in RequestSet
  BY DEF TypeOK
<1>2. Reply(request, "200", Null) \in ReplySet
  BY <1>1, ReplyType DEF ServePut
<1>3. request.client \in Client /\ request.body \in Content /\ request.body # Null
  BY <1>1 DEF RequestSet, ServePut
<1>4. clock \in Date /\ clock # Null
  BY ConditionalAssumption DEF TypeOK, Date
<1>5. QED
  BY <1>2, <1>3, <1>4 DEF TypeOK, ServePut, Answer

LEMMA ServeDeleteType ==
    ASSUME TypeOK, NEW request \in requests, ServeDelete(request)
    PROVE  TypeOK'
<1>1. request \in RequestSet
  BY DEF TypeOK
<1>2. Reply(request, IF content = Null THEN "404" ELSE "200", Null) \in ReplySet
  BY <1>1, ReplyType DEF ServeDelete
<1>3. QED
  BY <1>2 DEF TypeOK, ServeDelete, Answer, Date

(* TypeOK is inductive.                                                      *)
LEMMA NextType ==
    ASSUME TypeOK, [Next]_vars
    PROVE  TypeOK'
<1>1. CASE Tick
  BY <1>1 DEF TypeOK, Tick
<1>2. ASSUME NEW c \in Client, ClientStep(c) PROVE TypeOK'
  BY <1>2, ReadType, RevalidateType, EditType, DeleteType, RetryType, ReceiveType
     DEF ClientStep
<1>3. ASSUME NEW c \in Client, GiveUp(c) PROVE TypeOK'
  BY <1>3, GiveUpType
<1>4. ASSUME NEW request \in requests, Serve(request) PROVE TypeOK'
  BY <1>4, RefuseType, ServeGetType, ServePutType, ServeDeleteType DEF Serve
<1>5. ASSUME NEW request \in requests, LoseRequest(request) PROVE TypeOK'
  BY <1>5 DEF TypeOK, LoseRequest
<1>6. ASSUME NEW reply \in replies, LoseReply(reply) PROVE TypeOK'
  BY <1>6 DEF TypeOK, LoseReply
<1>7. CASE UNCHANGED vars
  BY <1>7 DEF TypeOK, vars
<1>8. QED
  BY <1>1, <1>2, <1>3, <1>4, <1>5, <1>6, <1>7 DEF Next

(* Type correctness of the origin and its clients, with any number of        *)
(* clients, contents, losses and ticks.                                      *)
THEOREM TypeCorrect == Spec => []TypeOK
<1>1. Init => TypeOK
  BY InitType
<1>2. TypeOK /\ [Next]_vars => TypeOK'
  BY NextType
<1>3. QED
  BY <1>1, <1>2, PTL DEF Spec

-------------------------------------------------------------------------------
(* Updates are not lost when clients use entity tags only, and the hash tells *)
(* contents apart or the tags are weak (then no If-Match ever passes).        *)

TagsOnly == WriteBy = {"tag"} /\ "date" \notin RevalidateBy
TrustedTags == TagsOnly /\ (NoCollision \/ WeakTags)

(* A write that passes its preconditions was computed from the very content  *)
(* it replaces.                                                              *)
LEMMA WriteReplacesItsBase ==
    ASSUME TrustedTags, TypeOK, NEW request \in requests, KnowsBase(request),
           ServePut(request)
    PROVE  \/ content = Null /\ request.body = {request.client}
           \/ content # Null /\ request.body = content \cup {request.client}
<1>1. content # Null => CurrentTag = GenerateETag(content) /\ CurrentTag # Null
  BY OriginAssumption DEF TypeOK, CurrentTag, GenerateETag, Tag
<1>2. /\ ~FailsIfMatch(request, CurrentTag)
      /\ ~HitsIfNoneMatch(request, CurrentTag)
  BY DEF ServePut, Verdict, EvaluatePreconditions
<1>3. CASE /\ request.ifMatch.kind = "absent"
           /\ request.ifNoneMatch = AnyTag
           /\ request.body = {request.client}
  BY <1>1, <1>2, <1>3 DEF HitsIfNoneMatch, EvaluateIfNoneMatch, AnyTag
<1>4. ASSUME NEW base \in Content,
             request.ifMatch = TagList({GenerateETag(base)}),
             request.body = base \cup {request.client}
      PROVE  content # Null /\ request.body = content \cup {request.client}
  <2>1. EvaluateIfMatch(TagList({GenerateETag(base)}), CurrentTag)
    BY <1>2, <1>4 DEF FailsIfMatch, TagList
  <2>2. /\ CurrentTag # Null
        /\ CompareETags(GenerateETag(base), CurrentTag, TRUE)
    BY <2>1 DEF EvaluateIfMatch, TagList
  <2>3. content # Null
    BY <2>2 DEF CurrentTag
  <2>4. Hash[base] = Hash[content] /\ ~WeakTags
    BY <1>1, <2>2, <2>3 DEF CompareETags, GenerateETag
  <2>5. base = content
    BY <2>3, <2>4 DEF TrustedTags, NoCollision, TypeOK
  <2>6. QED
    BY <1>4, <2>3, <2>5
<1>5. QED
  BY <1>3, <1>4 DEF KnowsBase, ServePut

(* A 304 in a world without dates names the tag it was asked about.          *)
LEMMA NotModifiedNamesTag ==
    ASSUME TypeOK, NEW request \in requests, AsksByTag(request), Refuse(request)
    PROVE  RepliesTruthfully(Reply(request, Verdict(request), Null))
<1>1. Verdict(request) \in {"304", "412"} /\ request \in RequestSet
  BY VerdictType DEF Refuse, TypeOK
<1>2. ASSUME Verdict(request) = "304"
      PROVE  /\ CurrentTag # Null /\ CurrentTag.weak = WeakTags
             /\ \E tag \in Tag : /\ request.ifNoneMatch = TagList({tag})
                                 /\ tag.value = CurrentTag.value
  <2>1. IsSafeMethod(request.method)
    BY <1>2 DEF Verdict, EvaluatePreconditions, HitsIfModifiedSince
  <2>2. request.method = "GET"
    BY <1>1, <2>1 DEF IsSafeMethod, RequestSet
  <2>3. HitsIfNoneMatch(request, CurrentTag) \/ HitsIfModifiedSince(request, modified)
    BY <1>2 DEF Verdict, EvaluatePreconditions
  <2>4. PICK tag \in Tag : request.ifNoneMatch = TagList({tag})
    <3>1. ~(request.ifNoneMatch = AbsentTags /\ request.ifModifiedSince = Null)
      BY <2>3 DEF HitsIfNoneMatch, HitsIfModifiedSince, AbsentTags
    <3>2. QED
      BY <2>2, <3>1 DEF AsksByTag
  <2>5. HitsIfNoneMatch(request, CurrentTag)
    BY <2>3, <2>4 DEF HitsIfModifiedSince, TagList
  <2>6. CurrentTag # Null /\ CompareETags(tag, CurrentTag, FALSE)
    <3>1. EvaluateIfNoneMatch(TagList({tag}), CurrentTag)
      BY <2>4, <2>5 DEF HitsIfNoneMatch
    <3>2. QED
      BY <3>1 DEF EvaluateIfNoneMatch, TagList
  <2>7. CurrentTag.weak = WeakTags
    BY <2>6 DEF CurrentTag, GenerateETag
  <2>8. QED
    BY <2>4, <2>6, <2>7 DEF CompareETags
<1>3. QED
  BY <1>1, <1>2 DEF RepliesTruthfully, Reply, BuildConditionalHeaders

LEMMA InitTags == Init => TagInvariant
  BY InitType DEF Init, TagInvariant, NoLostUpdate, HasCopy

(* Sending a request that knows its base keeps the invariant.                *)
LEMMA SendTags ==
    ASSUME TagInvariant, TypeOK', NEW c \in Client, NEW request,
           Send(c, request), KnowsBase(request), AsksByTag(request),
           request.method = "GET" =>
             \/ request.ifNoneMatch = AbsentTags
             \/ HasCopy(c) /\ request.ifNoneMatch = TagList({view[c].tag})
    PROVE  TagInvariant'
<1>1. \A d \in Client : awaiting'[d] = IF d = c THEN request ELSE awaiting[d]
  BY DEF TagInvariant, TypeOK, Send
<1>2. \A d \in Client : awaiting'[d] # Null =>
          /\ KnowsBase(awaiting'[d]) /\ AsksByTag(awaiting'[d])
          /\ AsksAboutCopy(d)'
  <2> SUFFICES ASSUME NEW d \in Client, awaiting'[d] # Null
               PROVE  /\ KnowsBase(awaiting'[d]) /\ AsksByTag(awaiting'[d])
                      /\ AsksAboutCopy(d)'
    OBVIOUS
  <2>1. CASE d = c
    BY <2>1, <1>1 DEF AsksAboutCopy, Send, HasCopy
  <2>2. CASE d # c
    BY <2>2, <1>1 DEF TagInvariant, AsksAboutCopy, Send, HasCopy
  <2>3. QED
    BY <2>1, <2>2
<1>3. QED
  BY <1>2 DEF TagInvariant, Send, NoLostUpdate, HasCopy, KnowsBase, AsksByTag

(* The requests a client sends satisfy it.                                   *)
LEMMA ReadTags ==
    ASSUME TagInvariant, TypeOK', NEW c \in Client, Read(c)
    PROVE  TagInvariant'
<1> DEFINE request == Request(c, "GET", Null, NoHeaders)
<1>1. /\ KnowsBase(request) /\ AsksByTag(request)
      /\ request.ifNoneMatch = AbsentTags
  BY DEF Request, NoHeaders, KnowsBase, AsksByTag
<1>2. QED
  BY <1>1, SendTags DEF Read

LEMMA RevalidateTags ==
    ASSUME TagsOnly, TagInvariant, TypeOK', NEW c \in Client,
           NEW by \in RevalidateBy, Revalidate(c, by)
    PROVE  TagInvariant'
<1> DEFINE request ==
      Request(c, "GET", Null,
        [ifMatch |-> AbsentTags,
         ifNoneMatch |-> IF by = "date" THEN AbsentTags ELSE TagList({view[c].tag}),
         ifModifiedSince |-> IF by = "tag" THEN Null ELSE view[c].date,
         ifUnmodifiedSince |-> Null])
<1>1. by # "date"
  BY DEF TagsOnly
<1>2. HasCopy(c) /\ view[c].tag \in Tag
  BY DEF Revalidate, TagInvariant, TypeOK, HasCopy, View
<1>3. request.method = "GET" /\ request.ifNoneMatch = TagList({view[c].tag})
  BY <1>1 DEF Request
<1>4. KnowsBase(request) /\ AsksByTag(request)
  BY <1>2, <1>3 DEF KnowsBase, AsksByTag
<1>5. QED
  BY <1>2, <1>3, <1>4, SendTags DEF Revalidate

LEMMA EditTags ==
    ASSUME TagsOnly, TagInvariant, TypeOK', NEW c \in Client, NEW by \in WriteBy,
           Edit(c, by)
    PROVE  TagInvariant'
<1> DEFINE base == IF HasCopy(c) THEN view[c].content ELSE {}
           request == Request(c, "PUT", base \cup {c}, Precondition(c, by))
<1>1. /\ request.method = "PUT" /\ request.client = c
      /\ request.body = base \cup {c}
  BY DEF Request
<1>2. CASE ~HasCopy(c)
  <2>1. request.ifMatch.kind = "absent" /\ request.ifNoneMatch = AnyTag
    BY <1>2 DEF Request, Precondition, NoHeaders, AbsentTags
  <2>2. QED
    BY <1>1, <1>2, <2>1, SendTags DEF Edit, KnowsBase, AsksByTag
<1>3. CASE HasCopy(c)
  <2>1. view[c].content \in Content /\ view[c].tag = GenerateETag(view[c].content)
    BY <1>3 DEF TagInvariant, TypeOK, HasCopy, View
  <2>2. request.ifMatch = TagList({view[c].tag})
    BY <1>3 DEF Request, Precondition, NoHeaders, TagsOnly
  <2>3. QED
    BY <1>1, <1>3, <2>1, <2>2, SendTags DEF Edit, KnowsBase, AsksByTag
<1>4. QED
  BY <1>2, <1>3

LEMMA DeleteTags ==
    ASSUME TagInvariant, TypeOK', NEW c \in Client, NEW by \in WriteBy,
           Delete(c, by)
    PROVE  TagInvariant'
<1> DEFINE request == Request(c, "DELETE", Null, Precondition(c, by))
<1>1. request.method = "DELETE"
  BY DEF Request
<1>2. QED
  BY <1>1, SendTags DEF Delete, KnowsBase, AsksByTag

LEMMA RetryTags ==
    ASSUME TagInvariant, TypeOK', NEW c \in Client, Retry(c)
    PROVE  TagInvariant'
  BY DEF TagInvariant, Retry, NoLostUpdate, HasCopy, KnowsBase, AsksByTag,
         AsksAboutCopy

(* Accepting a reply keeps each copy paired with its tag.                    *)
LEMMA ReceiveTags ==
    ASSUME TagInvariant, TypeOK', NEW c \in Client, NEW reply \in replies,
           Receive(c, reply)
    PROVE  TagInvariant'
<1>1. /\ reply \in ReplySet /\ RepliesTruthfully(reply)
      /\ awaiting[c] = reply.to /\ view[c] \in {Null} \cup View
  BY DEF TagInvariant, TypeOK, Receive
<1>2. reply.to \in RequestSet /\ AsksAboutCopy(c) /\ awaiting[c] # Null
  BY <1>1 DEF TagInvariant, TypeOK, ReplySet, Receive
<1>3. HasCopy(c) => view[c].tag = GenerateETag(view[c].content)
  BY DEF TagInvariant
<1>4. ASSUME HasCopy(c)' PROVE view'[c].tag = GenerateETag(view'[c].content)
  <2>1. view'[c] = IF reply.to.method = "GET" THEN Stored(c, reply) ELSE view[c]
    BY DEF TagInvariant, TypeOK, Receive
  <2>2. CASE reply.to.method # "GET"
    BY <2>1, <2>2, <1>3, <1>4 DEF HasCopy
  <2>3. CASE reply.to.method = "GET" /\ reply.status = "200"
    BY <2>1, <2>3, <1>1 DEF Stored, RepliesTruthfully
  <2>4. CASE reply.to.method = "GET" /\ reply.status = "404"
    BY <2>1, <2>4, <1>4 DEF Stored, HasCopy
  <2>5. CASE reply.to.method = "GET" /\ reply.status = "304"
    <3>2. PICK tag \in Tag : /\ reply.to.ifNoneMatch = TagList({tag})
                             /\ tag.value = reply.tag.value
      BY <2>5, <1>1 DEF RepliesTruthfully
    <3>1. HasCopy(c) /\ awaiting[c].ifNoneMatch = TagList({view[c].tag})
      <4>1. awaiting[c].ifNoneMatch # AbsentTags
        BY <3>2, <1>1 DEF TagList, AbsentTags
      <4>2. QED
        BY <4>1, <2>5, <1>1, <1>2 DEF AsksAboutCopy
    <3>3. tag = view[c].tag
      BY <3>1, <3>2, <1>1 DEF TagList
    <3>4. reply.tag \in Tag
      BY <2>5, <1>1 DEF ReplySet
    <3>5. reply.tag = view[c].tag
      BY <3>1, <3>2, <3>3, <3>4, <2>5, <1>1, <1>3
         DEF RepliesTruthfully, GenerateETag, Tag
    <3>6. view'[c].tag = reply.tag /\ view'[c].content = view[c].content
      BY <2>1, <2>5, <3>1, <1>1 DEF Stored, View, HasCopy
    <3>7. QED
      BY <3>1, <3>5, <3>6, <1>3
  <2>6. CASE reply.to.method = "GET" /\ reply.status = "412"
    BY <2>1, <2>6, <1>3, <1>4 DEF Stored, HasCopy
  <2>7. QED
    BY <2>2, <2>3, <2>4, <2>5, <2>6, <1>1 DEF ReplySet
<1>5. \A d \in Client : d # c => view'[d] = view[d] /\ awaiting'[d] = awaiting[d]
  BY DEF TagInvariant, TypeOK, Receive
<1>6. awaiting'[c] = Null
  BY DEF TagInvariant, TypeOK, Receive
<1>7. \A d \in Client : HasCopy(d)' => view'[d].tag = GenerateETag(view'[d].content)
  BY <1>4, <1>5 DEF TagInvariant, HasCopy
<1>8. \A d \in Client : awaiting'[d] # Null =>
          /\ KnowsBase(awaiting'[d]) /\ AsksByTag(awaiting'[d])
          /\ AsksAboutCopy(d)'
  BY <1>5, <1>6 DEF TagInvariant, AsksAboutCopy, HasCopy
<1>9. QED
  BY <1>7, <1>8 DEF TagInvariant, Receive, NoLostUpdate

LEMMA RefuseTags ==
    ASSUME TagInvariant, TypeOK', NEW request \in requests, Refuse(request)
    PROVE  TagInvariant'
<1>1. RepliesTruthfully(Reply(request, Verdict(request), Null))
  BY NotModifiedNamesTag DEF TagInvariant
<1>2. QED
  BY <1>1 DEF TagInvariant, Refuse, Answer, NoLostUpdate, HasCopy, AsksAboutCopy

LEMMA ServeGetTags ==
    ASSUME TagInvariant, TypeOK', NEW request \in requests, ServeGet(request)
    PROVE  TagInvariant'
<1> DEFINE status == IF content = Null THEN "404" ELSE "200"
<1>1. RepliesTruthfully(Reply(request, status, content))
  BY DEF RepliesTruthfully, Reply, BuildConditionalHeaders, CurrentTag
<1>2. QED
  BY <1>1 DEF TagInvariant, ServeGet, Answer, NoLostUpdate, HasCopy, AsksAboutCopy

LEMMA ServePutTags ==
    ASSUME TrustedTags, TagInvariant, TypeOK', NEW request \in requests,
           ServePut(request)
    PROVE  TagInvariant'
<1>1. \/ content = Null /\ request.body = {request.client}
      \/ content # Null /\ request.body = content \cup {request.client}
  BY WriteReplacesItsBase DEF TagInvariant
<1>2. content' # Null /\ landed' \subseteq content'
  <2>1. request.body # Null
    BY DEF TagInvariant, TypeOK, RequestSet, ServePut
  <2>2. QED
    BY <1>1, <2>1 DEF TagInvariant, NoLostUpdate, ServePut
<1>3. RepliesTruthfully(Reply(request, "200", Null))
  BY DEF RepliesTruthfully, Reply, ServePut
<1>4. QED
  BY <1>2, <1>3
     DEF TagInvariant, ServePut, Answer, NoLostUpdate, HasCopy, AsksAboutCopy

LEMMA ServeDeleteTags ==
    ASSUME TagInvariant, TypeOK', NEW request \in requests, ServeDelete(request)
    PROVE  TagInvariant'
<1> DEFINE status == IF content = Null THEN "404" ELSE "200"
<1>1. RepliesTruthfully(Reply(request, status, Null))
  BY DEF RepliesTruthfully, Reply, ServeDelete
<1>2. QED
  BY <1>1
     DEF TagInvariant, ServeDelete, Answer, NoLostUpdate, HasCopy, AsksAboutCopy

LEMMA NextTags ==
    ASSUME TrustedTags, TagInvariant, [Next]_vars
    PROVE  TagInvariant'
<1>0. TypeOK'
  BY NextType DEF TagInvariant
<1>1. CASE Tick
  BY <1>0, <1>1 DEF TagInvariant, Tick, NoLostUpdate, HasCopy, AsksAboutCopy
<1>2. ASSUME NEW c \in Client, ClientStep(c) PROVE TagInvariant'
  BY <1>0, <1>2, ReadTags, RevalidateTags, EditTags, DeleteTags, RetryTags,
     ReceiveTags DEF ClientStep, TrustedTags
<1>3. ASSUME NEW c \in Client, GiveUp(c) PROVE TagInvariant'
  <2>1. \A d \in Client :
           awaiting'[d] = IF d = c THEN Null ELSE awaiting[d]
    BY <1>3 DEF TagInvariant, TypeOK, GiveUp
  <2>2. QED
    BY <1>0, <1>3, <2>1
       DEF TagInvariant, GiveUp, NoLostUpdate, HasCopy, AsksAboutCopy
<1>4. ASSUME NEW request \in requests, Serve(request) PROVE TagInvariant'
  BY <1>0, <1>4, RefuseTags, ServeGetTags, ServePutTags, ServeDeleteTags DEF Serve
<1>5. ASSUME NEW request \in requests, LoseRequest(request) PROVE TagInvariant'
  BY <1>0, <1>5
     DEF TagInvariant, LoseRequest, NoLostUpdate, HasCopy, AsksAboutCopy
<1>6. ASSUME NEW reply \in replies, LoseReply(reply) PROVE TagInvariant'
  BY <1>0, <1>6 DEF TagInvariant, LoseReply, NoLostUpdate, HasCopy, AsksAboutCopy
<1>7. CASE UNCHANGED vars
  BY <1>0, <1>7 DEF TagInvariant, vars, NoLostUpdate, HasCopy, AsksAboutCopy
<1>8. QED
  BY <1>1, <1>2, <1>3, <1>4, <1>5, <1>6, <1>7 DEF Next

(* No edit is ever lost, in any order of service, with any number of         *)
(* clients, retries and losses, as long as clients use entity tags.          *)
THEOREM UpdatesSurvive == TrustedTags => (Spec => []NoLostUpdate)
<1> SUFFICES ASSUME TrustedTags PROVE Spec => []NoLostUpdate
  OBVIOUS
<1>1. Init => TagInvariant
  BY InitTags
<1>2. TagInvariant /\ [Next]_vars => TagInvariant'
  BY NextTags
<1>3. TagInvariant => NoLostUpdate
  BY DEF TagInvariant
<1>4. QED
  BY <1>1, <1>2, <1>3, PTL DEF Spec

(* A stored copy keeps the tag of its own content, whatever 304 responses it *)
(* was refreshed by.                                                         *)
THEOREM CopiesStayTagged == TrustedTags => (Spec => []CopyMatchesTag)
<1> SUFFICES ASSUME TrustedTags PROVE Spec => []CopyMatchesTag
  OBVIOUS
<1>1. Init => TagInvariant
  BY InitTags
<1>2. TagInvariant /\ [Next]_vars => TagInvariant'
  BY NextTags
<1>3. TagInvariant => CopyMatchesTag
  <2> SUFFICES ASSUME TagInvariant, NEW c \in Client, HasCopy(c)
               PROVE  view[c].tag.value = Hash[view[c].content]
    BY DEF CopyMatchesTag
  <2>1. view[c].tag = GenerateETag(view[c].content)
    BY DEF TagInvariant
  <2>2. QED
    BY <2>1 DEF GenerateETag
<1>4. QED
  BY <1>1, <1>2, <1>3, PTL DEF Spec

(* The origin implements atomic edits of a shared set: every step of the     *)
(* handler is one abstract edit of the CURRENT content, or changes nothing.  *)
THEOREM OriginImplementsAtomicEdits == TrustedTags => (Spec => ImplementsAtomicEdits)
<1> SUFFICES ASSUME TrustedTags PROVE Spec => ImplementsAtomicEdits
  OBVIOUS
<1>1. Init => Atomic!Init
  BY DEF Init, Atomic!Init
<1>2. TagInvariant /\ [Next]_vars => [Atomic!Next]_content
  <2> SUFFICES ASSUME TagInvariant, [Next]_vars, content' # content
               PROVE  Atomic!Next
    OBVIOUS
  <2>1. PICK request \in requests : ServePut(request) \/ ServeDelete(request)
    BY DEF Next, vars, Tick, ClientStep, Read, Revalidate, Edit, Delete, Send,
           Retry, Receive, GiveUp, LoseRequest, LoseReply, Serve, Refuse, ServeGet
  <2>2. CASE ServePut(request)
    <3>1. \/ content = Null /\ request.body = {request.client}
          \/ content # Null /\ request.body = content \cup {request.client}
      BY <2>2, WriteReplacesItsBase DEF TagInvariant
    <3>2. request.client \in Client
      BY DEF TagInvariant, TypeOK, RequestSet
    <3>3. QED
      BY <2>2, <3>1, <3>2
         DEF ServePut, Atomic!Next, Atomic!Create, Atomic!Edit
  <2>3. CASE ServeDelete(request)
    BY <2>3 DEF ServeDelete, Atomic!Next, Atomic!Delete
  <2>4. QED
    BY <2>1, <2>2, <2>3
<1>3. Init => TagInvariant
  BY InitTags
<1>4. TagInvariant /\ [Next]_vars => TagInvariant'
  BY NextTags
<1>5. QED
  BY <1>1, <1>2, <1>3, <1>4, PTL DEF Spec, ImplementsAtomicEdits, Atomic!Spec

(* A delayed If-Match request does not bring a deleted resource back; this   *)
(* needs no assumption on tags, hashes or the clients' use of dates.         *)
THEOREM NothingResurrected == Spec => NoResurrection
<1>1. TypeOK /\ [Next]_vars =>
        [\A request \in requests :
            /\ content = Null /\ content' # Null /\ request \notin requests'
            => request.ifMatch.kind = "absent"]_vars
  <2> SUFFICES ASSUME TypeOK, [Next]_vars, content = Null, content' # Null,
                      NEW request \in requests, request \notin requests'
               PROVE  request.ifMatch.kind = "absent"
    OBVIOUS
  <2>1. PICK served \in requests : ServePut(served)
    BY DEF Next, vars, Tick, ClientStep, Read, Revalidate, Edit, Delete, Send,
           Retry, Receive, GiveUp, LoseRequest, LoseReply, Serve, Refuse, ServeGet,
           ServeDelete
  <2>2. served = request
    BY <2>1 DEF ServePut, Answer
  <2>3. CurrentTag = Null /\ ~FailsIfMatch(request, CurrentTag)
    BY <2>1, <2>2 DEF CurrentTag, ServePut, Verdict, EvaluatePreconditions
  <2>4. QED
    BY <2>3 DEF FailsIfMatch, EvaluateIfMatch
<1>2. QED
  BY <1>1, TypeCorrect, PTL DEF Spec, NoResurrection

-------------------------------------------------------------------------------
(* Dated writes.  No date in flight or in store is later than the resource's *)
(* own, in whole seconds, so a dated write that proceeds names its second.    *)

LEMMA WholeSecondGrows ==
    ASSUME NEW a \in Nat, NEW b \in Nat, a <= b
    PROVE  WholeSecond(a) <= WholeSecond(b) /\ WholeSecond(b) <= b
<1>1. PICK t \in Nat : t = TicksPerSecond /\ t > 0
  BY ConditionalAssumption
<1>2. PICK p \in Nat, q \in Nat : p = a \div t /\ q = b \div t
  BY <1>1
<1>3. p * t <= a /\ q * t <= b /\ b < (q + 1) * t
  BY <1>1, <1>2
<1>4. p <= q
  <2> SUFFICES ASSUME p >= q + 1 PROVE FALSE
    BY <1>2
  <2>1. PICK r \in Nat : p = q + 1 + r
    <3>1. p - (q + 1) \in Nat /\ p = q + 1 + (p - (q + 1))
      BY <1>2
    <3> QED BY <3>1
  <2>2. p * t = (q + 1) * t + r * t /\ r * t \in Nat /\ (q + 1) * t \in Nat
    BY <1>1, <1>2, <2>1
  <2> QED BY <1>3, <2>2
<1>5. p * t <= q * t
  <2>1. PICK r \in Nat : q = p + r
    <3>1. q - p \in Nat /\ q = p + (q - p)
      BY <1>2, <1>4
    <3> QED BY <3>1
  <2>2. q * t = p * t + r * t /\ r * t \in Nat /\ p * t \in Nat
    BY <1>1, <1>2, <2>1
  <2> QED BY <2>2
<1> QED BY <1>1, <1>2, <1>3, <1>5 DEF WholeSecond

(* A date that the resource's own has reached.                               *)
Reached(date) ==
    date # Null => /\ date <= WholeSecond(clock)
                   /\ modified # Null => date <= WholeSecond(modified)

StillReached(date) ==
    date # Null => /\ date <= WholeSecond(clock')
                   /\ modified' # Null => date <= WholeSecond(modified')

DatesAreReached ==
    /\ modified # Null => modified <= clock
    /\ \A c \in Client : view[c] # Null => Reached(view[c].date)
    /\ \A c \in Client : awaiting[c] # Null => Reached(awaiting[c].ifUnmodifiedSince)
    /\ \A request \in requests : Reached(request.ifUnmodifiedSince)
    /\ \A reply \in replies : Reached(reply.date)

(* A write is conditioned by a tag or by a date, never by both: the origin   *)
(* would ignore the date.                                                    *)
DatedAlone(request) == request.ifUnmodifiedSince # Null => request.ifMatch.kind = "absent"
DatesStandAlone ==
    /\ \A request \in requests : DatedAlone(request)
    /\ \A c \in Client : awaiting[c] # Null => DatedAlone(awaiting[c])

LEMMA InitAlone == Init => DatesStandAlone
BY DEF Init, DatesStandAlone

LEMMA SendAlone ==
    ASSUME TypeOK, DatesStandAlone, NEW c \in Client, NEW request,
           Send(c, request), DatedAlone(request)
    PROVE  DatesStandAlone'
BY DEF TypeOK, DatesStandAlone, DatedAlone, Send

LEMMA NextAlone == TypeOK /\ DatesStandAlone /\ [Next]_vars => DatesStandAlone'
<1> SUFFICES ASSUME TypeOK, DatesStandAlone, [Next]_vars PROVE DatesStandAlone'
  OBVIOUS
<1>1. ASSUME NEW c \in Client, Read(c) PROVE DatesStandAlone'
  BY <1>1, SendAlone DEF Read, Request, NoHeaders, DatedAlone
<1>2. ASSUME NEW c \in Client, NEW by \in RevalidateBy, Revalidate(c, by) PROVE DatesStandAlone'
  BY <1>2, SendAlone DEF Revalidate, Request, DatedAlone
<1>3. ASSUME NEW c \in Client, NEW by \in WriteBy, Edit(c, by) \/ Delete(c, by)
      PROVE  DatesStandAlone'
  <2>1. PICK request : /\ Send(c, request)
                       /\ request.ifUnmodifiedSince = Precondition(c, by).ifUnmodifiedSince
                       /\ request.ifMatch = Precondition(c, by).ifMatch
    BY <1>3 DEF Edit, Delete, Request
  <2>2. DatedAlone(Precondition(c, by))
    BY DEF Precondition, NoHeaders, AbsentTags, DatedAlone
  <2> QED BY <2>1, <2>2, SendAlone DEF DatedAlone
<1>4. ASSUME NEW c \in Client, Retry(c) PROVE DatesStandAlone'
  BY <1>4 DEF Retry, DatesStandAlone, DatedAlone
<1>5. CASE requests' \subseteq requests /\ \A c \in Client : awaiting'[c] \in {awaiting[c], Null}
  BY <1>5 DEF DatesStandAlone, DatedAlone
<1>6. ASSUME NEW c \in Client, NEW reply \in replies, Receive(c, reply) PROVE DatesStandAlone'
  BY <1>5, <1>6 DEF Receive, TypeOK
<1>7. ASSUME NEW c \in Client, GiveUp(c) PROVE DatesStandAlone'
  BY <1>5, <1>7 DEF GiveUp, TypeOK
<1>8. Tick \/ UNCHANGED vars \/ (\E reply \in replies : LoseReply(reply))
      \/ (\E request \in requests : LoseRequest(request))
      \/ (\E request \in requests : Serve(request)) => DatesStandAlone'
  BY <1>5 DEF Tick, vars, LoseReply, LoseRequest, Serve, Refuse, ServeGet, ServePut,
              ServeDelete, Answer
<1> QED BY <1>1, <1>2, <1>3, <1>4, <1>6, <1>7, <1>8 DEF Next, ClientStep

(* Neither time nor a change of the resource makes a date unreached.         *)
LEMMA TimePasses ==
    ASSUME TypeOK, [Next]_vars
    PROVE  /\ clock <= clock'
           /\ \/ modified' = modified
              \/ modified' = Null
              \/ modified' = clock /\ clock' = clock
<1>0. clock \in Nat
  BY DEF TypeOK
<1>1. CASE Tick
  BY <1>0, <1>1 DEF Tick
<1>2. ASSUME NEW c \in Client, ClientStep(c) PROVE clock' = clock /\ modified' = modified
  BY <1>2 DEF ClientStep, Read, Revalidate, Edit, Delete, Send, Retry, Receive
<1>3. ASSUME NEW c \in Client, GiveUp(c) PROVE clock' = clock /\ modified' = modified
  BY <1>3 DEF GiveUp
<1>4. ASSUME NEW request \in requests, Serve(request)
      PROVE  clock' = clock /\ modified' \in {modified, Null, clock}
  BY <1>4 DEF Serve, Refuse, ServeGet, ServePut, ServeDelete, Answer
<1>5. ASSUME NEW request \in requests, LoseRequest(request)
      PROVE  clock' = clock /\ modified' = modified
  BY <1>5 DEF LoseRequest
<1>6. ASSUME NEW reply \in replies, LoseReply(reply)
      PROVE  clock' = clock /\ modified' = modified
  BY <1>6 DEF LoseReply
<1>7. CASE UNCHANGED vars
  BY <1>0, <1>7 DEF vars
<1> QED
  BY <1>0, <1>1, <1>2, <1>3, <1>4, <1>5, <1>6, <1>7 DEF Next

LEMMA ReachedForGood ==
    ASSUME TypeOK, TypeOK', DatesAreReached, [Next]_vars,
           NEW date \in Date, Reached(date)
    PROVE  StillReached(date)
<1>1. /\ clock \in Nat /\ clock' \in Nat /\ clock <= clock'
      /\ modified \in Date /\ modified' \in Date
      /\ \/ modified' = modified
         \/ modified' = Null
         \/ modified' = clock /\ clock' = clock
  BY TimePasses DEF TypeOK
<1>2. WholeSecond(clock) \in Nat /\ WholeSecond(clock') \in Nat
      /\ WholeSecond(clock) <= WholeSecond(clock')
  BY <1>1, WholeSecondType, WholeSecondGrows
<1> SUFFICES ASSUME date # Null
             PROVE  /\ date <= WholeSecond(clock')
                    /\ modified' # Null => date <= WholeSecond(modified')
  BY DEF StillReached
<1>3. date \in Nat /\ date <= WholeSecond(clock)
      /\ (modified # Null => date <= WholeSecond(modified))
  BY DEF Reached, Date
<1>4. date <= WholeSecond(clock')
  BY <1>2, <1>3
<1> QED BY <1>1, <1>3, <1>4

LEMMA NoDateIsReached == Reached(Null) /\ Null \in Date
BY DEF Reached, Date

LEMMA RepliesAreReached ==
    ASSUME TypeOK, DatesAreReached, NEW request, NEW status, NEW body
    PROVE  Reached(Reply(request, status, body).date) /\ Reply(request, status, body).date \in Date
<1>1. Reply(request, status, body).date = IF modified = Null THEN Null ELSE WholeSecond(modified)
  BY DEF Reply, BuildConditionalHeaders
<1>2. CASE modified = Null
  BY <1>1, <1>2, NoDateIsReached
<1>3. CASE modified # Null
  <2>1. modified \in Nat /\ clock \in Nat /\ modified <= clock
    BY <1>3 DEF TypeOK, Date, DatesAreReached
  <2>2. WholeSecond(modified) \in Nat /\ WholeSecond(modified) <= WholeSecond(clock)
    BY <2>1, WholeSecondType, WholeSecondGrows
  <2> QED BY <1>1, <1>3, <2>2 DEF Reached, Date
<1> QED BY <1>2, <1>3

LEMMA InitDates == Init => DatesAreReached
BY NoDateIsReached DEF Init, DatesAreReached

(* What is in flight or in store is reached for good.                        *)
LEMMA DatesStayReached ==
    ASSUME TypeOK, TypeOK', DatesAreReached, [Next]_vars
    PROVE  /\ StillReached(Null)
           /\ modified' # Null => modified' <= clock'
           /\ \A c \in Client : view[c] # Null => StillReached(view[c].date)
           /\ \A c \in Client : awaiting[c] # Null => StillReached(awaiting[c].ifUnmodifiedSince)
           /\ \A request \in requests : StillReached(request.ifUnmodifiedSince)
           /\ \A reply \in replies : StillReached(reply.date)
<1>1. modified' # Null => modified' <= clock'
  BY TimePasses DEF TypeOK, DatesAreReached, Date
<1>2. StillReached(Null)
  BY DEF StillReached
<1>3. ASSUME NEW c \in Client, view[c] # Null PROVE StillReached(view[c].date)
  <2>1. view[c].date \in Date
    BY <1>3 DEF TypeOK, View
  <2> QED BY <1>3, <2>1, ReachedForGood DEF DatesAreReached
<1>4. ASSUME NEW c \in Client, awaiting[c] # Null
      PROVE  StillReached(awaiting[c].ifUnmodifiedSince)
  <2>1. awaiting[c].ifUnmodifiedSince \in Date
    BY <1>4 DEF TypeOK, RequestSet
  <2> QED BY <1>4, <2>1, ReachedForGood DEF DatesAreReached
<1>5. ASSUME NEW request \in requests PROVE StillReached(request.ifUnmodifiedSince)
  <2>1. request.ifUnmodifiedSince \in Date
    BY DEF TypeOK, RequestSet
  <2> QED BY <2>1, ReachedForGood DEF DatesAreReached
<1>6. ASSUME NEW reply \in replies PROVE StillReached(reply.date)
  <2>1. reply.date \in Date
    BY DEF TypeOK, ReplySet
  <2> QED BY <2>1, ReachedForGood DEF DatesAreReached
<1> QED BY <1>1, <1>2, <1>3, <1>4, <1>5, <1>6

(* A client sends no date but the one of its copy.                           *)
LEMMA SendDates ==
    ASSUME TypeOK, TypeOK', DatesAreReached, [Next]_vars, NEW c \in Client,
           NEW request, Send(c, request), StillReached(request.ifUnmodifiedSince)
    PROVE  DatesAreReached'
<1>1. /\ view' = view /\ replies' = replies /\ requests' = requests \cup {request}
      /\ \A d \in Client : awaiting'[d] = IF d = c THEN request ELSE awaiting[d]
  BY DEF Send, TypeOK
<1> QED BY <1>1, DatesStayReached DEF DatesAreReached, Reached, StillReached

LEMMA NextDates == TypeOK /\ TypeOK' /\ DatesAreReached /\ [Next]_vars => DatesAreReached'
<1> SUFFICES ASSUME TypeOK, TypeOK', DatesAreReached, [Next]_vars PROVE DatesAreReached'
  OBVIOUS
<1>1. ASSUME NEW c \in Client, Read(c) \/ \E by \in RevalidateBy : Revalidate(c, by)
      PROVE  DatesAreReached'
  <2>1. \E request : Send(c, request) /\ request.ifUnmodifiedSince = Null
    <3>1. CASE Read(c)
      BY <3>1 DEF Read, Request, NoHeaders
    <3>2. ASSUME NEW by \in RevalidateBy, Revalidate(c, by)
          PROVE  \E request : Send(c, request) /\ request.ifUnmodifiedSince = Null
      BY <3>2 DEF Revalidate, Request
    <3> QED BY <1>1, <3>1, <3>2
  <2> QED BY <2>1, DatesStayReached, SendDates
<1>2. ASSUME NEW c \in Client, NEW by \in WriteBy, Edit(c, by) \/ Delete(c, by)
      PROVE  DatesAreReached'
  <2>1. PICK request : Send(c, request)
                       /\ request.ifUnmodifiedSince = Precondition(c, by).ifUnmodifiedSince
    BY <1>2 DEF Edit, Delete, Request
  <2>2. \/ Precondition(c, by).ifUnmodifiedSince = Null
        \/ HasCopy(c) /\ Precondition(c, by).ifUnmodifiedSince = view[c].date
    BY DEF Precondition, NoHeaders
  <2>3. StillReached(request.ifUnmodifiedSince)
    BY <2>1, <2>2, DatesStayReached DEF HasCopy
  <2> QED BY <2>1, <2>3, SendDates
<1>3. ASSUME NEW c \in Client, Retry(c) PROVE DatesAreReached'
  <2>1. /\ view' = view /\ replies' = replies /\ awaiting' = awaiting /\ awaiting[c] # Null
        /\ requests' = requests \cup {awaiting[c]}
    BY <1>3 DEF Retry
  <2> QED BY <2>1, DatesStayReached DEF DatesAreReached, Reached, StillReached
<1>4. ASSUME NEW c \in Client, NEW reply \in replies, Receive(c, reply) PROVE DatesAreReached'
  <2>1. /\ requests' = requests /\ replies' \subseteq replies
        /\ \A d \in Client : awaiting'[d] = IF d = c THEN Null ELSE awaiting[d]
        /\ \A d \in Client : d # c => view'[d] = view[d]
        /\ view'[c] = view[c] \/ view'[c] = Stored(c, reply)
    BY <1>4 DEF Receive, TypeOK
  <2>2. Stored(c, reply) # Null => StillReached(Stored(c, reply).date)
    <3>1. HasCopy(c) => view[c] \in View
      BY DEF TypeOK, HasCopy
    <3>2. \/ Stored(c, reply) = view[c]
          \/ Stored(c, reply).date = Null
          \/ Stored(c, reply).date = reply.date
      BY <3>1 DEF Stored, View
    <3> QED BY <3>2, DatesStayReached
  <2>3. \A d \in Client : view'[d] # Null => StillReached(view'[d].date)
    BY <2>1, <2>2, DatesStayReached
  <2> QED BY <2>1, <2>3, DatesStayReached DEF DatesAreReached, Reached, StillReached
<1>5. ASSUME NEW request \in requests, Serve(request) PROVE DatesAreReached'
  <2>1. PICK status, body :
          /\ replies' = replies \cup {Reply(request, status, body)}
          /\ requests' \subseteq requests /\ view' = view /\ awaiting' = awaiting
    BY <1>5 DEF Serve, Refuse, ServeGet, ServePut, ServeDelete, Answer
  <2>2. StillReached(Reply(request, status, body).date)
    BY RepliesAreReached, ReachedForGood
  <2> QED BY <2>1, <2>2, DatesStayReached DEF DatesAreReached, Reached, StillReached
<1>6. CASE /\ view' = view /\ requests' \subseteq requests /\ replies' \subseteq replies
           /\ \A c \in Client : awaiting'[c] \in {awaiting[c], Null}
  BY <1>6, DatesStayReached DEF DatesAreReached, Reached, StillReached
<1>7. Tick \/ UNCHANGED vars \/ (\E reply \in replies : LoseReply(reply))
      \/ (\E request \in requests : LoseRequest(request)) \/ (\E c \in Client : GiveUp(c))
      => DatesAreReached'
  BY <1>6 DEF Tick, vars, LoseReply, LoseRequest, GiveUp, TypeOK
<1> QED BY <1>1, <1>2, <1>3, <1>4, <1>5, <1>7 DEF Next, ClientStep

(* A dated write that proceeds on a resource that exists is dated, in whole  *)
(* seconds, as the resource is: a write can undo only what was changed in    *)
(* the second its author's copy is dated, for any clients, validators, hash  *)
(* and losses.                                                               *)
THEOREM LossesWithinTheSecond == Spec => LossWithinOneSecond
<1>1. TypeOK /\ DatesAreReached /\ DatesStandAlone /\ [Next]_vars =>
        [\A request \in requests :
            /\ request.method = "PUT"
            /\ request.ifUnmodifiedSince # Null
            /\ request \notin requests'
            /\ content # Null /\ content' = request.body
            /\ ~(content \subseteq request.body)
            => WholeSecond(modified) = request.ifUnmodifiedSince]_vars
  <2> SUFFICES ASSUME TypeOK, DatesAreReached, DatesStandAlone, [Next]_vars,
                      NEW request \in requests, request.method = "PUT", request.ifUnmodifiedSince # Null,
                      request \notin requests', content # Null, content' = request.body,
                      ~(content \subseteq request.body)
               PROVE  WholeSecond(modified) = request.ifUnmodifiedSince
    OBVIOUS
  <2>1. content' # content
    OBVIOUS
  <2>2. PICK served \in requests : Serve(served)
    BY <2>1 DEF Next, vars, Tick, ClientStep, Read, Revalidate, Edit, Delete, Send,
           Retry, Receive, GiveUp, LoseRequest, LoseReply
  <2>3. served = request
    BY <2>2 DEF Serve, Refuse, ServeGet, ServePut, ServeDelete, Answer
  <2>4. Verdict(request) = "proceed"
    BY <2>1, <2>2, <2>3 DEF Serve, Refuse, ServeGet, ServePut, ServeDelete, Answer
  <2>5. EvaluateIfUnmodifiedSince(request.ifUnmodifiedSince, modified)
    BY <2>4 DEF Verdict, EvaluatePreconditions, FailsIfUnmodifiedSince, DatesStandAlone, DatedAlone
  <2>6. /\ modified \in Nat /\ request.ifUnmodifiedSince \in Nat
        /\ request.ifUnmodifiedSince <= WholeSecond(modified)
    BY DEF TypeOK, RequestSet, Date, DatesAreReached, Reached
  <2>7. WholeSecond(modified) <= WholeSecond(request.ifUnmodifiedSince)
    BY <2>5, <2>6, ConditionalAssumption DEF EvaluateIfUnmodifiedSince
  <2>8. WholeSecond(request.ifUnmodifiedSince) <= request.ifUnmodifiedSince
    BY <2>6, WholeSecondGrows
  <2>9. WholeSecond(modified) \in Nat /\ WholeSecond(request.ifUnmodifiedSince) \in Nat
    BY <2>6, WholeSecondType
  <2> QED BY <2>6, <2>7, <2>8, <2>9
<1> QED BY <1>1, TypeCorrect, NextType, InitDates, NextDates, InitAlone, NextAlone, PTL
        DEF Spec, LossWithinOneSecond

=============================================================================
