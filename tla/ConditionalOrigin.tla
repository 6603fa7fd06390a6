------------------------- MODULE ConditionalOrigin -------------------------
(* One resource behind the library's conditional-request handling, read and *)
(* edited by concurrent clients.  Serve is the handler of the README's      *)
(* quickstart: compute the validators of the current representation,        *)
(* evaluate the preconditions, then either answer 304 or 412 or carry the   *)
(* method out.  The clients are not part of the repository: they use the    *)
(* validators the way the documentation intends.  Requests and replies are  *)
(* lost, retried and served in any order.                                   *)
(*                                                                          *)
(* A representation's content is the set of the clients whose edit it       *)
(* carries: an edit that is not there any more was lost.                    *)
EXTENDS Conditional

CONSTANTS
    Client,
    Deleter,       \* the clients that delete the resource instead of editing
    WriteBy,       \* validators a write may use: "tag" and "date"
    RevalidateBy,  \* validators a repeated GET may use: "tag", "date", "both"
    WeakTags,      \* whether generateETag is called with { weak: true }
    Hash,          \* generateETag's hash of each content
    MaxClock,      \* bound on the clock, in ticks
    MaxLosses      \* bound on the number of messages lost

Content == SUBSET Client

(* In small instances a content hashes to itself, so that the hash has no   *)
(* collision.                                                               *)
PerfectHash == [c \in Content |-> c]

Tag == [weak : BOOLEAN, value : {Hash[content] : content \in Content}]

ASSUME OriginAssumption ==
    /\ Deleter \subseteq Client
    /\ WriteBy \subseteq {"tag", "date"}
    /\ RevalidateBy \subseteq {"tag", "date", "both"}
    /\ WeakTags \in BOOLEAN
    /\ DOMAIN Hash = Content
    /\ MaxClock \in Nat /\ MaxLosses \in Nat
    /\ \A a \in Content : a # Null
    /\ \A tag \in Tag : tag # Null

(* The hash tells contents apart: what a 32-bit djb2 hash does not promise. *)
NoCollision == \A a, b \in Content : Hash[a] = Hash[b] => a = b

VARIABLES
    content,   \* the resource's content, Null when it does not exist
    modified,  \* the time of its last change, Null when it does not exist
    clock,
    view,      \* what each client has stored: Null or [content, tag, date]
    phase,     \* what each client does next: "read", "write" or "done"
    awaiting,  \* the request each client waits for, or Null
    requests,  \* requests in flight
    replies,   \* replies in flight
    losses,
    landed     \* history: the edits carried out since the last delete

vars == <<content, modified, clock, view, phase, awaiting, requests, replies,
          losses, landed>>

(* Mutant: the weak prefix is always written. *)
AlwaysWeakETag(body) == [weak |-> TRUE, value |-> Hash[body]]
(* generateETag, then parseETag, as in the quickstart. *)
GenerateETag(body) == [weak |-> WeakTags, value |-> Hash[body]]
CurrentTag == IF content = Null THEN Null ELSE GenerateETag(content)

Init ==
    /\ \/ content = Null /\ modified = Null
       \/ content = {} /\ modified = 0
    /\ clock = 0
    /\ view = [c \in Client |-> Null]
    /\ phase = [c \in Client |-> "read"]
    /\ awaiting = [c \in Client |-> Null]
    /\ requests = {} /\ replies = {}
    /\ losses = 0 /\ landed = {}

Tick ==
    /\ clock < MaxClock
    /\ clock' = clock + 1
    /\ UNCHANGED <<content, modified, view, phase, awaiting, requests, replies,
                   losses, landed>>

----------------------------------------------------------------------------
(* The clients.                                                             *)

NoHeaders == [ifMatch |-> AbsentTags, ifNoneMatch |-> AbsentTags,
              ifModifiedSince |-> Null, ifUnmodifiedSince |-> Null]

Request(c, method, body, headers) ==
    [client |-> c, method |-> method, body |-> body,
     ifMatch |-> headers.ifMatch, ifNoneMatch |-> headers.ifNoneMatch,
     ifModifiedSince |-> headers.ifModifiedSince,
     ifUnmodifiedSince |-> headers.ifUnmodifiedSince]

Send(c, request) ==
    /\ awaiting[c] = Null
    /\ awaiting' = [awaiting EXCEPT ![c] = request]
    /\ requests' = requests \cup {request}
    /\ UNCHANGED <<content, modified, clock, view, phase, replies, losses, landed>>

HasCopy(c) == view[c] # Null /\ view[c].content # Null

Read(c) ==
    /\ phase[c] = "read"
    /\ ~HasCopy(c)
    /\ Send(c, Request(c, "GET", Null, NoHeaders))

Revalidate(c, by) ==
    /\ phase[c] = "read"
    /\ HasCopy(c)
    /\ Send(c, Request(c, "GET", Null,
           [ifMatch |-> AbsentTags,
            ifNoneMatch |-> IF by = "date" THEN AbsentTags ELSE TagList({view[c].tag}),
            ifModifiedSince |-> IF by = "tag" THEN Null ELSE view[c].date,
            ifUnmodifiedSince |-> Null]))

(* What a conditional write requires: that nothing exists yet, or that the  *)
(* resource is still the one the client has seen.                           *)
Precondition(c, by) ==
    IF ~HasCopy(c) THEN [NoHeaders EXCEPT !.ifNoneMatch = AnyTag]
    ELSE IF by = "tag"
    THEN [NoHeaders EXCEPT !.ifMatch = TagList({view[c].tag})]
    ELSE [NoHeaders EXCEPT !.ifUnmodifiedSince = view[c].date]

Edit(c, by) ==
    /\ c \notin Deleter
    /\ phase[c] = "write"
    /\ LET base == IF HasCopy(c) THEN view[c].content ELSE {}
       IN  Send(c, Request(c, "PUT", base \cup {c}, Precondition(c, by)))

Delete(c, by) ==
    /\ c \in Deleter
    /\ phase[c] = "write"
    /\ HasCopy(c)
    /\ Send(c, Request(c, "DELETE", Null, Precondition(c, by)))

(* A client that heard nothing sends its request again: the first one may   *)
(* have been lost, may be served later or may have been carried out.        *)
Retry(c) ==
    /\ awaiting[c] # Null
    /\ awaiting[c] \notin requests
    /\ \A reply \in replies : reply.to # awaiting[c]
    /\ requests' = requests \cup {awaiting[c]}
    /\ UNCHANGED <<content, modified, clock, view, phase, awaiting, replies,
                   losses, landed>>

(* A client that gives up starts over; its request may still be served.     *)
GiveUp(c) ==
    /\ awaiting[c] # Null
    /\ losses < MaxLosses
    /\ losses' = losses + 1
    /\ awaiting' = [awaiting EXCEPT ![c] = Null]
    /\ phase' = [phase EXCEPT ![c] = "read"]
    /\ UNCHANGED <<content, modified, clock, view, requests, replies, landed>>

(* A 304 refreshes the validators of the stored copy and keeps its content. *)
Stored(c, reply) ==
    CASE reply.status = "200" ->
            [content |-> reply.body, tag |-> reply.tag, date |-> reply.date]
      [] reply.status = "404" -> [content |-> Null, tag |-> Null, date |-> Null]
      [] reply.status = "304" /\ HasCopy(c) ->
            [view[c] EXCEPT !.tag = reply.tag, !.date = reply.date]
      [] OTHER -> view[c]

NextPhase(c, reply) ==
    CASE reply.status = "412" -> "read"
      [] reply.to.method # "GET" -> "done"
      [] reply.status = "404" -> IF c \in Deleter THEN "read" ELSE "write"
      [] OTHER -> IF c \in Stored(c, reply).content THEN "done" ELSE "write"

Receive(c, reply) ==
    /\ awaiting[c] # Null /\ awaiting[c] = reply.to
    /\ replies' = replies \ {reply}
    /\ awaiting' = [awaiting EXCEPT ![c] = Null]
    /\ view' = [view EXCEPT ![c] =
                   IF reply.to.method = "GET" THEN Stored(c, reply) ELSE view[c]]
    /\ phase' = [phase EXCEPT ![c] = NextPhase(c, reply)]
    /\ UNCHANGED <<content, modified, clock, requests, losses, landed>>

----------------------------------------------------------------------------
(* The origin.                                                              *)

Verdict(request) == EvaluatePreconditions(request, CurrentTag, modified)

Reply(request, status, body) ==
    [to |-> request, status |-> status, body |-> body,
     tag |-> BuildConditionalHeaders(CurrentTag, modified).tag,
     date |-> BuildConditionalHeaders(CurrentTag, modified).date]

Answer(request, status, body) ==
    /\ requests' = requests \ {request}
    /\ replies' = replies \cup {Reply(request, status, body)}
    /\ UNCHANGED <<clock, view, phase, awaiting, losses>>

(* 304 or 412: the precondition decides, the resource is left alone. *)
Refuse(request) ==
    /\ Verdict(request) # "proceed"
    /\ Answer(request, Verdict(request), Null)
    /\ UNCHANGED <<content, modified, landed>>

ServeGet(request) ==
    /\ request.method = "GET"
    /\ Verdict(request) = "proceed"
    /\ Answer(request, IF content = Null THEN "404" ELSE "200", content)
    /\ UNCHANGED <<content, modified, landed>>

ServePut(request) ==
    /\ request.method = "PUT"
    /\ Verdict(request) = "proceed"
    /\ content' = request.body
    /\ modified' = clock
    /\ landed' = landed \cup {request.client}
    /\ Answer(request, "200", Null)

ServeDelete(request) ==
    /\ request.method = "DELETE"
    /\ Verdict(request) = "proceed"
    /\ content' = Null
    /\ modified' = Null
    /\ landed' = {}
    /\ Answer(request, IF content = Null THEN "404" ELSE "200", Null)

Serve(request) ==
    \/ Refuse(request)
    \/ ServeGet(request)
    \/ ServePut(request)
    \/ ServeDelete(request)

LoseRequest(request) ==
    /\ losses < MaxLosses
    /\ losses' = losses + 1
    /\ requests' = requests \ {request}
    /\ UNCHANGED <<content, modified, clock, view, phase, awaiting, replies, landed>>

LoseReply(reply) ==
    /\ losses < MaxLosses
    /\ losses' = losses + 1
    /\ replies' = replies \ {reply}
    /\ UNCHANGED <<content, modified, clock, view, phase, awaiting, requests, landed>>

ClientStep(c) ==
    \/ Read(c)
    \/ \E by \in RevalidateBy : Revalidate(c, by)
    \/ \E by \in WriteBy : Edit(c, by) \/ Delete(c, by)
    \/ Retry(c)
    \/ \E reply \in replies : Receive(c, reply)

Next ==
    \/ Tick
    \/ \E c \in Client : ClientStep(c) \/ GiveUp(c)
    \/ \E request \in requests : Serve(request) \/ LoseRequest(request)
    \/ \E reply \in replies : LoseReply(reply)

Spec == Init /\ [][Next]_vars

(* Each client keeps running, and the origin serves every client's request. *)
Fairness ==
    \A c \in Client :
        /\ WF_vars(ClientStep(c))
        /\ WF_vars(\E request \in requests :
                      request = awaiting[c] /\ Serve(request))

FairSpec == Spec /\ Fairness

----------------------------------------------------------------------------
(* Properties.                                                              *)

Date == {Null} \cup Nat
View ==
    {copy \in [content : {Null} \cup Content, tag : {Null} \cup Tag, date : Date] :
     copy.content # Null => copy.tag # Null /\ copy.date # Null}
TagHeader == [kind : {"absent", "any", "tags"}, tags : SUBSET Tag]
RequestSet ==
    {request \in
        [client : Client, method : {"GET", "PUT", "DELETE"},
         body : {Null} \cup Content, ifMatch : TagHeader,
         ifNoneMatch : TagHeader, ifModifiedSince : Date,
         ifUnmodifiedSince : Date] :
     request.method = "PUT" => request.body # Null}
ReplySet ==
    {reply \in
        [to : RequestSet, status : {"200", "304", "404", "412"},
         body : {Null} \cup Content, tag : {Null} \cup Tag, date : Date] :
     /\ reply.status = "200" /\ reply.to.method = "GET" => reply.body # Null
     /\ reply.status = "304" => reply.to.method = "GET"
     /\ reply.body # Null \/ reply.status = "304"
        => reply.tag # Null /\ reply.date # Null}

(* Type correctness: validators are well formed tags and dates, and the     *)
(* resource has a modification date exactly while it exists (the pairing    *)
(* evaluatePreconditions documents for its two arguments).                  *)
TypeOK ==
    /\ content \in {Null} \cup Content
    /\ modified \in Date
    /\ content = Null <=> modified = Null
    /\ clock \in Nat
    /\ view \in [Client -> {Null} \cup View]
    /\ phase \in [Client -> {"read", "write", "done"}]
    /\ awaiting \in [Client -> {Null} \cup RequestSet]
    /\ requests \subseteq RequestSet
    /\ replies \subseteq ReplySet
    /\ losses \in Nat
    /\ landed \subseteq Client

(* No lost update: whatever the order in which retried, delayed and         *)
(* concurrent writes arrive, every edit the origin carried out since the    *)
(* last delete is still in the content.  This is what If-Match with strong  *)
(* comparison (evaluateIfMatch) and If-None-Match: * are for.               *)
NoLostUpdate == content # Null => landed \subseteq content

(* A stored copy is what its tag names.  A 304 replaces the stored          *)
(* validators, so this is where a 304 sent for another representation       *)
(* (buildConditionalHeaders after a match that is not one) would surface.   *)
CopyMatchesTag ==
    \A c \in Client : HasCopy(c) => view[c].tag.value = Hash[view[c].content]

(* A request that says If-Match never brings a deleted resource back, even  *)
(* when it was delayed past the delete: the null check of evaluateIfMatch.  *)
NoResurrection ==
    [][\A request \in requests :
          /\ content = Null /\ content' # Null /\ request \notin requests'
          => request.ifMatch.kind = "absent"]_vars

(* A dated write can overwrite an edit its author never saw, but only one   *)
(* made in the very second the author's copy is dated: the whole-second     *)
(* comparison of evaluateIfUnmodifiedSince.                                 *)
LossWithinOneSecond ==
    [][\A request \in requests :
          /\ request.method = "PUT"
          /\ request.ifUnmodifiedSince # Null
          /\ request \notin requests'
          /\ content # Null /\ content' = request.body
          /\ ~(content \subseteq request.body)
          => WholeSecond(modified) = request.ifUnmodifiedSince]_vars

(* Every edit is carried out in the end: a client whose write is refused    *)
(* reads again and its next precondition is one the origin can accept.      *)
EveryEditLands == \A c \in Client \ Deleter : <>(c \in landed)

(* The strengthening under which NoLostUpdate is inductive when no client   *)
(* trusts dates.  What a write in flight was computed from is what its      *)
(* If-Match names; a copy, a GET and a 304 agree on one tag.                *)
KnowsBase(request) ==
    request.method = "PUT" =>
        \/ /\ request.ifMatch.kind = "absent"
           /\ request.ifNoneMatch = AnyTag
           /\ request.body = {request.client}
        \/ \E base \in Content :
              /\ request.ifMatch = TagList({GenerateETag(base)})
              /\ request.body = base \cup {request.client}

AsksByTag(request) ==
    request.method = "GET" =>
        \/ request.ifNoneMatch = AbsentTags /\ request.ifModifiedSince = Null
        \/ \E tag \in Tag : request.ifNoneMatch = TagList({tag})

AsksAboutCopy(c) ==
    (awaiting[c] # Null /\ awaiting[c].method = "GET") =>
        \/ awaiting[c].ifNoneMatch = AbsentTags
        \/ HasCopy(c) /\ awaiting[c].ifNoneMatch = TagList({view[c].tag})

RepliesTruthfully(reply) ==
    /\ (reply.status = "200" /\ reply.to.method = "GET")
       => reply.tag = GenerateETag(reply.body)
    /\ reply.status = "304"
       => /\ \E tag \in Tag : /\ reply.to.ifNoneMatch = TagList({tag})
                              /\ tag.value = reply.tag.value
          /\ reply.tag.weak = WeakTags

TagInvariant ==
    /\ TypeOK
    /\ content = Null => landed = {}
    /\ NoLostUpdate
    /\ \A c \in Client : HasCopy(c) => view[c].tag = GenerateETag(view[c].content)
    /\ \A request \in requests : KnowsBase(request) /\ AsksByTag(request)
    /\ \A c \in Client : awaiting[c] # Null =>
          /\ KnowsBase(awaiting[c]) /\ AsksByTag(awaiting[c])
          /\ AsksAboutCopy(c)
    /\ \A reply \in replies : RepliesTruthfully(reply)

(* With strong tags the origin implements atomic edits of a shared set.     *)
Atomic == INSTANCE AtomicEdits WITH value <- content
ImplementsAtomicEdits == Atomic!Spec
=============================================================================
