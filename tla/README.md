# Formal verification of http-rfc-utils

`http-rfc-utils` is a TypeScript library of HTTP building blocks: functions that
parse, evaluate and format what RFCs put in header fields, small documents and
JSON values. It has no server and no threads of its own. What can go wrong in it
is of three kinds, and this project is organised by them.

* **Protocols the functions are one side of.** `evaluatePreconditions` is one
  call, but lost updates, stale copies and joined downloads happen between many
  calls of many clients, with delays, losses and retries.
* **Two functions that must agree on a text.** A writer and a reader, often on
  different machines, with somebody between them who may write the text anew: a
  signature base, a cookie, a challenge, a parameter in a path.
* **Algorithms with hidden state.** A parser that remembers what stood before, a
  matcher that forgets all but the last star, a cache keyed by object identity,
  a document edited in place, a counter that is copied: right or wrong over a
  sequence of steps that no unit test lists.

Paths below are relative to the repository's root (`src/...` is the library).

## Inventory

| component | state it keeps | operations | interacts with | hard behaviour | what makes it correct |
|---|---|---|---|---|---|
| conditional requests, entity tags (`src/conditional.ts`, `src/etag.ts`) | none; the origin's resource and the clients' copies are around it | generate and compare tags, evaluate the four preconditions, build headers and the 304/412 answers | clients by requests and replies; ranges (`If-Range`) | concurrent writers, lost and repeated messages, whole-second dates, hash collisions | no lost update, copies stay truthful, deletes are final, edits land |
| range requests (`src/range.ts`) | none; a client's partial file | parse, resolve, normalise, merge ranges; `If-Range`; answers 206, 416 | conditional requests (validators) | change between two parts; clamping and merging off by one | exact coverage, one version per file |
| robots.txt (`src/robots.ts`) | parser variables; a `WeakMap` of compiled groups | parse, format, match agents, compile and match rules | crawler code, which may edit the groups | cache by identity of mutable objects; grouping depends on history; matcher with one place to go back to | rules reach their agents, answers follow rules, the matcher is exact and ends |
| JSON Patch, Merge Patch, Pointer (`src/json-*.ts`) | a working copy edited in place | parse and validate, six operations, recursive merge, pointers as strings and URI fragments | the caller's objects, by reference | aliasing, failure half way, shifting array positions, two escapes on top of each other, depth limit | the RFC's document or error, caller's objects untouched |
| JSONPath (`src/jsonpath/`) | lexer and token position; visit counter and depth in a context | lex, parse, evaluate with limits, compile, normalized paths | documents that share or contain themselves | backtracking, surrogate pairs and escapes, cycles, limits, copied counters | selects exactly, refuses only beyond limits, reads all it accepts, paths lead back |
| OpenAPI helpers (`src/openapi/`) | a compiled matcher | parameter styles both ways, path matching, servers, lint, security requirements, links and callbacks | JSON Pointer, percent-encoding | the order of encoding, splitting and decoding; precedence of templates; `null` against empty lists | a linted call reaches its operation with the value it was given |
| structured fields (`src/structured-fields.ts`, `src/structured-field-*.ts`) | parser position | parse and serialise items, lists, dictionaries, parameters by schema | signatures, digests, status fields | duplicates, bare `true`, numeric limits, nesting | parse inverts serialise wherever a field is relayed |
| message integrity (`src/http-signatures.ts`, `src/digest.ts`, `src/ni.ts`) | none | derive components, signature base, signature fields, digests by Web Crypto | every hop that rewrites fields; Web Crypto promises | canonical form against rewriting; ambiguity of the base; buffers reused over an `await` | verified if only rewritten, signed if verified |
| trace context (`src/trace-context.ts`) | none | parse, create, update `traceparent`, `tracestate` | a chain of services | future versions, duplicates, limits of 32 members and 512 characters | one trace id, newest entry first, always readable by the next |
| proxies and forwarding (`src/forwarded.ts`, `src/proxy-status.ts`, `src/cache-status.ts`, `src/alt-svc.ts`, `src/early-data.ts`) | none | parse, format, append | a chain of intermediaries | quoting, two ways to append | the chain is read in its order |
| authentication (`src/auth/`) | none; nonces and tokens are the server's | challenges and credentials, Basic, Bearer, Digest, PKCE; WebAuthn | servers, gateways, Web Crypto | several schemes on one line, late and repeated requests, nonces renewed, two defaults for one parameter | accepted means who had the secret used it for this |
| cookies (`src/cookie.ts`) | none; the caller's list of stored cookies | parse, format, dates, domain and path match, select and order | servers by `Cookie` and `Set-Cookie` | two parsers of one text; shadowing by path | the server sees the cookie it meant |
| HTTP dates (`src/datetime.ts`) | the clock | parse three date forms, format | conditional requests, cookies | two-digit years, whole seconds | round trip |
| content negotiation (`src/negotiate.ts`, `src/language.ts`, `src/encoding.ts`) | a cache of parsed media types | order by quality and specificity, choose a representation | server code | ties and wildcards; growth of the cache | best acceptable choice, independent of order |
| pagination and sorting (`src/pagination.ts`, `src/sorting.ts`) | none; the offset in the links | parse, page, link | a collection that changes between pages | inserts and deletes between two requests | every stable item once |
| cache control, links and templates, URIs, canonical JSON, security fields, responses and preferences, OAuth metadata, discovery documents | none | parse and format single fields or documents | each other, little | syntax only | parse inverts format |

`PROJECT.json` lists the same components with every source file, and under
`hazards` what is hard to test in them, line by line, with the property that
covers each or the reason why none does.

## Plan

The order is by what matters most: first protocols in which an error destroys
data, then the algorithms with hidden state, then the texts two sides must agree on.

1. **done** – `Conditional`, `ConditionalOrigin`, `AtomicEdits`: conditional
   writes by concurrent clients; proved.
2. **done** – `Ranges`, `RangeNormalizer` (proved), `RangeTransfer` (proved).
3. **done** – `RobotsWildcard` (proved), `RobotsCrawler` (proved).
4. **done** – `JsonPatch`, `JsonPatching`, with `JsonPatchMeaning` as
   their abstract specification; that nothing is shared is proved.
5. **done** – `JsonPathLexer`, `JsonPathEval`, against `JsonPathMeaning`.
6. **done** – a web session: `Authentication`, `Cookies`, `WebSession`.
7. **done** – one call of an API: `OpenApiParameters`, `OpenApiRouting`,
   `OpenApiSecurity`, `OpenApiRuntime`, `OpenApiCall`; security, routing and callbacks proved.
8. **done** – a message over several hops: `StructuredFields`, `HeaderText`,
   `MessageIntegrity`, `Forwarding`, `MessagePath`.
9. **done** – a walk through a collection: `Negotiation`, `Links`, `Listing`.
10. *left* – WebAuthn's checks on client data, and the theorems named next.

A theorem still worth proving is `ParameterComesBack` of the API call, which needs that
splitting at a delimiter undoes joining, for every style.

## What is modelled

### Conditional requests

`Conditional` holds the operators: strong and weak comparison (`etag.ts`),
`EvaluateIfMatch`, `EvaluateIfNoneMatch`, the two date conditions,
`EvaluatePreconditions` in the code's order (`If-Match` or `If-Unmodified-Since`,
then `If-None-Match` or `If-Modified-Since`), and `BuildConditionalHeaders`. Times
are ticks, `TicksPerSecond` of them in a second, and every header date is cut to
the whole second, as `formatHTTPDate` does. A list of tags is the set of its
parsed tags, or `*`; a date that cannot be parsed is `BadDate`.

`ConditionalOrigin` puts these operators between one resource and its clients.

| model | code |
|---|---|
| `content`, `modified` | the representation and its `Last-Modified`; the caller's |
| `GenerateETag`, `CurrentTag` | `generateETag`; the hash is the constant `Hash` |
| `Serve` = `Refuse`, `ServeGet`, `ServePut`, `ServeDelete` | the handler of the README's quickstart: compute validators, evaluate, answer 304 or 412 or carry the method out. It has no `await` between evaluation and effect, so it is one action |
| `Read`, `Revalidate`, `Edit`, `Delete`, `Receive`, `Retry`, `GiveUp` | clients that use validators as the documentation intends; not in the repository |
| `LoseRequest`, `LoseReply` | the network; requests and replies are sets, so they are served in any order |

A content is the set of clients whose edit it carries, so a lost update is a
missing element. `AtomicEdits` is what the whole promises: a shared set of edits,
each added to the *current* set in one indivisible step.

### Ranges

`Ranges` has `Satisfiable`, `Clamped` (`normalizeRange`), `IfRangeMatches` and
`EvaluateRange`. `RangeNormalizer` is `normalizeRanges` with one action per loop
iteration: clamp every range, sort by first byte (a stable permutation), merge in
one pass. `RangeTransfer` is a client that downloads a representation in
pieces while it changes: `ReceiveAll` for an answer 200, `ReceivePart` for a 206,
where a part may be cut short at any byte, and `Resume`, `ResumeBySuffix` ask for
the rest with `If-Range`. Every byte is its version number. The `Content-Range` of a 206 is
written by `FormatContentRange` and read by `ParseContentRange`, over symbols.

### robots.txt

`RobotsCrawler` has `parseRobotsTxt` and `formatRobotsTxt` on lines of a field and a
value: the parser's `currentGroup` and `expectingRules` are `parser.open` and
`parser.expectingRules`, and `ParsedLines` is its loop. Around them is a caller that reads a file, asks
`isAllowed`, edits the groups it holds and fetches again; `cache` is the
`WeakMap` `COMPILED_ROBOTS_GROUPS`, keyed by identity, and `edited` remembers
which groups changed after they were compiled. `RobotsWildcard` is
`compilePathPattern` and `wildcardMatchLinear`, one action per iteration, with
the code's variables `globIndex`, `valueIndex`, `starIndex` and `matchIndex`.

### JSON Patch, Merge Patch and Pointer

`JsonPatch` has values and objects by reference, `CloneJsonValue` and the pointer
walk, and `json-pointer.ts` on texts: the two escapes in the order in
which they are undone, array indices, and URI fragments, whose percent-encoding
lies on top of the escapes; then `parseJsonPatch`, `validateOperation` and
the six operations in the order in which the code checks, clones and edits.
A recursion into a value is written as the places it comes to, level by level: a place
is the list of steps that lead to an array or object, so one that is shared has several, and is copied
as often as `cloneJsonValue` copies it; a value in a cycle or too deep has a place
with items at the limit. `MergePatch` goes through the members of the patch in the same way,
an object before its members.

`JsonPatching` is one call: `Parse` of a document that may be no patch, `Start` or
`Refuse`, an `Apply` for each operation, `Merge`, `Return`; `Look` then asks
`evaluateJsonPointer` for every path in the result. `JsonPatchMeaning` says the same of
*documents* — sets of paths with their leaves, without objects, references, copies or
texts — and the heap is shown to implement it. `None` is the document of a target that
is no JSON value.

### JSONPath

`JsonPathLexer` reads UTF-16 units: the two-unit operators, numbers with the
code's leading-zero rule, names, and string literals with surrogate pairs and `\u`
escapes; it also writes normalized paths. A letter unit may stand for a run of letters;
`Words` names the strings of the model, any other string is `OtherString`, and numbers are
a table. `JsonPathEval` has the parser over tokens, with the position at which it goes on
after an alternative failed, and the evaluator: selectors, filters,
comparisons, functions, `meter.visited` the counter of `trackNodeVisit`, the depth
checks and every place where the context is copied; `meter.work` and `meter.reach`
are history: all visits, and the greatest depth. `JsonPathMeaning` defines the RFC's node
lists without any of it: `Ways` counts the ways a query has to a path, `Holds` is a
filter's meaning, with the comparisons of RFC 9535 §2.3.5.2.2 (`Relates`), `Alike` is equality of values as
the greatest bisimulation, so that it is defined on cyclic values. `Departs` says which comparisons the library
answers otherwise (see below), and `DepartingSegments` whether a query meets one. `JsonPathQuerying` is one call of `queryJsonPath`
(returning null or throwing) or of a compiled query: `Parse`, `ApplySegment`,
`Return`. `Written` turns a parsed query back into tokens, which is how
"reads all of it" can be said.

### One call of an API

`OpenApiParameters` is `parameter-serialization.ts`: the seven styles with `explode` and
`allowReserved` in path, query, header and cookie, and the parsers of a raw query
string, of `URLSearchParams` and of single values. What travels is a sequence of symbols, a
character with a mark that says whether it is a percent triplet: that keeps the order of
encoding, splitting and decoding visible without spelling triplets out.
`OpenApiRouting` is the matcher compiled from a document
(`comparePathCandidates`, literal before placeholder, then the text): its entries are *the*
list of the document's paths that is sorted so, and a match is the first entry that fits. `IsDocument` says
of a document what holding it in an object gives: paths have texts of their own, in an
order. It also has the servers of three levels, and the lint rules on templates, parameters and operation ids.
`OpenApiSecurity` is requirement evaluation with its three-valued scopes and verdicts, and
`OpenApiRuntime` runtime expressions, links and callbacks.

`OpenApiCall` composes them: `Prepare` (client: resolve the server, write the
parameter) or `Refuse`, `Route`, `Authorize`, `Extract` (server), then `CallBack`,
`Answer`, or `FollowLink`, which starts a second call whose parameter a runtime
expression took out of the first. That they are called in this order is the
application's part, and so is one choice: the matcher is asked not to decode segments
(`decodePathSegments: false`), since with the default the value would be decoded twice,
once by it and once by `parsePathParameter`.

### A message over several hops

`StructuredFields` is `structured-fields.ts`: the recursive parser, with the rest of the
text as its position, and the serialiser, `Null` where it throws. (`parseSfItem` and
`serializeSfItem` are a list's item alone and have no definition of their own.)
`HeaderText` (`header-utils.ts`) has what the other fields share: tokens, splitting outside quotes, quoted
strings as they are written and leniently read, extended values. `MessageIntegrity` is `http-signatures.ts` and
`digest.ts`: component identifiers, derived components, canonical field values, the base
and the fields. `Forwarding` has the fields a hop adds to, `traceparent` and `tracestate` among them, with
the parameter schemas of `structured-field-schema.ts`.

`MessagePath` is one message: `Compose` (digest and signature), then hops, of which each
may `Reformat` (join the lines of a field, pad a line, fold it at a blank), `Alter`
(another message under the same signature fields, another body with or without its
digest, a signature input read, changed and written back), `Countersign`, `Relay` a
request (`traceparent`, `tracestate`, `Forwarded`) or `RelayBack` a response
(`Proxy-Status`, `Cache-Status`); `Arrive`, `CheckSignatures`, and the digest in two
steps, `StartDigest` and `FinishDigest`, around the `await` of Web Crypto, between which
`ReuseBuffer` may write the body's buffer again. A signature is a name that stands for the
base it was made over; hashes are ideal. Field lines are trimmed when they are read or
joined, as every HTTP library does.

### A web session

`Authentication` has the splitter of challenges and credentials (`auth/shared.ts`), which has
to find out where one scheme ends and the next begins on one line, and
Basic, Bearer, Digest with its response and its proof, and PKCE. `Cookies` has the dates, both
fields both ways, domain and path matching and `buildCookieHeader`.

`WebSession` is a client and the servers of a site. Requests and responses are never removed:
`Serve` may take any of them, late and repeatedly, `Rewrite` is a gateway that changes the method
or the uri, `Renew` a new nonce, `ReceiveRefusal` reads challenges, `ReceiveProof`
checks `Authentication-Info` for the request the client takes it for, `ReceiveCookie` keeps
cookies, `Authorize` and `Redeem` are the two requests of PKCE, `Tick` lets cookies
expire. `ConstantTimeEqual`, the hash and base64 are ideal; server tables, nonces and the jar are
those of an application, as the library's documentation assumes them.
`DigestCredentials` has no nonce in the code, so the server looks the nonce up by
`opaque`.

### A walk through a collection

`Negotiation` is `negotiate.ts`, `language.ts` and `encoding.ts`: weights in thousandths,
the three readers, their orders, and the choices. `Negotiate` returns the cache of parsed
media types with its answer. `Links` is `link.ts`: the writer, and the reader's state machine
symbol by symbol, with `hreflang`, extended values and parameters that are repeated.
In it a URL is one symbol that names its query. `Listing` is `pagination.ts` and `sorting.ts` and the state
around them. A query is a sequence of pairs; a value is a text, a number (its whole part
and whether a fraction follows) or a cursor that holds a value.

| model | code |
|---|---|
| `items`, `removed`; `InsertItem`, `RemoveItem` | the collection; the application's |
| `Serve` | `parsePaginationParams` and `validateSortFields` or a refusal, `applySorting`, the slice (the application's), `buildPaginationLinks`, and the four negotiations, in one synchronous handler |
| `mimeTypes` | `PARSED_MIME_TYPE_CACHE`, which outlives requests |
| `Ask`, `Follow` | a client that sends a query of its own, or one of the links of the last answer |
| `walk` | history: the pages reached by `next` alone, or by `prev` alone, since the last jump, and what came and went meanwhile |

What an item is *worth* in each field (`Worth`), and what spelled preferences
*mean* (`meant`, `Meaning`), is given apart from the texts and objects the code reads, so that the
properties do not repeat the code's own parsing and comparing.

## Runs

| run | what is asked | instance |
|---|---|---|
| `origin_strong` | `NoLostUpdate`: every edit carried out since the last delete is in the content; `CopyMatchesTag`: a copy refreshed by 304 keeps the tag of its own content; `NoResurrection`: a delayed `If-Match` write never revives a deleted resource; `ImplementsAtomicEdits`; `TypeOK` | 2 editors, 1 deleter, 4 instants, one loss, strong tags, revalidation by tag or by tag and date |
| `origin_live` | `EveryEditLands`; `LossWithinOneSecond`: a dated write overwrites only what changed in the second its copy is dated | 2 editors who write by tag or by date, one loss, fairness |
| `range_merge` | `ExactCoverage`, `Separated` | all requests of 1–3 ranges with positions up to 4, sizes 1–3 |
| `range_resume` | `CompleteFile`: at no time are bytes of two versions joined (`OneVersion`), and what is taken for complete is all of one version | 4 versions of 2, 3, 1 and 2 bytes, 6 instants of half a second |
| `robots_wildcard` | `AnswerIsExact`, `WorkBound`, `Returns` | all patterns up to 4 characters of `a b * $`, all paths up to 4 of `a b` |
| `robots_crawler` | `RulesReachTheirAgents`, `RoundTripWithRules`, `AnswersFollowRules` | all files up to 4 lines, 4 agents, 3 visitors, edits up to 2 rules |
| `json_patching` | `CallerUntouched`, `WorkingIsATree`, `ImplementsMeaning` | all patches up to 2 operations over 6 pointers, one of them to a name that needs both escapes, and invalid ones; 28 merge patches on 27 targets; operands that are cyclic, too deep or no JSON |
| `json_path` | `SelectsExactly`, `RefusedOverLimit`, `ReadsWhatIsWritten`, `PathsLeadBack` | 22 queries as text (`SelectsExactly`: but for one on one document, see "What the models showed"), all their prefixes and one-unit deletions, shared and cyclic documents, limits given and defaulted, 3 entries |
| `openapi_call` | `LintedRoutesHome`: a linted document's call reaches its operation whatever the order of the paths; `LintedParametersAreBound`; `ParameterComesBack`; `MoreCredentialsNeverDeny`; `CallbackUrlIsWhole` | every supported style with values of one or two delimiters; sets of templates in every order; requirements of up to two alternatives; callback keys; links followed once |
| `message_path` | `SignedIsVerified`: what was only rewritten verifies; `AcceptedIsWhatWasSigned`: what verifies has the components and values that were signed, so no two sets of values make one base; `AcceptedBodyIsTheSignedBody`; `TraceIsHandedOn`; `ChainIsWhole` | 2 hops; families of fields, derived components, alterations, traces, status fields |
| `web_session` | `ChallengesAreRead`; `OnlyTheSecretIsAccepted` (if and only if); `AnswerIsProven`; `NoCookieStrays` (if and only if); `CookiesComeBack` | families: all pairs of 11 offers on one line or two; 5 Digest variants with 2–3 requests; Basic; 2 codes and 2 tokens; 5 sets of cookies, hosts and paths over 3 instants |
| `listing` | `WalkIsWhole`: who follows links to the end has seen every item that stayed, once and in order, give or take one for each item that went or came; every link of the page is read back as written, whatever parameters it carries, and so is what was read when it is written again, and leads to a page of the same size and order; `AnswerIsPreferred`: type, language and coding are the best acceptable ones, whatever was negotiated before | collections of 0–5 items, two changes, limits 1–3, 10 orders, some 80 queries; all lists of up to two of 14 media ranges against four lists of types, two requests; the same for languages and codings |

### Why the bounds are enough

* **Clients.** A lost update needs a reader, and a writer between its read and
  its write; a resurrection needs a third who deletes. Two editors and a deleter
  is the least in which all happen. The theorems hold for any set.
* **Clock.** `MaxClock = 3` with two ticks in a second has two changes in
  one second and two in different ones, in all orders.
* **Losses.** One loss already separates a request never served, a request served whose
  reply was lost, and a client that gave up with its request still on the way.
  Retries are not bounded by it.
* **Ranges.** Three ranges suffice for an overlap that is only found after
  sorting, and for a merge into a range that was itself merged; position 4 lies
  beyond every size. `range_resume` has a version that grows, one that shrinks below what
  the client has, and one with the size of the first. Two versions never have
  one modification tick: the library compares dates only, and cannot tell them apart.
* **Wildcards.** Four characters hold two stars with text between and after,
  which is the least in which forgetting the first star could matter.
* **Files.** Four lines hold two agents, a rule and a further agent, in any order.
* **Patches.** Two operations give an edit of what the first one added, moved or
  copied, and a failure after a success. Caller's array 1 stands in targets and is
  an operation's value, so that sharing is met. The name `~1%25` becomes another name if any
  two of the three decodings change places.
* **JSONPath.** The default limit of nodes (100 000 in the code) is 60 and that of
  depth (64) is 4; small limits fall below, at and above what the queries need. The
  documents hold one record twice, an object that is its own member, two objects
  that are each other's, and a name with a surrogate pair, a quote and control characters.
* **API calls.** Two segments and three templates have a tie that only a later segment
  breaks, a literal against a placeholder, and a placeholder inside a segment. A value holds
  each delimiter of each style, the percent sign, the plus and the empty text.
* **Hops.** Two hops give a rewriting of what was already rewritten, an alteration after a
  countersignature and before one, and an update of an entry that the hop before moved.
  `tracestate` limits are made small enough for two hops to exceed them.
* **Sessions.** Three Digest requests are a challenge, an answer and an answer with
  the next count or nonce; two responses may be taken for each other. Two cookies that are set
  shadow, replace or miss each other; the clock passes the end of a year, because dates are
  compared field by field in the model and in text.
* **Collections.** Sizes below, at and above one and two full pages, with items that come
  and go before, on and behind the page the client has. The client sends no second query of its own
  in a walk, since a new query begins a new walk. The cache is met by two requests with
  types that differ in their parameters alone. Values of one field are of different kinds, but
  chosen so that the code's comparison is an order on them (see below).

### Fairness

Only two runs assume any. In `origin_live` each client keeps running (weak fairness
of its own steps, retries included) and the origin serves what each client waits
for: the library's handler is a synchronous function that answers every request
it is given, and losses are bounded, so that in the end a retry arrives. The
clients' loop, reading again after 412, is the documented use. No fairness between
clients is assumed: a client is refused only when another's edit has landed, and there are finitely many. In `robots_wildcard` weak fairness
of `Next` says only that a running function keeps running. Everywhere else a run is a
bounded conversation that may stop at any point, so deadlock is not checked.

### What the models showed

Met on the way, and visible in the models as a hypothesis or an exception of a property:

*Conditional requests.*
Revalidation by date alone breaks `CopyMatchesTag`, since a 304 within the second
of a change carries the new tag (hence `RevalidateBy` in `origin_strong`).
`If-Unmodified-Since` proceeds on a resource that is gone (which `NoResurrection`
therefore leaves out).

*robots.txt.* `formatRobotsTxt` writes a group without rules as bare `User-agent` lines,
which run into the next group when read back: an agent with an empty `Disallow` falls under
the next group's rules, although a test is called "round-trips a parsed file"
(`test/robots.test.ts:194`). `RoundTripWithRules` says when it does. Answers
follow the old rules after a compiled group was edited (hence `edited` in `AnswersFollowRules`).

*JSON.* A patch result may be deeper than the limit its operands were checked against. A
JSONPath segment that fails to parse is passed over with the tokens it consumed, so `$[`,
`$.a.` and `$[?@.a` are accepted as `$`, `$.a` and `$`, where the comment at
`src/jsonpath/parser.ts:62` promises null; `ReadsWhatIsWritten` says that well-formed queries
are read in full, and nothing is invented. A filter evaluates each child in a *copy* of the
context (`src/jsonpath/evaluator.ts:670`), so visits made there are forgotten before the next child, and a query answers after
more visits than `maxNodesVisited` allows; `RefusedOverLimit` says what the counter
does guarantee. `compare` answers false to every comparison with Nothing and to `<=` and `>=` of values without
an order (`src/jsonpath/evaluator.ts:823`), under the heading "RFC 9535 §2.3.5.2.2: Comparison semantics", and a
test expects it of `!=` (`test/jsonpath.test.ts:857`). By that section Nothing `==` Nothing holds, `!=` is the negation of
`==`, and `<=` is `<` or `==`, so that `$[?@.a != null]` selects what has no `a`; `docs/reference/rfc-map.md:63` lists
§§2.1-2.7 as implemented. `SelectsExactly` leaves out queries that meet such a comparison. In the run
that is `$[?@[?@] && @ != $[0]]`, with what damage leaves of it, on the document that is an object. The lexer asks for the first character of a name one UTF-16 unit at a
time (`src/jsonpath/lexer.ts:229`), so that `$.😀` is refused; it takes `-0` for
an index, and a low surrogate that stands alone for a character.

*OpenAPI.* Space-delimited arrays are written with `%20` between the items and looked for
with a blank (`src/openapi/parameter-serialization.ts:266` and `:538`), so that
one of two or more items never comes back from a raw query string.
`ignoreTrailingSlash: false` has no effect on matching, and the lint rules do not
report two templates that are equal up to a trailing slash (`Distinct` in
`LintedRoutesHome`). Empty segments are dropped, so that a path parameter whose value is empty makes
a shorter path, which another template may answer (hence the hypothesis on `RequestSegments`
there). A placeholder inside a segment is seen by the lint rules and taken for a
literal by the matcher. With `unknownSchemes: "ignore"` a requirement of unknown schemes only is satisfied.

*Messages.* `deriveFieldValue` ignores `sf` and `key`. `@request-target` drops the first character of a
query that does not begin with `?`. Unknown or mistyped signature parameters are dropped, and the rest
written back in a fixed order; a name in `Proxy-Status` and `Cache-Status` is always written as a token.
`parseParameters` answers null for none and for malformed ones alike.
`verifyDigest` throws for `SHA-256` in capitals, which `isActiveAlgorithm` accepts.

*Sessions.* `DigestCredentials` has no `nonce` (`src/types/auth.ts:74`). Without an algorithm the
response is computed by SHA-256, where RFC 7616 says MD5; `auth-int` throws. PKCE's parser
defaults to `plain`, its verifier to `S256`. A cookie value with a semicolon is quoted, but both
parsers split at semicolons first; a stored cookie whose name is no token makes
`buildCookieHeader` throw; two-digit years turn at 70 in cookies and by a window of 50 years in HTTP dates.

*Listings.* An offset of `Infinity` is a number, and its page has `self` and `prev` links whose cursor is
refused (`IsPage` leaves it out). Links keep only the last value of a parameter that is repeated,
though `extraParams` are to be preserved. `compareValues` compares numbers as numbers and
a number with a text as texts, which is no order on 2, 10 and `"1a"`, say. A language with `q=0`
is still chosen by a wider range that matches it. `parseLinkHeader` passes over a plain `title` that
follows a `title*` it could not decode, although a comment says null is returned there
"to allow fallback to non-extended value". All media ranges with parameters are
equally specific, however many they have.

## What is proved

TLAPS checks these for every value of the constants that the `ASSUME`s of their
modules allow.

* **`ConditionalOrigin_proofs`**, for any set of clients, clock and number of losses.
  * `TypeCorrect`. The part that is not routine is that replies carry a tag and a
    date whenever a client will store them: a 304 can only be sent while the resource exists.
  * `UpdatesSurvive`, `CopiesStayTagged`, `OriginImplementsAtomicEdits`, under
    `TrustedTags`: no client relies on dates alone, and either the hash has no collisions or
    the tags are weak (then strong comparison refuses every `If-Match`). `NoLostUpdate` is not inductive: that the
    content keeps an edit depends on what a request in flight was computed from. The
    inductive invariant `TagInvariant` adds that a write in flight names, in `If-Match`,
    the content its body extends (`KnowsBase`); that a `GET` asks about the copy its client
    still has (`AsksAboutCopy`), so that a 304 refreshes that copy; and that a 304 carries
    the tag it was asked about (`RepliesTruthfully`). The central lemma
    `WriteReplacesItsBase` says a `PUT` that proceeds replaces nothing or exactly its base.
  * `NothingResurrected`, without any of these assumptions.
  * `LossesWithinTheSecond`: a dated write overwrites only changes of the second its copy
    is dated, for any validators and hash. `DatesAreReached` keeps every date that a
    copy or message carries behind the clock, and `DatesStandAlone` says that a client sends
    a date only as the one validator of its copy.
* **`RangeNormalizer_proofs`**, for any size, number of ranges and positions:
  `CoverageIsExact`, `PartsAreSeparated`, from `LoopInvariant`, which also says that the
  ranges still to come start no earlier than the last merged one (what sorting is for).
* **`RangeTransfer_proofs`**, for any number and sizes of versions and any resolution of
  the clock: `TransferTypes`, and `DownloadIsOneVersion` under `TagsTellVersionsApart` (strong tags,
  if the client resumes by tag, differ between versions) and `AbsentAssumption`. The invariant `IInv` says
  that what the client has is a beginning of *one* version, that its
  validators pin down that version and the time it was made (`Holds`), and that a request asks for what
  comes next (`AsksForTheRest`); `MatchMeansSameVersion` is why `If-Range` is then safe,
  dates of one second included. `ContentRangeIsRead` says that a written `Content-Range` is
  read as the numbers it was written with.
* **`RobotsWildcard_proofs`**, for any pattern and path: `MatchIsExact`, `IndicesInside`, `WorkIsBounded`.
  A match is a *cut*, a function that says where in the path the text before each
  character of the glob ends. The invariant's `NothingLost` says that if the rule matches
  at all, it matches from the current position or from a later try of the last star;
  `OnlyCharsSinceStar` that only plain characters lie between the last star and the
  current position. Together they let an earlier star be forgotten: any cut that
  gives an earlier star more can be replaced by one that gives it to the last. `PassPerPlace`
  bounds the work: each place tried costs at most one pass over the glob.
* **`RobotsCrawler_proofs`**, for any agents, visitors, patterns and lengths of files.
  * `RulesAreForTheirAgents` by `ParserInv`: the open group has the agents that
    govern the place the parser has come to, and expects rules if and only if a rule has followed them.
  * `CrawlerTypes` and `IsAllowedFollowsRules` by `CacheInv`: what is compiled for a group that was
    not edited is what compiling it now gives. The lemmas say that compiling sorts by length
    (`SortedRules`), that the first match is a longest one (`FirstMatchIsLongest`), and that the
    search for groups finds those of the best agent (`SearchFinds`).
  * `WrittenFilesAreReadBack`: what `formatRobotsTxt` writes is parsed to the same file, if
    each group has rules. Induction goes over the lines of an agent, a rule and a group in turn
    (`AgentsAreRead`, `RulesAreRead`, `GroupsAreRead`), each step from any state of the parser
    (`State`); `GroupsAreNamed` adds that the parser makes no group without an agent.
* **`OpenApiCall_proofs`**, for any document, credentials, options and values.
  * `AddedCredentialsNeverDeny`, by `AccessInv` (the verdict is the one of the credentials in the
    request, whatever happened since) and the lemma `MoreIsNeverLess`. A document's schemes
    are of the kinds OpenAPI knows (`KnownSchemes`), as the code's types have it.
  * `CallsAreRoutedHome` (`LintedRoutesHome`) and `ParametersOfCleanDocumentsAreBound`
    (`LintedParametersAreBound`), by `RouteInv`: the path is one the template was
    filled for, and the match is the matcher's answer to it. `ComesFirstIsOrder` says that
    `comparePathCandidates` is a strict total order where the order of texts is one, `OrderedListExists` that
    a finite set has a sorted list in any such order, `MatchIsFirst` that the matcher
    therefore answers with the entry that comes before all others that fit. `FirstIsHome` is the
    argument itself: a template that fits, comes first and spells out no value has a placeholder wherever the
    client's has one; one more would come later, and one in the same places would be
    a collision. What is assumed of a document is `IsDocument`.
  * `CallbackUrlsAreWhole` (`CallbackUrlIsWhole`), by `CallbackInv`: the url is what
    `resolveOpenApiCallbackUrl` gave when the call was made, and what it was resolved from
    has not changed. `FilledWell` is what the loop owes at a cursor at the start or after a
    closing brace: issues exactly if the rest of the key is not paired (`PairedFrom`), and otherwise a chunk for
    each plain token, at the place that the number of plain tokens before it gives.
    `FillStep` proves it for one turn of the loop from what holds at later cursors, with a case for each
    way the turn can end, and `TemplateFilledWell` goes from the end of the key to
    its start. The key is any finite sequence of tokens.

* **`JsonPatching_proofs`**, for any objects of a caller, with any sharing, and any targets, patches,
  merge patches and limit of depth: `CallerUntouchedHolds` and `WorkingIsATreeHolds`, by `IInv`.
  * Neither property is inductive. What makes them so is said of the whole heap, garbage included
    (`Sound`): no object that the code made leads to one of the caller's (`OwnItems`), and each is held in
    one place at most (`HeldOnce`); and the working document's root is held nowhere (`Loose`).
    A tree follows since two paths to one object would have the same last holder, and so on up to the root
    (`PathsAreOne`).
  * Every step is one of two kinds. It extends the heap by new nodes (`Extended`): `CloneIsNew` says
    that a copy leads to new nodes only, once to each, since each place has a node of its own;
    `NextTargetIsNew` says it of what a merge begins with. Or it edits one node (`Edited`), which may
    keep items and take one value that is held nowhere. So `add` may take a copy (`AddKeeps`, `CopyIsAdded`), and
    `move` a value only because its removal, which comes first, leaves it held nowhere (`RemoveKeeps`). Shifted items of
    an array are covered by what inserting and removing do (`InsertedIs`, `RemovedIs`).
  * `ParsedFits` carries this through `parseJsonPatch`, and `MergedIsNew` through the members of a
    merge patch. Assumed is `CallerAssumption`, that a caller's objects refer to objects it has, and
    `PointerAssumption`, that the texts of the instance parse to reference tokens of the instance.

Induction over numbers is done by hand, from the least element of a set of naturals
(`LeastNat`, `InductionOver`), since the library's theorem takes an operator; that a
recursive function exists and obeys its equation follows from it (`RecursionExists`, `FillingExists`).

**Only model-checked.** Liveness (`EveryEditLands`, `Returns`), which needs reasoning
about `ENABLED`. `ImplementsMeaning`, which says what documents the JSON operations make. All properties of the JSONPath, structured field, message, session and
listing modules: their readers, writers and evaluators are `RECURSIVE` operators as
the code's are recursive functions, which the prover does not take, and what they compute needs induction
over data. `ParameterComesBack`, for the reason in the plan.

## What is not modelled

* **Characters that no property tells apart.** Runs of letters are one symbol where only
  their being letters matters; percent-encoding is a mark on a character, or a table of
  triplets for the characters a model uses; a pointer's fragment encodes `%` only.
* **Text that conditional requests, ranges and robots.txt read.** Tags, dates, ranges and
  patterns are given parsed; `parseHTTPDate`'s three syntaxes, the percent-normalisation of robots
  paths are left out.
* **Regular expressions.** `match` and `search` use a table of which strings a
  pattern fits and which patterns the heuristics call unsafe.
* **Hashes, signatures, random numbers.** `generateETag`'s hash is a constant; Web Crypto's are ideal, and
  that random ids are fresh is not a property. A 32-bit
  djb2 hash does have collisions: `NoCollision` is a hypothesis and listed as a hazard.
* **What rewriting a message can break.** A field is folded at blanks and outside signature and
  digest fields only. Components wrapped in binary do not survive rewriting, which is what they are
  for, and a blank first or last line loses its separator when lines are joined; `Fragile` names
  both. No run has an extension parameter with the name of an inherited property, which the status fields drop.
* **In OpenAPI**: the walk over extension prefixes, component keys, switching rules off and the
  wording of diagnostics, `resolveServerUrlReference`.
* **Multipart bodies, streaming, serialisers that are `JSON.stringify`.**
* **WebAuthn**, whose checks are of binary structures and signatures of the platform, and `ni.ts`.
* **In listings**: `toCSV`, several `Accept` lines, language subtags of more than eight characters, `localeCompare`
  beyond a given order of texts.
* **The components the inventory's last row lists**: stateless conversions of
  single fields or documents, for which a property-based
  test of the round trip says more than a state machine.

## Running

    tlc -config MCOriginStrong.cfg ConditionalOrigin
    tlapm ConditionalOrigin_proofs.tla

`PROJECT.json` maps every definition to the lines it models, names for every property
a plausible bug of the code that breaks it (the definitions marked *Mutant* in the
modules, which nothing else uses), and lists runs, hazards, findings and theorems.
