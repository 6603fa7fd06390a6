---------------------------- MODULE RobotsCrawler ----------------------------
(* robots.txt: parseRobotsTxt and formatRobotsTxt, and a crawler on them: it  *)
(* parses a file, asks isAllowed for several user agents, may edit the groups *)
(* it holds, and fetches the file again.                                      *)
(*                                                                            *)
(* The parser reads one line at a time and keeps an open group.  A line is    *)
(* [field, value] with the comment and the spaces gone; a line the parser     *)
(* skips (blank, comment, no colon, over 500 bytes, another field) has the    *)
(* field "other".  A group is an object: it is known by its index in          *)
(* config.groups, its arrays can be edited by the caller, and the cache of    *)
(* compiled groups knows it by identity and lives as long as it does.  How a  *)
(* pattern matches a path is the business of RobotsWildcard.                  *)
EXTENDS Integers, SequencesExt

CONSTANTS
    Agent,          \* values of User-agent lines: product tokens and "*"
    Pattern,        \* values of Allow and Disallow lines: patterns
    Delay,          \* values of Crawl-delay lines that parse to a number >= 0
    Url,            \* values of Sitemap and Host lines
    Empty,          \* the empty value; for Crawl-delay any value that is no delay
    Null,           \* no open group, no delay, no host, no file, not compiled
    Star,           \* the agent "*"
    TokenLength,    \* the lengths of the other agents
    Visitor,        \* user agents that ask
    TokensIn,       \* the tokens that are substrings of a user agent
    PatternLength,  \* effectiveLength of a pattern
    Path,           \* the paths asked for
    PathsOf,        \* the paths a pattern matches
    MaxLines,       \* bound on the length of a file
    MaxRules        \* bound on the rules up to which a caller adds some

ASSUME RobotsCrawlerAssumption ==
    /\ Star \in Agent
    /\ TokenLength \in [Agent \ {Star} -> Nat]
    /\ TokensIn \in [Visitor -> SUBSET (Agent \ {Star})]
    /\ PatternLength \in [Pattern -> Nat]
    /\ PathsOf \in [Pattern -> SUBSET Path]
    /\ {MaxLines, MaxRules} \subseteq Nat
    /\ Empty \notin Pattern /\ Empty \notin Delay

Group ==
    [agents : Seq(Agent), allow : Seq(Pattern), disallow : Seq(Pattern),
     delay : {Null} \cup Delay]
Compiled == [allow : Seq(Pattern), disallow : Seq(Pattern)]

ASSUME AbsentAssumption ==
    /\ Null \notin Group /\ Null \notin Compiled /\ Null \notin Seq(Group)
    /\ Null \notin Delay /\ Null \notin Url

-----------------------------------------------------------------------------
(* parseRobotsTxt.                                                            *)

Line ==
    [field : {"user-agent"}, value : Agent]
    \cup [field : {"allow", "disallow"}, value : Pattern \cup {Empty}]
    \cup [field : {"crawl-delay"}, value : Delay \cup {Empty}]
    \cup [field : {"sitemap", "host"}, value : Url]
    \cup [field : {"other"}, value : {Empty}]

IsRuleLine(line) == line.field \in {"allow", "disallow", "crawl-delay"}

NewGroup(agent) ==
    [agents |-> <<agent>>, allow |-> <<>>, disallow |-> <<>>, delay |-> Null]

(* The parser's variables: the closed groups, the open one, whether the open  *)
(* group has seen a rule, and what belongs to no group.                       *)
Start ==
    [groups |-> <<>>, open |-> Null, expectingRules |-> FALSE,
     sitemaps |-> <<>>, host |-> Null]

(* A User-agent line after a rule closes the open group; before any rule it   *)
(* adds an agent to it.                                                       *)
UserAgentLine(state, agent) ==
    IF state.open = Null THEN [state EXCEPT !.open = NewGroup(agent)]
    ELSE IF state.expectingRules
    THEN [state EXCEPT !.groups = Append(@, state.open),
                       !.open = NewGroup(agent),
                       !.expectingRules = FALSE]
    ELSE [state EXCEPT !.open.agents = Append(@, agent)]

Rule(group, line) ==
    IF line.value = Empty THEN group
    ELSE CASE line.field = "allow" -> [group EXCEPT !.allow = Append(@, line.value)]
           [] line.field = "disallow" -> [group EXCEPT !.disallow = Append(@, line.value)]
           [] line.field = "crawl-delay" -> [group EXCEPT !.delay = line.value]

(* Mutant: an empty rule is skipped altogether. *)
EmptyRuleLineIgnored(state, line) ==
    IF state.open = Null \/ line.value = Empty THEN state
    ELSE [state EXCEPT !.open = Rule(@, line), !.expectingRules = TRUE]
(* A rule outside a group is dropped; an empty one still ends the agents.     *)
RuleLine(state, line) ==
    IF state.open = Null THEN state
    ELSE [state EXCEPT !.open = Rule(@, line), !.expectingRules = TRUE]

ParseLine(state, line) ==
    CASE line.field = "user-agent" -> UserAgentLine(state, line.value)
      [] IsRuleLine(line) -> RuleLine(state, line)
      [] line.field = "sitemap" -> [state EXCEPT !.sitemaps = Append(@, line.value)]
      [] line.field = "host" -> [state EXCEPT !.host = line.value]
      [] OTHER -> state

Config(state) ==
    [groups |-> IF state.open = Null THEN state.groups
                ELSE Append(state.groups, state.open),
     sitemaps |-> state.sitemaps,
     host |-> state.host]

(* The parser's variables after each line. *)
ParsedLines(lines) ==
    LET parsed[k \in 0..Len(lines)] ==
            IF k = 0 THEN Start ELSE ParseLine(parsed[k - 1], lines[k])
    IN  parsed

ParseRobotsTxt(lines) == Config(ParsedLines(lines)[Len(lines)])

-----------------------------------------------------------------------------
(* formatRobotsTxt.  The blank lines it writes between groups are lines the   *)
(* parser skips.                                                              *)

Lines(field, values) == [k \in DOMAIN values |-> [field |-> field, value |-> values[k]]]

(* Mutant: the crawl delay comes before the group it belongs to. *)
GroupLinesDelayFirst(group) ==
    (IF group.delay = Null THEN <<>> ELSE Lines("crawl-delay", <<group.delay>>))
    \o Lines("user-agent", group.agents)
    \o Lines("allow", group.allow)
    \o Lines("disallow", group.disallow)
GroupLines(group) ==
    Lines("user-agent", group.agents)
    \o Lines("allow", group.allow)
    \o Lines("disallow", group.disallow)
    \o (IF group.delay = Null THEN <<>> ELSE Lines("crawl-delay", <<group.delay>>))

FormatRobotsTxt(config) ==
    FlattenSeq([k \in DOMAIN config.groups |-> GroupLines(config.groups[k])])
    \o Lines("sitemap", config.sitemaps)
    \o (IF config.host = Null THEN <<>> ELSE Lines("host", <<config.host>>))

-----------------------------------------------------------------------------
(* matchUserAgent.                                                            *)

(* The longest token of the group in the user agent, 0 without one.           *)
BestMatchForGroup(group, visitor) ==
    Max({0} \cup {TokenLength[t] : t \in ToSet(group.agents) \cap TokensIn[visitor]})

(* Mutant: a longer match joins the shorter ones found before it. *)
LongerMatchJoins(groups, visitor, found, k) ==
    LET length == BestMatchForGroup(groups[k], visitor)
    IN  [best |-> Max({length, found.best}),
         matching |-> IF length = 0 \/ length < found.best THEN found.matching
                      ELSE Append(found.matching, k),
         wildcard |-> IF Star \in ToSet(groups[k].agents)
                      THEN Append(found.wildcard, k) ELSE found.wildcard]
(* One iteration of the loop over the groups: a longer match starts the list  *)
(* of matching groups anew, an equal one joins it.                            *)
SearchGroup(groups, visitor, found, k) ==
    LET length == BestMatchForGroup(groups[k], visitor)
    IN  [best |-> Max({length, found.best}),
         matching |-> CASE length > found.best -> <<k>>
                        [] length = found.best /\ length > 0 -> Append(found.matching, k)
                        [] OTHER -> found.matching,
         wildcard |-> IF Star \in ToSet(groups[k].agents)
                      THEN Append(found.wildcard, k) ELSE found.wildcard]

(* What the loop has found after k groups.                                    *)
Searched(groups, visitor) ==
    LET found[k \in 0..Len(groups)] ==
            IF k = 0 THEN [best |-> 0, matching |-> <<>>, wildcard |-> <<>>]
            ELSE SearchGroup(groups, visitor, found[k - 1], k)
    IN  found

(* The indices of the groups for the user agent; none if nothing matches.     *)
MatchingGroups(groups, visitor) ==
    LET found == Searched(groups, visitor)[Len(groups)]
    IN  IF found.matching # <<>> THEN found.matching ELSE found.wildcard

(* What mergeMatchingGroups makes of several groups: a new object.            *)
MergeMatchingGroups(groups, matching) ==
    [agents |-> FlattenSeq([i \in DOMAIN matching |-> groups[matching[i]].agents]),
     allow |-> FlattenSeq([i \in DOMAIN matching |-> groups[matching[i]].allow]),
     disallow |-> FlattenSeq([i \in DOMAIN matching |-> groups[matching[i]].disallow]),
     delay |-> LET given == {i \in DOMAIN matching : groups[matching[i]].delay # Null}
               IN  IF given = {} THEN Null ELSE groups[matching[Min(given)]].delay]

-----------------------------------------------------------------------------
(* getCompiledGroup and isAllowed.                                            *)

(* The place of a pattern in rules that are sorted: after all that are no     *)
(* shorter, as a stable sort by length has it.                                *)
PlaceOf(sorted, pattern) ==
    Min({Len(sorted) + 1} \cup
        {i \in DOMAIN sorted : PatternLength[sorted[i]] < PatternLength[pattern]})

Sorted(rules) ==
    LET sorted[k \in 0..Len(rules)] ==
            IF k = 0 THEN <<>>
            ELSE InsertAt(sorted[k - 1], PlaceOf(sorted[k - 1], rules[k]), rules[k])
    IN  sorted[Len(rules)]

(* The rules, longest first, so that the first match is the longest.          *)
Compile(group) == [allow |-> Sorted(group.allow), disallow |-> Sorted(group.disallow)]

FirstMatch(rules, path) ==
    LET matching == {i \in DOMAIN rules : path \in PathsOf[rules[i]]}
    IN  IF matching = {} THEN -1 ELSE PatternLength[rules[Min(matching)]]

Verdict(compiled, path) ==
    FirstMatch(compiled.allow, path) >= FirstMatch(compiled.disallow, path)

(* The cache is consulted for a group of the file; a merged group is a new    *)
(* object at every call and never found.                                      *)
CompiledFor(groups, cache, matching) ==
    IF Len(matching) > 1 THEN Compile(MergeMatchingGroups(groups, matching))
    ELSE IF cache[matching[1]] # Null THEN cache[matching[1]]
    ELSE Compile(groups[matching[1]])

IsAllowed(groups, cache, visitor, path) ==
    LET matching == MatchingGroups(groups, visitor)
    IN  matching = <<>> \/ Verdict(CompiledFor(groups, cache, matching), path)

-----------------------------------------------------------------------------

VARIABLES
    text,     \* history: the lines read so far
    parser,   \* the parser's variables
    groups,   \* config.groups, Null while the file is read
    cache,    \* COMPILED_ROBOTS_GROUPS at these groups
    edited    \* history: the groups edited after they were compiled

vars == <<text, parser, groups, cache, edited>>

Init ==
    /\ text = <<>> /\ parser = Start
    /\ groups = Null /\ cache = <<>> /\ edited = {}

ReadLine(line) ==
    /\ groups = Null
    /\ Len(text) < MaxLines
    /\ text' = Append(text, line)
    /\ parser' = ParseLine(parser, line)
    /\ UNCHANGED <<groups, cache, edited>>

(* parseRobotsTxt returns new objects, which the cache has never seen; its    *)
(* variables are gone.                                                        *)
EndOfFile ==
    /\ groups = Null
    /\ groups' = Config(parser).groups
    /\ cache' = [k \in DOMAIN groups' |-> Null]
    /\ text' = <<>> /\ parser' = Start
    /\ UNCHANGED edited

(* The file is read again; the old groups and what was compiled from them go. *)
Fetch ==
    /\ groups # Null
    /\ groups' = Null /\ cache' = <<>> /\ edited' = {}
    /\ UNCHANGED <<text, parser>>

RuleCount ==
    FoldLeft(LAMBDA n, group : n + Len(group.allow) + Len(group.disallow), 0, groups)

(* The caller pushes a pattern onto a group's allow or disallow array.        *)
AddRule(k, pattern) ==
    /\ groups # Null /\ k \in DOMAIN groups
    /\ RuleCount < MaxRules
    /\ \/ groups' = [groups EXCEPT ![k].allow = Append(@, pattern)]
       \/ groups' = [groups EXCEPT ![k].disallow = Append(@, pattern)]
    /\ edited' = IF cache[k] = Null THEN edited ELSE edited \cup {k}
    /\ UNCHANGED <<text, parser, cache>>

(* isAllowed compiles the one group that governs the visitor, unless it was   *)
(* compiled before.                                                           *)
Ask(visitor) ==
    LET matching == IF groups = Null THEN <<>> ELSE MatchingGroups(groups, visitor)
    IN  /\ matching # <<>>
        /\ cache' = IF Len(matching) > 1 THEN cache
                    ELSE [cache EXCEPT ![matching[1]] = CompiledFor(groups, cache, matching)]
        /\ UNCHANGED <<text, parser, groups, edited>>

Next ==
    \/ \E line \in Line : ReadLine(line)
    \/ EndOfFile
    \/ Fetch
    \/ \E k \in 1..MaxLines, pattern \in Pattern : AddRule(k, pattern)
    \/ \E visitor \in Visitor : Ask(visitor)

Spec == Init /\ [][Next]_vars

Parser ==
    [groups : Seq(Group), open : {Null} \cup Group, expectingRules : BOOLEAN,
     sitemaps : Seq(Url), host : {Null} \cup Url]

TypeOK ==
    /\ text \in Seq(Line) /\ parser \in Parser
    /\ groups \in {Null} \cup Seq(Group)
    /\ cache \in Seq({Null} \cup Compiled)
    /\ groups # Null => Len(cache) = Len(groups)
    /\ edited \subseteq DOMAIN cache

-----------------------------------------------------------------------------
(* Properties.                                                                *)

(* What a rule line means, said of the file and not of the parser: the rule   *)
(* at line r is for the agent named at line a if no rule and later agent lie  *)
(* between the two, in this order.                                            *)
Governs(a, r) ==
    /\ text[a].field = "user-agent" /\ a < r
    /\ ~\E j, k \in (a + 1)..(r - 1) :
          j < k /\ IsRuleLine(text[j]) /\ text[k].field = "user-agent"

RulesInText ==
    {<<text[p[1]].value, text[p[2]].field, text[p[2]].value>> :
        p \in {q \in (DOMAIN text) \X (DOMAIN text) :
            /\ text[q[2]].field \in {"allow", "disallow"}
            /\ text[q[2]].value # Empty
            /\ Governs(q[1], q[2])}}

RulesInConfig ==
    LET RulesOf(group, field, patterns) ==
            {<<agent, field, pattern>> : agent \in ToSet(group.agents), pattern \in ToSet(patterns)}
    IN  UNION {RulesOf(group, "allow", group.allow)
               \cup RulesOf(group, "disallow", group.disallow) : group \in ToSet(Config(parser).groups)}

(* Every rule reaches exactly the agents of the block it stands under, also   *)
(* when blocks have several agents or only empty rules: the interplay of      *)
(* currentGroup and expectingRules in parseRobotsTxt.                         *)
RulesReachTheirAgents == RulesInConfig = RulesInText

(* formatRobotsTxt writes a file that parseRobotsTxt reads back as the same   *)
(* configuration, as test/robots.test.ts:194 asks ("round-trips a parsed      *)
(* file").                                                                    *)
RoundTrip == ParseRobotsTxt(FormatRobotsTxt(Config(parser))) = Config(parser)

HasRule(group) == group.allow # <<>> \/ group.disallow # <<>> \/ group.delay # Null

(* The round trip holds when every group but the last has a rule to write:    *)
(* formatRobotsTxt drops the empty Disallow that kept a group apart.          *)
RoundTripWithRules ==
    (\A k \in DOMAIN Config(parser).groups :
        k < Len(Config(parser).groups) => HasRule(Config(parser).groups[k]))
    => RoundTrip

(* RFC 9309 2.2.1 of the names and not of the search: the groups that govern a *)
(* visitor name the longest token in it; without any, those that name "*".    *)
Named(visitor) ==
    (UNION {ToSet(groups[k].agents) : k \in DOMAIN groups}) \cap TokensIn[visitor]
GoverningTokens(visitor) ==
    IF \A t \in Named(visitor) : TokenLength[t] = 0 THEN {Star}
    ELSE {t \in Named(visitor) : \A u \in Named(visitor) : TokenLength[u] <= TokenLength[t]}
Governing(visitor) ==
    {k \in DOMAIN groups : ToSet(groups[k].agents) \cap GoverningTokens(visitor) # {}}

(* RFC 9309 2.2.2 of the rules and not of their order: a path is allowed iff  *)
(* every rule against it is met by a rule for it that is no shorter.          *)
Permitted(visitor, path) ==
    LET for == UNION {ToSet(groups[k].allow) : k \in Governing(visitor)}
        against == UNION {ToSet(groups[k].disallow) : k \in Governing(visitor)}
    IN  \A d \in against : path \in PathsOf[d] =>
            \E a \in for : path \in PathsOf[a] /\ PatternLength[a] >= PatternLength[d]

Answer(visitor, path) == IsAllowed(groups, cache, visitor, path)

(* isAllowed gives every visitor the answer of the rules, whatever the order  *)
(* of the groups, tokens and rules and however often it was asked, as long as *)
(* no governing group was edited after it was compiled.                       *)
AnswersFollowRules ==
    groups # Null =>
    \A visitor \in Visitor, path \in Path :
        Governing(visitor) \cap edited = {} =>
            (Answer(visitor, path) <=> Permitted(visitor, path))
=============================================================================
