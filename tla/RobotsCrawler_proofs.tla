------------------------ MODULE RobotsCrawler_proofs ------------------------
(* What parseRobotsTxt reads and what isAllowed answers, for every file,     *)
(* every set of agents and patterns, and every order of calls.               *)
EXTENDS RobotsCrawler, TLAPS, NaturalsInduction, WellFoundedInduction

-----------------------------------------------------------------------------
(* The parser.  Its variables say of the lines read so far which agents the  *)
(* next rule is for, and whether they have a rule already.                   *)

IsAgentLine(line) == line.field = "user-agent"

(* The lines that name the agents a rule would be for if it came next.       *)
Current == {a \in DOMAIN text : Governs(a, Len(text) + 1)}

RuleSince(a) == \E j \in (a + 1)..Len(text) : IsRuleLine(text[j])

NoAgentNoGroup == parser.open = Null => Current = {} /\ ~parser.expectingRules

AgentsAreCurrent ==
    parser.open # Null => ToSet(parser.open.agents) = {text[a].value : a \in Current}

ExpectingIsRuleSince == \A a \in Current : RuleSince(a) <=> parser.expectingRules

RulesAreExpected ==
    parser.open # Null /\ ~parser.expectingRules =>
        parser.open.allow = <<>> /\ parser.open.disallow = <<>>

ParserInv ==
    /\ text \in Seq(Line) /\ parser \in Parser
    /\ NoAgentNoGroup /\ AgentsAreCurrent /\ ExpectingIsRuleSince /\ RulesAreExpected
    /\ RulesReachTheirAgents

(* The rules of a group, with the agents they are for.                       *)
GroupRules(group) ==
    {<<agent, "allow", pattern>> : agent \in ToSet(group.agents), pattern \in ToSet(group.allow)}
    \cup {<<agent, "disallow", pattern>> :
            agent \in ToSet(group.agents), pattern \in ToSet(group.disallow)}

(* The rules of a file whose groups are given one by one.                    *)
ClosedRules == UNION {GroupRules(group) : group \in ToSet(parser.groups)}

LEMMA AppendToSet ==
    ASSUME NEW S, NEW s \in Seq(S), NEW e
    PROVE  /\ DOMAIN Append(s, e) = 1..(Len(s) + 1)
           /\ \A i \in 1..Len(s) : Append(s, e)[i] = s[i]
           /\ Append(s, e)[Len(s) + 1] = e
           /\ ToSet(Append(s, e)) = ToSet(s) \cup {e}
<1>1. /\ DOMAIN Append(s, e) = 1..(Len(s) + 1) /\ DOMAIN s = 1..Len(s) /\ Len(s) \in Nat
      /\ \A i \in 1..Len(s) : Append(s, e)[i] = s[i]
      /\ Append(s, e)[Len(s) + 1] = e
  OBVIOUS
<1>2. 1..(Len(s) + 1) = (1..Len(s)) \cup {Len(s) + 1}
  BY <1>1
<1> QED BY <1>1, <1>2 DEF ToSet

LEMMA ConfigRules ==
    parser \in Parser =>
        RulesInConfig =
            ClosedRules \cup (IF parser.open = Null THEN {} ELSE GroupRules(parser.open))
<1> SUFFICES ASSUME parser \in Parser
    PROVE  RulesInConfig =
             ClosedRules \cup (IF parser.open = Null THEN {} ELSE GroupRules(parser.open))
  OBVIOUS
<1>1. parser.groups \in Seq(Group) /\ (parser.open # Null => parser.open \in Group)
  BY DEF Parser
<1>2. ToSet(Config(parser).groups) =
        ToSet(parser.groups) \cup (IF parser.open = Null THEN {} ELSE {parser.open})
  BY <1>1, AppendToSet DEF Config
<1>3. RulesInConfig = UNION {GroupRules(group) : group \in ToSet(Config(parser).groups)}
  BY DEF RulesInConfig, GroupRules
<1> QED BY <1>2, <1>3 DEF ClosedRules

(* What one more line changes: the rules it stands for, and whom the next    *)
(* rule would be for.                                                        *)
LEMMA OneMoreLine ==
    ASSUME text \in Seq(Line), NEW line \in Line, text' = Append(text, line)
    PROVE  /\ DOMAIN text' = 1..(Len(text) + 1) /\ Len(text') = Len(text) + 1
           /\ \A i \in 1..Len(text) : text'[i] = text[i]
           /\ text'[Len(text) + 1] = line
           /\ \A a \in 1..Len(text), r \in 1..(Len(text) + 1) : Governs(a, r)' <=> Governs(a, r)
<1>1. /\ DOMAIN text' = 1..(Len(text) + 1) /\ Len(text') = Len(text) + 1
      /\ \A i \in 1..Len(text) : text'[i] = text[i]
      /\ text'[Len(text) + 1] = line
  OBVIOUS
<1>2. ASSUME NEW a \in 1..Len(text), NEW r \in 1..(Len(text) + 1)
      PROVE  Governs(a, r)' <=> Governs(a, r)
  <2>1. \A j \in (a + 1)..(r - 1) : text'[j] = text[j]
    BY <1>1
  <2>2. text'[a] = text[a]
    BY <1>1
  <2> QED BY <2>1, <2>2 DEF Governs
<1> QED BY <1>1, <1>2

(* The agents the next rule would be for, after one more line.               *)
LEMMA CurrentAfterLine ==
    ASSUME text \in Seq(Line), NEW line \in Line, text' = Append(text, line)
    PROVE  Current' = {a \in Current : ~(IsAgentLine(line) /\ RuleSince(a))}
                      \cup (IF IsAgentLine(line) THEN {Len(text) + 1} ELSE {})
<1> DEFINE last == Len(text) + 1
<1>1. /\ DOMAIN text' = 1..last /\ Len(text') = last /\ last \in Nat
      /\ \A i \in 1..Len(text) : text'[i] = text[i]
      /\ text'[last] = line /\ Len(text) \in Nat
      /\ \A a \in 1..Len(text), r \in 1..last : Governs(a, r)' <=> Governs(a, r)
  BY OneMoreLine
<1> HIDE DEF last
<1>2. ASSUME NEW a \in 1..Len(text)
      PROVE  a \in Current' <=> a \in Current /\ ~(IsAgentLine(line) /\ RuleSince(a))
  <2> DEFINE Turns(j, k) == j < k /\ IsRuleLine(text[j]) /\ IsAgentLine(text[k])
             Later(j, k) == j < k /\ IsRuleLine(text'[j]) /\ IsAgentLine(text'[k])
  <2>1. a \in Current <=>
          IsAgentLine(text[a]) /\ ~\E j, k \in (a + 1)..Len(text) : Turns(j, k)
    BY <1>1 DEF Current, Governs, IsAgentLine, last
  <2>2. a \in Current' <=>
          IsAgentLine(text'[a]) /\ ~\E j, k \in (a + 1)..last : Later(j, k)
    BY <1>1 DEF Current, Governs, IsAgentLine, last
  <2>3. \A j, k \in (a + 1)..Len(text) : Turns(j, k) <=> Later(j, k)
    BY <1>1
  <2>4. \A j \in (a + 1)..Len(text) :
          Later(j, last) <=> IsRuleLine(text[j]) /\ IsAgentLine(line)
    BY <1>1 DEF last
  <2>5. \A j, k \in (a + 1)..last :
          Later(j, k) => j \in (a + 1)..Len(text) /\ (k \in (a + 1)..Len(text) \/ k = last)
    BY <1>1 DEF last
  <2>6. (a + 1)..Len(text) \subseteq (a + 1)..last /\ last \in (a + 1)..last
    BY <1>1 DEF last
  <2> HIDE DEF Turns, Later
  <2>7. (\E j, k \in (a + 1)..last : Later(j, k)) <=>
          \/ \E j, k \in (a + 1)..Len(text) : Turns(j, k)
          \/ IsAgentLine(line) /\ RuleSince(a)
    BY <2>3, <2>4, <2>5, <2>6 DEF RuleSince
  <2> QED BY <1>1, <2>1, <2>2, <2>7
<1>3. last \in Current' <=> IsAgentLine(line)
  BY <1>1 DEF Current, Governs, IsAgentLine, last
<1> QED BY <1>1, <1>2, <1>3 DEF Current

LEMMA RuleSinceAfterLine ==
    ASSUME text \in Seq(Line), NEW line \in Line, text' = Append(text, line),
           NEW a \in 1..(Len(text) + 1)
    PROVE  RuleSince(a)' <=> RuleSince(a) \/ (a \in 1..Len(text) /\ IsRuleLine(line))
BY OneMoreLine DEF RuleSince

(* The rules of the text, after one more line.                               *)
Written(line) == line.field \in {"allow", "disallow"} /\ line.value # Empty
For(agentLine, line) == <<agentLine.value, line.field, line.value>>

LEMMA RuleInText ==
    ASSUME NEW x
    PROVE  x \in RulesInText <=> \E a, r \in DOMAIN text :
             x = For(text[a], text[r]) /\ Written(text[r]) /\ Governs(a, r)
<1> DEFINE Pairs == (DOMAIN text) \X (DOMAIN text)
<1>1. x \in RulesInText <=> \E p \in Pairs :
        x = For(text[p[1]], text[p[2]]) /\ Written(text[p[2]]) /\ Governs(p[1], p[2])
  BY DEF RulesInText, For, Written
<1>2. \A a, r \in DOMAIN text : <<a, r>> \in Pairs /\ <<a, r>>[1] = a /\ <<a, r>>[2] = r
  OBVIOUS
<1>3. \A p \in Pairs : p[1] \in DOMAIN text /\ p[2] \in DOMAIN text
  OBVIOUS
<1> HIDE DEF Pairs
<1> QED BY <1>1, <1>2, <1>3

LEMMA RulesAfterLine ==
    ASSUME text \in Seq(Line), NEW line \in Line, text' = Append(text, line)
    PROVE  RulesInText' = RulesInText \cup
             (IF Written(line) THEN {For(text[a], line) : a \in Current} ELSE {})
<1> DEFINE last == Len(text) + 1
<1>1. /\ DOMAIN text' = 1..last /\ DOMAIN text = 1..Len(text) /\ last \in Nat
      /\ \A i \in 1..Len(text) : text'[i] = text[i]
      /\ text'[last] = line /\ Len(text) \in Nat
      /\ \A a \in 1..Len(text), r \in 1..last : Governs(a, r)' <=> Governs(a, r)
  BY OneMoreLine
<1>2. \A a, r \in 1..last : Governs(a, r)' => a \in 1..Len(text)
  BY <1>1 DEF Governs
<1>3. \A a \in 1..Len(text) : Governs(a, last) <=> a \in Current
  BY <1>1 DEF Current
<1>4. \A r \in 1..last : r \in 1..Len(text) \/ r = last
  BY <1>1
<1>5. last \in 1..last /\ 1..Len(text) \subseteq 1..last /\ Current \subseteq 1..Len(text)
  BY <1>1 DEF Current
<1> HIDE DEF last
<1>6. ASSUME NEW x
      PROVE  x \in RulesInText' <=>
               \/ x \in RulesInText
               \/ Written(line) /\ \E a \in Current : x = For(text[a], line)
  <2>1. x \in RulesInText' <=> \E a, r \in 1..last :
          x = For(text'[a], text'[r]) /\ Written(text'[r]) /\ Governs(a, r)'
    <3>1. (x \in RulesInText <=> \E a, r \in DOMAIN text :
             x = For(text[a], text[r]) /\ Written(text[r]) /\ Governs(a, r))'
      BY RuleInText, PTL
    <3> QED BY <3>1, <1>1
  <2>2. (\E a, r \in 1..last :
            x = For(text'[a], text'[r]) /\ Written(text'[r]) /\ Governs(a, r)')
        <=> \E a \in 1..Len(text), r \in 1..last :
            x = For(text[a], text'[r]) /\ Written(text'[r]) /\ Governs(a, r)
    BY <1>1, <1>2, <1>5
  <2>3. (\E a \in 1..Len(text), r \in 1..last :
            x = For(text[a], text'[r]) /\ Written(text'[r]) /\ Governs(a, r))
        <=> \/ \E a, r \in 1..Len(text) :
                 x = For(text[a], text[r]) /\ Written(text[r]) /\ Governs(a, r)
            \/ \E a \in 1..Len(text) :
                 x = For(text[a], line) /\ Written(line) /\ Governs(a, last)
    BY <1>1, <1>4, <1>5
  <2> QED BY <2>1, <2>2, <2>3, <1>1, <1>3, <1>5, RuleInText
<1> QED BY <1>6

(* A line that is neither: nothing is said of the agents.                    *)
LEMMA OtherLineStep ==
    ASSUME ParserInv, NEW line \in Line, text' = Append(text, line), parser' \in Parser,
           ~IsAgentLine(line),
           parser'.groups = parser.groups, parser'.open = parser.open,
           parser'.expectingRules = parser.expectingRules,
           IsRuleLine(line) => Current = {}, Written(line) => Current = {}
    PROVE  ParserInv'
<1>1. text' \in Seq(Line) /\ text \in Seq(Line) /\ parser \in Parser
  BY DEF ParserInv
<1>2. Current' = Current /\ Current \subseteq 1..Len(text)
      /\ \A a \in 1..Len(text) : text'[a] = text[a]
  BY <1>1, CurrentAfterLine, OneMoreLine DEF Current
<1>3. \A a \in Current : RuleSince(a)' <=> RuleSince(a)
  BY <1>1, <1>2, RuleSinceAfterLine
<1>4. RulesInText' = RulesInText
  BY <1>1, RulesAfterLine
<1>5. RulesInConfig' = RulesInConfig
  BY DEF RulesInConfig, Config
<1>6. {text'[a].value : a \in Current'} = {text[a].value : a \in Current}
  BY <1>2
<1>7. NoAgentNoGroup' /\ AgentsAreCurrent' /\ RulesAreExpected'
  BY <1>2, <1>6 DEF ParserInv, NoAgentNoGroup, AgentsAreCurrent, RulesAreExpected
<1>8. ExpectingIsRuleSince'
  BY <1>2, <1>3 DEF ParserInv, ExpectingIsRuleSince
<1> QED BY <1>1, <1>4, <1>5, <1>7, <1>8 DEF ParserInv, RulesReachTheirAgents

(* A User-agent line joins the agents or begins a group.                     *)
LEMMA AgentLineStep ==
    ASSUME ParserInv, NEW line \in Line, IsAgentLine(line), text' = Append(text, line),
           parser' = UserAgentLine(parser, line.value)
    PROVE  ParserInv'
<1> DEFINE agent == line.value
<1>1. text' \in Seq(Line) /\ text \in Seq(Line) /\ parser \in Parser /\ agent \in Agent
      /\ ~IsRuleLine(line) /\ ~Written(line)
  BY DEF ParserInv, IsAgentLine, Line, IsRuleLine, Written
<1>2. PICK last \in Nat : last = Len(text) + 1
  BY <1>1
<1>3. /\ Current \subseteq 1..Len(text) /\ last \notin 1..Len(text)
      /\ \A a \in 1..Len(text) : text'[a] = text[a]
      /\ text'[last] = line
      /\ Current' = {a \in Current : ~RuleSince(a)} \cup {last}
  BY <1>1, <1>2, CurrentAfterLine, OneMoreLine DEF Current
<1>4. /\ \A a \in Current : RuleSince(a)' <=> RuleSince(a)
      /\ ~RuleSince(last)'
  <2>1. ~RuleSince(last)
    BY <1>1, <1>2 DEF RuleSince
  <2>2. last \in 1..(Len(text) + 1) /\ Current \subseteq 1..(Len(text) + 1)
    BY <1>1, <1>2, <1>3
  <2> QED BY <1>1, <1>3, <2>1, <2>2, RuleSinceAfterLine
<1>5. RulesInText' = RulesInText
  BY <1>1, RulesAfterLine
<1>6. NewGroup(agent) \in Group /\ ToSet(NewGroup(agent).agents) = {agent}
      /\ GroupRules(NewGroup(agent)) = {}
      /\ NewGroup(agent).allow = <<>> /\ NewGroup(agent).disallow = <<>>
      /\ NewGroup(agent) # Null
  <2>1. NewGroup(agent) \in Group
    BY <1>1 DEF NewGroup, Group
  <2>2. /\ NewGroup(agent).agents = <<agent>>
        /\ NewGroup(agent).allow = <<>> /\ NewGroup(agent).disallow = <<>>
    BY DEF NewGroup
  <2>3. ToSet(<<agent>>) = {agent} /\ ToSet(<<>>) = {}
    BY DEF ToSet
  <2>4. GroupRules(NewGroup(agent)) = {}
    BY <2>2, <2>3 DEF GroupRules
  <2> QED BY <2>1, <2>2, <2>3, <2>4, AbsentAssumption
<1>7. (parser \in Parser =>
         RulesInConfig = ClosedRules
                         \cup (IF parser.open = Null THEN {} ELSE GroupRules(parser.open)))'
  BY ConfigRules, PTL
<1>8. CASE parser.open = Null \/ parser.expectingRules
  <2>1. Current' = {last}
    BY <1>3, <1>8 DEF ParserInv, NoAgentNoGroup, ExpectingIsRuleSince
  <2>2. /\ parser' \in Parser
        /\ parser'.open = NewGroup(agent) /\ parser'.expectingRules = FALSE
        /\ parser'.groups = (IF parser.open = Null THEN parser.groups
                             ELSE Append(parser.groups, parser.open))
    <3>1. CASE parser.open = Null
      <4>1. parser' = [parser EXCEPT !.open = NewGroup(agent)]
        BY <3>1 DEF UserAgentLine
      <4>2. ~parser.expectingRules
        BY <3>1 DEF ParserInv, NoAgentNoGroup
      <4> QED BY <1>1, <1>6, <3>1, <4>1, <4>2 DEF Parser
    <3>2. CASE parser.open # Null
      <4>1. parser' = [parser EXCEPT !.groups = Append(parser.groups, parser.open),
                                     !.open = NewGroup(agent), !.expectingRules = FALSE]
        BY <1>8, <3>2 DEF UserAgentLine
      <4>2. Append(parser.groups, parser.open) \in Seq(Group)
        BY <1>1, <3>2 DEF Parser
      <4> QED BY <1>1, <1>6, <3>2, <4>1, <4>2 DEF Parser
    <3> QED BY <3>1, <3>2
  <2>3. RulesInConfig' = ClosedRules'
    BY <1>6, <1>7, <2>2
  <2>4. ClosedRules' = RulesInConfig
    <3>1. parser.groups \in Seq(Group)
      BY <1>1 DEF Parser
    <3>2. ToSet(parser'.groups) = ToSet(parser.groups)
                                  \cup (IF parser.open = Null THEN {} ELSE {parser.open})
      BY <2>2, <3>1, AppendToSet
    <3> QED BY <1>1, <3>2, ConfigRules DEF ClosedRules
  <2>5. AgentsAreCurrent'
    <3>1. {text'[a].value : a \in Current'} = {agent}
      BY <1>3, <2>1
    <3> QED BY <1>6, <2>2, <3>1 DEF AgentsAreCurrent
  <2>6. ExpectingIsRuleSince' /\ RulesAreExpected' /\ NoAgentNoGroup'
    BY <1>4, <1>6, <2>1, <2>2 DEF ExpectingIsRuleSince, RulesAreExpected, NoAgentNoGroup
  <2> QED BY <1>1, <1>5, <2>2, <2>3, <2>4, <2>5, <2>6
          DEF ParserInv, RulesReachTheirAgents
<1>9. CASE parser.open # Null /\ ~parser.expectingRules
  <2>1. Current' = Current \cup {last}
    BY <1>3, <1>9 DEF ParserInv, ExpectingIsRuleSince
  <2>2. parser.open \in Group /\ parser.open.agents \in Seq(Agent)
    BY <1>1, <1>9 DEF Parser, Group
  <2> DEFINE joined == [parser.open EXCEPT !.agents = Append(parser.open.agents, agent)]
  <2>3. parser' = [parser EXCEPT !.open = joined]
    BY <1>9, <1>1 DEF UserAgentLine, Parser
  <2>4. joined \in Group /\ joined # Null
    <3>1. Append(parser.open.agents, agent) \in Seq(Agent)
      BY <1>1, <2>2
    <3> QED BY <2>2, <3>1, AbsentAssumption DEF Group
  <2>5. /\ joined.agents = Append(parser.open.agents, agent)
        /\ joined.allow = parser.open.allow /\ joined.disallow = parser.open.disallow
    BY <2>2 DEF Group
  <2> HIDE DEF joined
  <2>6. /\ parser'.groups = parser.groups /\ parser'.expectingRules = parser.expectingRules
        /\ parser'.open = joined /\ parser' \in Parser
    BY <1>1, <2>3, <2>4 DEF Parser
  <2>7. ToSet(joined.agents) = ToSet(parser.open.agents) \cup {agent}
    BY <2>2, <2>5, AppendToSet
  <2>8. GroupRules(parser.open) = {} /\ GroupRules(joined) = {}
    BY <1>9, <2>5 DEF ParserInv, RulesAreExpected, GroupRules, ToSet
  <2>9. RulesInConfig' = RulesInConfig
    <3>1. ClosedRules' = ClosedRules
      BY <2>6 DEF ClosedRules
    <3> QED BY <1>1, <1>7, <1>9, <2>4, <2>6, <2>8, <3>1, ConfigRules
  <2>10. AgentsAreCurrent'
    <3>1. {text'[a].value : a \in Current'} = {text[a].value : a \in Current} \cup {agent}
      <4>1. \A a \in Current : text'[a].value = text[a].value
        BY <1>3
      <4>2. text'[last].value = agent
        BY <1>3
      <4> QED BY <2>1, <4>1, <4>2
    <3> QED BY <1>9, <2>6, <2>7, <3>1 DEF ParserInv, AgentsAreCurrent
  <2>11. ExpectingIsRuleSince' /\ RulesAreExpected' /\ NoAgentNoGroup'
    BY <1>4, <1>9, <2>1, <2>4, <2>5, <2>6
       DEF ParserInv, ExpectingIsRuleSince, RulesAreExpected, NoAgentNoGroup
  <2> QED BY <1>1, <1>5, <2>6, <2>9, <2>10, <2>11
          DEF ParserInv, RulesReachTheirAgents
<1> QED BY <1>8, <1>9

(* What a rule line adds to the open group: its rule, if it is not empty,    *)
(* for the agents of the group.                                              *)
LEMMA RuleAdds ==
    ASSUME NEW group \in Group, NEW line \in Line, IsRuleLine(line)
    PROVE  /\ Rule(group, line) \in Group /\ Rule(group, line).agents = group.agents
           /\ GroupRules(Rule(group, line)) = GroupRules(group) \cup
                (IF Written(line)
                 THEN {<<agent, line.field, line.value>> : agent \in ToSet(group.agents)} ELSE {})
<1>1. group.allow \in Seq(Pattern) /\ group.disallow \in Seq(Pattern)
  BY DEF Group
<1>2. CASE line.value = Empty
  <2>1. Rule(group, line) = group /\ ~Written(line)
    BY <1>2 DEF Rule, Written
  <2> QED BY <2>1
<1>3. CASE line.value # Empty /\ line.field = "allow"
  <2>1. /\ line.value \in Pattern /\ Written(line)
        /\ Append(group.allow, line.value) \in Seq(Pattern)
    BY <1>1, <1>3 DEF Line, Written
  <2>2. Rule(group, line) = [group EXCEPT !.allow = Append(group.allow, line.value)]
    BY <1>3 DEF Rule
  <2>3. /\ Rule(group, line) \in Group /\ Rule(group, line).agents = group.agents
        /\ Rule(group, line).allow = Append(group.allow, line.value)
        /\ Rule(group, line).disallow = group.disallow
    BY <1>1, <2>1, <2>2 DEF Group
  <2>4. ToSet(Rule(group, line).allow) = ToSet(group.allow) \cup {line.value}
    BY <1>1, <2>3, AppendToSet
  <2> QED BY <1>3, <2>1, <2>3, <2>4 DEF GroupRules
<1>4. CASE line.value # Empty /\ line.field = "disallow"
  <2>1. /\ line.value \in Pattern /\ Written(line)
        /\ Append(group.disallow, line.value) \in Seq(Pattern)
    BY <1>1, <1>4 DEF Line, Written
  <2>2. Rule(group, line) = [group EXCEPT !.disallow = Append(group.disallow, line.value)]
    BY <1>4 DEF Rule
  <2>3. /\ Rule(group, line) \in Group /\ Rule(group, line).agents = group.agents
        /\ Rule(group, line).allow = group.allow
        /\ Rule(group, line).disallow = Append(group.disallow, line.value)
    BY <1>1, <2>1, <2>2 DEF Group
  <2>4. ToSet(Rule(group, line).disallow) = ToSet(group.disallow) \cup {line.value}
    BY <1>1, <2>3, AppendToSet
  <2> QED BY <1>4, <2>1, <2>3, <2>4 DEF GroupRules
<1>5. CASE line.value # Empty /\ line.field = "crawl-delay"
  <2>1. line.value \in Delay /\ ~Written(line)
    BY <1>5 DEF Line, Written
  <2>2. Rule(group, line) = [group EXCEPT !.delay = line.value]
    BY <1>5 DEF Rule
  <2>3. /\ Rule(group, line) \in Group /\ Rule(group, line).agents = group.agents
        /\ Rule(group, line).allow = group.allow
        /\ Rule(group, line).disallow = group.disallow
    BY <2>1, <2>2 DEF Group
  <2> QED BY <2>1, <2>3 DEF GroupRules
<1> QED BY <1>2, <1>3, <1>4, <1>5 DEF IsRuleLine

(* A rule line inside a group is for the agents above it.                    *)
LEMMA RuleLineStep ==
    ASSUME ParserInv, NEW line \in Line, IsRuleLine(line), text' = Append(text, line),
           parser.open # Null, parser' = RuleLine(parser, line)
    PROVE  ParserInv'
<1> DEFINE group == Rule(parser.open, line)
<1>1. text' \in Seq(Line) /\ text \in Seq(Line) /\ parser \in Parser /\ parser.open \in Group
      /\ ~IsAgentLine(line)
  BY DEF ParserInv, IsAgentLine, IsRuleLine, Parser
<1>2. /\ Current' = Current /\ Current \subseteq 1..Len(text)
      /\ \A a \in 1..Len(text) : text'[a] = text[a]
  BY <1>1, CurrentAfterLine, OneMoreLine DEF Current
<1>3. \A a \in Current : RuleSince(a)'
  <2>1. Current \subseteq 1..(Len(text) + 1)
    BY <1>1, <1>2
  <2> QED BY <1>1, <1>2, <2>1, RuleSinceAfterLine
<1>4. /\ group \in Group /\ group.agents = parser.open.agents
      /\ GroupRules(group) = GroupRules(parser.open) \cup
           (IF Written(line)
            THEN {<<agent, line.field, line.value>> : agent \in ToSet(parser.open.agents)} ELSE {})
  BY <1>1, RuleAdds
<1>5. parser' = [parser EXCEPT !.open = group, !.expectingRules = TRUE]
  BY DEF RuleLine
<1> HIDE DEF group
<1>6. /\ parser' \in Parser /\ parser'.open = group /\ parser'.expectingRules = TRUE
      /\ parser'.groups = parser.groups /\ group # Null
  BY <1>1, <1>4, <1>5, AbsentAssumption DEF Parser
<1>7. (parser \in Parser =>
         RulesInConfig = ClosedRules
                         \cup (IF parser.open = Null THEN {} ELSE GroupRules(parser.open)))'
  BY ConfigRules, PTL
<1>8. RulesReachTheirAgents'
  <2>1. ToSet(parser.open.agents) = {text[a].value : a \in Current}
    BY DEF ParserInv, AgentsAreCurrent
  <2>2. {<<agent, line.field, line.value>> : agent \in ToSet(parser.open.agents)}
        = {For(text[a], line) : a \in Current}
    BY <2>1 DEF For
  <2>3. RulesInConfig = ClosedRules \cup GroupRules(parser.open)
    BY <1>1, ConfigRules
  <2>4. RulesInConfig' = ClosedRules \cup GroupRules(group)
    BY <1>6, <1>7 DEF ClosedRules
  <2>5. RulesInText' = RulesInText \cup
          (IF Written(line) THEN {For(text[a], line) : a \in Current} ELSE {})
    BY <1>1, RulesAfterLine
  <2> QED BY <1>4, <2>2, <2>3, <2>4, <2>5 DEF ParserInv, RulesReachTheirAgents
<1>9. AgentsAreCurrent'
  <2>1. {text'[a].value : a \in Current'} = {text[a].value : a \in Current}
    BY <1>2
  <2> QED BY <1>4, <1>6, <2>1 DEF ParserInv, AgentsAreCurrent
<1>10. NoAgentNoGroup' /\ ExpectingIsRuleSince' /\ RulesAreExpected'
  BY <1>2, <1>3, <1>6 DEF NoAgentNoGroup, ExpectingIsRuleSince, RulesAreExpected
<1> QED BY <1>1, <1>6, <1>8, <1>9, <1>10 DEF ParserInv

LEMMA ParserStart ==
    ASSUME text = <<>>, parser = Start
    PROVE  ParserInv
<1>1. text \in Seq(Line) /\ parser \in Parser
  BY DEF Start, Parser
<1>2. Current = {} /\ RulesInText = {}
  BY RuleInText DEF Current
<1>3. RulesInConfig = {}
  <2>1. ClosedRules = {}
    BY DEF ClosedRules, ToSet, Start
  <2> QED BY <1>1, <2>1, ConfigRules DEF Start
<1> QED
  BY <1>1, <1>2, <1>3 DEF ParserInv, NoAgentNoGroup, AgentsAreCurrent,
     ExpectingIsRuleSince, RulesAreExpected, RulesReachTheirAgents, Start

LEMMA ReadLineStep ==
    ASSUME ParserInv, NEW line \in Line, ReadLine(line)
    PROVE  ParserInv'
<1>1. text' = Append(text, line) /\ parser' = ParseLine(parser, line) /\ parser \in Parser
  BY DEF ReadLine, ParserInv
<1>2. CASE IsAgentLine(line)
  <2>1. parser' = UserAgentLine(parser, line.value)
    BY <1>1, <1>2 DEF ParseLine, IsAgentLine, IsRuleLine
  <2> QED BY <1>1, <1>2, <2>1, AgentLineStep
<1>3. CASE IsRuleLine(line) /\ parser.open # Null
  <2>1. parser' = RuleLine(parser, line)
    BY <1>1, <1>3 DEF ParseLine, IsRuleLine
  <2> QED BY <1>1, <1>3, <2>1, RuleLineStep
<1>4. CASE IsRuleLine(line) /\ parser.open = Null
  <2>1. parser' = parser /\ Current = {} /\ ~IsAgentLine(line)
    BY <1>1, <1>4 DEF ParseLine, RuleLine, IsRuleLine, IsAgentLine, ParserInv, NoAgentNoGroup
  <2> QED BY <1>1, <2>1, OtherLineStep
<1>5. CASE ~IsRuleLine(line) /\ ~IsAgentLine(line)
  <2>1. /\ parser' \in Parser
        /\ parser'.groups = parser.groups /\ parser'.open = parser.open
        /\ parser'.expectingRules = parser.expectingRules
    <3>1. CASE line.field = "sitemap"
      <4>1. parser' = [parser EXCEPT !.sitemaps = Append(parser.sitemaps, line.value)]
            /\ line.value \in Url
        BY <1>1, <1>5, <3>1 DEF ParseLine, IsAgentLine, Line
      <4>2. Append(parser.sitemaps, line.value) \in Seq(Url)
        BY <1>1, <4>1 DEF Parser
      <4> QED BY <1>1, <4>1, <4>2 DEF Parser
    <3>2. CASE line.field = "host"
      <4>1. parser' = [parser EXCEPT !.host = line.value] /\ line.value \in Url
        BY <1>1, <1>5, <3>2 DEF ParseLine, IsAgentLine, Line
      <4> QED BY <1>1, <4>1 DEF Parser
    <3>3. CASE line.field \notin {"sitemap", "host"}
      BY <1>1, <1>5, <3>3 DEF ParseLine, IsAgentLine
    <3> QED BY <3>1, <3>2, <3>3
  <2>2. ~Written(line)
    BY <1>5 DEF Written, IsRuleLine
  <2> QED BY <1>1, <1>5, <2>1, <2>2, OtherLineStep
<1> QED BY <1>2, <1>3, <1>4, <1>5

LEMMA ParserNext == ParserInv /\ [Next]_vars => ParserInv'
<1> SUFFICES ASSUME ParserInv, [Next]_vars PROVE ParserInv'
  OBVIOUS
<1>1. CASE EndOfFile
  <2>1. (text = <<>> /\ parser = Start => ParserInv)'
    BY ParserStart, PTL
  <2> QED BY <1>1, <2>1 DEF EndOfFile
<1>2. CASE UNCHANGED <<text, parser>>
  <2>1. RulesInConfig' = RulesInConfig
    BY <1>2 DEF RulesInConfig, Config
  <2>2. RulesInText' = RulesInText /\ Current' = Current
    BY <1>2 DEF RulesInText, Current, Governs
  <2>3. \A a : RuleSince(a)' <=> RuleSince(a)
    BY <1>2 DEF RuleSince
  <2> QED BY <1>2, <2>1, <2>2, <2>3
          DEF ParserInv, NoAgentNoGroup, AgentsAreCurrent, ExpectingIsRuleSince,
              RulesAreExpected, RulesReachTheirAgents
<1>3. ASSUME NEW line \in Line, ReadLine(line) PROVE ParserInv'
  BY <1>3, ReadLineStep
<1>4. (\E line \in Line : ReadLine(line)) \/ EndOfFile \/ UNCHANGED <<text, parser>>
  BY DEF Next, Fetch, AddRule, Ask, vars
<1> QED BY <1>1, <1>2, <1>3, <1>4

(* Every rule of a robots.txt file reaches exactly the agents of the block   *)
(* it stands under, for files of any length, whatever the order of agents,   *)
(* rules and empty rules: currentGroup and expectingRules in parseRobotsTxt. *)
THEOREM RulesAreForTheirAgents == Spec => []RulesReachTheirAgents
<1>1. Init => ParserInv
  BY ParserStart DEF Init
<1>2. ParserInv => RulesReachTheirAgents
  BY DEF ParserInv
<1> QED BY <1>1, <1>2, ParserNext, PTL DEF Spec

-----------------------------------------------------------------------------
(* Induction and recursion over the numbers, on sets and functions.          *)
LEMMA LeastNat ==
    ASSUME NEW T \in SUBSET Nat, T # {}
    PROVE  \E m \in T : \A n \in T : m <= n
<1>1. PICK R : IsWellFoundedOn(R, Nat) /\ \A x, y \in Nat : <<x, y>> \in R <=> x < y
  <2>1. IsWellFoundedOn(OpToRel(<, Nat), Nat)
    BY NatLessThanWellFounded
  <2>2. \A x, y \in Nat : <<x, y>> \in OpToRel(<, Nat) <=> x < y
    BY DEF OpToRel
  <2> QED BY <2>1, <2>2, Zenon
<1>2. T \subseteq Nat
  OBVIOUS
<1>3. PICK x \in T : \A y \in T : ~ (<<y, x>> \in R)
  <2>1. IsWellFoundedOn(R, Nat)
    BY <1>1
  <2>2. \E x \in T : \A y \in T : ~ (<<y, x>> \in R)
    BY <2>1, <1>2, WFMin
  <2> QED BY <2>2
<1>4. ASSUME NEW y \in T PROVE x <= y
  <2>1. x \in Nat /\ y \in Nat
    OBVIOUS
  <2>2. ~ (y < x)
    BY <1>1, <1>3, <2>1, Zenon
  <2> QED BY <2>1, <2>2
<1> QED BY <1>3, <1>4

LEMMA InductionOver ==
    ASSUME NEW S, 0 \in S, \A n \in Nat : n \in S => n + 1 \in S
    PROVE  Nat \subseteq S
<1> SUFFICES ASSUME NEW x \in Nat, x \notin S PROVE FALSE
  OBVIOUS
<1> DEFINE C == {n \in Nat : n \notin S}
<1>1. PICK m \in C : \A k \in C : m <= k
  <2>1. C \in SUBSET Nat /\ C # {}
    OBVIOUS
  <2> QED BY <2>1, LeastNat
<1>2. m # 0 /\ m - 1 \in Nat /\ m - 1 \notin C
  BY <1>1
<1>3. m - 1 \in S /\ (m - 1) + 1 = m
  BY <1>2
<1> QED BY <1>1, <1>2, <1>3

(* A recursion over 1..n, with a function for every step, has a solution.    *)
Follows(f, n, base, step) == f[0] = base /\ \A k \in 1..n : f[k] = step[k][f[k - 1]]

LEMMA RecursionExists ==
    ASSUME NEW X, NEW base \in X, NEW n \in Nat, NEW step \in [1..n -> [X -> X]]
    PROVE  \E f \in [0..n -> X] : Follows(f, n, base, step)
<1> DEFINE Solves(f, m) == f[0] = base /\ \A k \in 1..m : f[k] = step[k][f[k - 1]]
           S == {m \in Nat : m <= n => \E f \in [0..m -> X] : Solves(f, m)}
<1>1. 0 \in S
  <2>1. [k \in 0..0 |-> base] \in [0..0 -> X] /\ Solves([k \in 0..0 |-> base], 0)
    OBVIOUS
  <2> QED BY <2>1
<1>2. ASSUME NEW m \in Nat, m \in S PROVE m + 1 \in S
  <2> SUFFICES ASSUME m + 1 <= n PROVE \E f \in [0..(m + 1) -> X] : Solves(f, m + 1)
    OBVIOUS
  <2>1. PICK f \in [0..m -> X] : Solves(f, m)
    BY <1>2
  <2> DEFINE last == step[m + 1][f[m]]
             g == [k \in 0..(m + 1) |-> IF k = m + 1 THEN last ELSE f[k]]
  <2>2. last \in X
    <3>1. f[m] \in X /\ step[m + 1] \in [X -> X]
      OBVIOUS
    <3> QED BY <3>1
  <2>3. g \in [0..(m + 1) -> X]
    BY <2>2
  <2>4. ASSUME NEW k \in 1..(m + 1) PROVE g[k] = step[k][g[k - 1]]
    <3>1. CASE k = m + 1
      <4>1. k \in 0..(m + 1) /\ k - 1 = m /\ m \in 0..(m + 1) /\ m # m + 1
        BY <3>1
      <4>2. g[k] = last /\ g[k - 1] = f[m]
        BY <3>1, <4>1
      <4> QED BY <3>1, <4>1, <4>2
    <3>2. CASE k # m + 1
      <4>1. k \in 1..m /\ k \in 0..(m + 1) /\ k - 1 \in 0..(m + 1) /\ k - 1 # m + 1
        BY <3>2
      <4>2. g[k] = f[k] /\ g[k - 1] = f[k - 1]
        BY <3>2, <4>1
      <4> QED BY <2>1, <4>1, <4>2
    <3> QED BY <3>1, <3>2
  <2>5. g[0] = base
    BY <2>1
  <2> QED BY <2>3, <2>4, <2>5
<1> HIDE DEF S
<1>3. n \in S
  BY <1>1, <1>2, InductionOver
<1> USE DEF S
<1> QED BY <1>3 DEF Follows

(* The least element of a set of numbers and the greatest of a bounded one.  *)
LEMMA MinOfSet ==
    ASSUME NEW T \in SUBSET Nat, T # {}
    PROVE  Min(T) \in T /\ \A n \in T : Min(T) <= n
BY LeastNat DEF Min

LEMMA MaxOfSet ==
    ASSUME NEW T \in SUBSET Nat, T # {}, NEW bound \in Nat, \A n \in T : n <= bound
    PROVE  Max(T) \in T /\ \A n \in T : n <= Max(T)
<1> DEFINE U == {b \in Nat : \A n \in T : n <= b}
<1>1. PICK m \in U : \A b \in U : m <= b
  <2>1. U \in SUBSET Nat /\ U # {}
    OBVIOUS
  <2> QED BY <2>1, LeastNat
<1>2. m \in T
  <2> SUFFICES ASSUME m \notin T PROVE FALSE
    OBVIOUS
  <2>1. PICK t \in T : TRUE
    OBVIOUS
  <2>2. m \in Nat /\ t \in Nat /\ t <= m /\ t # m
    BY <1>1
  <2>3. m - 1 \in U
    <3>1. \A n \in T : n \in Nat /\ n <= m /\ n # m
      BY <1>1
    <3> QED BY <2>2, <3>1
  <2> QED BY <1>1, <2>2, <2>3
<1>3. \E x \in T : \A y \in T : x >= y
  BY <1>1, <1>2
<1> QED BY <1>3 DEF Max

-----------------------------------------------------------------------------
(* Compiled rules: those of the group, longest first.                        *)

LEMMA InsertAtPlace ==
    ASSUME NEW S, NEW s \in Seq(S), NEW e \in S, NEW i \in 1..(Len(s) + 1)
    PROVE  /\ InsertAt(s, i, e) \in Seq(S) /\ Len(InsertAt(s, i, e)) = Len(s) + 1
           /\ \A j \in 1..(Len(s) + 1) :
                InsertAt(s, i, e)[j] =
                    IF j < i THEN s[j] ELSE IF j = i THEN e ELSE s[j - 1]
<1>1. PICK n, l, r :
        /\ n \in Nat /\ l \in Nat /\ r \in Nat /\ i \in Nat
        /\ n = Len(s) /\ l = i - 1 /\ r = n - i + 1 /\ i = l + 1 /\ n = l + r
  <2>1. /\ Len(s) \in Nat /\ i - 1 \in Nat /\ Len(s) - i + 1 \in Nat /\ i \in Nat
        /\ i = (i - 1) + 1 /\ Len(s) = (i - 1) + (Len(s) - i + 1)
    OBVIOUS
  <2> QED BY <2>1
<1>2. PICK left : left \in Seq(S) /\
        left = SubSeq(s, 1, i - 1) /\ Len(left) = l /\ \A j \in 1..l : left[j] = s[j]
  <2>1. /\ SubSeq(s, 1, i - 1) \in Seq(S) /\ Len(SubSeq(s, 1, i - 1)) = i - 1
        /\ \A j \in 1..(i - 1) : SubSeq(s, 1, i - 1)[j] = s[j]
    OBVIOUS
  <2> QED BY <1>1, <2>1
<1>3. PICK right : right \in Seq(S) /\
        right = SubSeq(s, i, Len(s)) /\ Len(right) = r /\ \A j \in 1..r : right[j] = s[l + j]
  <2> DEFINE tail == SubSeq(s, i, Len(s))
  <2>1. tail \in Seq(S) /\ Len(tail) = r
    BY <1>1
  <2>2. ASSUME NEW j \in 1..r PROVE tail[j] = s[l + j]
    <3>1. tail[j] = s[i + j - 1] /\ i + j - 1 = l + j
      BY <1>1
    <3> QED BY <3>1
  <2> QED BY <2>1, <2>2
<1>4. PICK head :
        /\ head \in Seq(S)
        /\ head = left \o <<e>> /\ Len(head) = l + 1
        /\ \A j \in 1..l : head[j] = s[j]
        /\ head[l + 1] = e
  <2>1. left \o <<e>> \in Seq(S) /\ Len(left \o <<e>>) = l + 1
    BY <1>1, <1>2
  <2>2. \A j \in 1..l : (left \o <<e>>)[j] = s[j]
    BY <1>1, <1>2
  <2>3. (left \o <<e>>)[l + 1] = e
    BY <1>1, <1>2
  <2> QED BY <2>1, <2>2, <2>3
<1>5. /\ head \in Seq(S) /\ Len(head) = l + 1
      /\ \A j \in 1..l : head[j] = s[j]
      /\ head[l + 1] = e
      /\ right \in Seq(S) /\ Len(right) = r /\ \A j \in 1..r : right[j] = s[l + j]
  BY <1>3, <1>4, Zenon
<1>6. PICK new :
        /\ new = head \o right /\ new \in Seq(S) /\ Len(new) = n + 1
        /\ \A j \in 1..(l + 1) : new[j] = head[j]
        /\ \A j \in 1..r : new[l + 1 + j] = right[j]
  <2>1. head \o right \in Seq(S) /\ Len(head \o right) = n + 1
    BY <1>1, <1>5
  <2>2. \A j \in 1..(l + 1) : (head \o right)[j] = head[j]
    BY <1>1, <1>5
  <2>3. \A j \in 1..r : (head \o right)[l + 1 + j] = right[j]
    BY <1>1, <1>5
  <2> QED BY <2>1, <2>2, <2>3
<1>7. /\ new \in Seq(S) /\ Len(new) = n + 1
      /\ \A j \in 1..(l + 1) : new[j] = head[j]
      /\ \A j \in 1..r : new[l + 1 + j] = right[j]
  BY <1>6, Zenon
<1>8. ASSUME NEW j \in 1..(n + 1)
      PROVE  new[j] = IF j < i THEN s[j] ELSE IF j = i THEN e ELSE s[j - 1]
  <2>1. CASE j < i
    <3>1. j \in 1..l /\ j \in 1..(l + 1)
      BY <1>1, <2>1
    <3> QED BY <1>5, <1>7, <2>1, <3>1
  <2>2. CASE j = i
    <3>1. j = l + 1 /\ j \in 1..(l + 1) /\ ~(j < i)
      BY <1>1, <2>2
    <3> QED BY <1>5, <1>7, <2>2, <3>1
  <2>3. CASE j > i
    <3>1. PICK k \in 1..r : j = l + 1 + k /\ j - 1 = l + k
      <4>1. j - i \in 1..r /\ j = l + 1 + (j - i) /\ j - 1 = l + (j - i)
        BY <1>1, <2>3
      <4> QED BY <4>1
    <3>2. ~(j < i) /\ j # i
      BY <1>1, <2>3
    <3> QED BY <1>5, <1>7, <3>1, <3>2
  <2> QED BY <1>1, <2>1, <2>2, <2>3
<1>9. InsertAt(s, i, e) = new
  BY <1>2, <1>3, <1>4, <1>6, Zenon DEF InsertAt
<1> QED BY <1>1, <1>7, <1>8, <1>9

LongestFirst(rules) ==
    \A i, j \in DOMAIN rules : i < j => PatternLength[rules[i]] >= PatternLength[rules[j]]

LEMMA InsertKeepsOrder ==
    ASSUME NEW sorted \in Seq(Pattern), LongestFirst(sorted), NEW pattern \in Pattern
    PROVE  /\ InsertAt(sorted, PlaceOf(sorted, pattern), pattern) \in Seq(Pattern)
           /\ LongestFirst(InsertAt(sorted, PlaceOf(sorted, pattern), pattern))
           /\ ToSet(InsertAt(sorted, PlaceOf(sorted, pattern), pattern))
                = ToSet(sorted) \cup {pattern}
<1> DEFINE n == Len(sorted)
           shorter == {i \in DOMAIN sorted : PatternLength[sorted[i]] < PatternLength[pattern]}
<1>1. n \in Nat /\ DOMAIN sorted = 1..n
  OBVIOUS
<1>2. PICK place \in 1..(n + 1) :
        /\ place = PlaceOf(sorted, pattern)
        /\ \A i \in 1..(place - 1) : PatternLength[sorted[i]] >= PatternLength[pattern]
        /\ place # n + 1 => PatternLength[sorted[place]] < PatternLength[pattern]
  <2>1. {n + 1} \cup shorter \in SUBSET Nat /\ {n + 1} \cup shorter # {}
    BY <1>1
  <2>2. /\ PlaceOf(sorted, pattern) \in {n + 1} \cup shorter
        /\ \A i \in {n + 1} \cup shorter : PlaceOf(sorted, pattern) <= i
    BY <2>1, MinOfSet DEF PlaceOf
  <2>3. /\ PatternLength[pattern] \in Nat
        /\ \A i \in 1..n : PatternLength[sorted[i]] \in Nat
    BY <1>1, RobotsCrawlerAssumption
  <2> DEFINE place == PlaceOf(sorted, pattern)
  <2>4. place \in 1..(n + 1)
    BY <1>1, <2>2
  <2>5. place # n + 1 => PatternLength[sorted[place]] < PatternLength[pattern]
    BY <1>1, <2>2
  <2>6. ASSUME NEW i \in 1..(place - 1)
        PROVE  PatternLength[sorted[i]] >= PatternLength[pattern]
    <3>1. i \in 1..n /\ ~(place <= i)
      BY <1>1, <2>4
    <3>2. i \notin shorter
      BY <2>2, <3>1
    <3> QED BY <1>1, <2>3, <3>1, <3>2
  <2> QED BY <2>4, <2>5, <2>6
<1>3. PICK new : new = InsertAt(sorted, place, pattern)
  OBVIOUS
<1>4. /\ new \in Seq(Pattern) /\ DOMAIN new = 1..(n + 1)
      /\ \A j \in 1..(n + 1) :
           new[j] = IF j < place THEN sorted[j] ELSE IF j = place THEN pattern ELSE sorted[j - 1]
  <2>1. /\ new \in Seq(Pattern) /\ Len(new) = n + 1
        /\ \A j \in 1..(n + 1) :
             new[j] = IF j < place THEN sorted[j] ELSE IF j = place THEN pattern ELSE sorted[j - 1]
    <3>1. place \in 1..(Len(sorted) + 1)
      BY <1>2
    <3>2. /\ InsertAt(sorted, place, pattern) \in Seq(Pattern)
          /\ Len(InsertAt(sorted, place, pattern)) = Len(sorted) + 1
          /\ \A j \in 1..(Len(sorted) + 1) :
               InsertAt(sorted, place, pattern)[j] =
                   IF j < place THEN sorted[j] ELSE IF j = place THEN pattern ELSE sorted[j - 1]
      BY <3>1, InsertAtPlace
    <3> QED BY <1>3, <3>2
  <2>2. DOMAIN new = 1..Len(new)
    BY <2>1
  <2> QED BY <2>1, <2>2
<1> HIDE DEF n, shorter
<1>5. ASSUME NEW i \in 1..(n + 1), NEW j \in 1..(n + 1), i < j
      PROVE  PatternLength[new[i]] >= PatternLength[new[j]]
  <2>1. \A k, l \in 1..n : k <= l => PatternLength[sorted[k]] >= PatternLength[sorted[l]]
    <3>1. \A k \in 1..n : PatternLength[sorted[k]] \in Nat
      BY <1>1, RobotsCrawlerAssumption
    <3> QED BY <1>1, <3>1 DEF LongestFirst
  <2>2. /\ PatternLength[pattern] \in Nat
        /\ \A k \in 1..n : PatternLength[sorted[k]] \in Nat
    BY <1>1, RobotsCrawlerAssumption
  <2>3. CASE j < place
    <3>1. new[i] = sorted[i] /\ new[j] = sorted[j] /\ i \in 1..n /\ j \in 1..n
      BY <1>1, <1>2, <1>4, <1>5, <2>3
    <3> QED BY <1>5, <2>1, <3>1
  <2>4. CASE j = place
    <3>1. new[i] = sorted[i] /\ new[j] = pattern /\ i \in 1..(place - 1)
      BY <1>1, <1>2, <1>4, <1>5, <2>4
    <3> QED BY <1>2, <3>1
  <2>5. CASE j > place /\ i = place
    <3>1. new[i] = pattern /\ new[j] = sorted[j - 1] /\ j - 1 \in 1..n /\ place \in 1..n
          /\ place <= j - 1
      BY <1>1, <1>2, <1>4, <1>5, <2>5
    <3>2. /\ PatternLength[sorted[place]] >= PatternLength[sorted[j - 1]]
          /\ PatternLength[pattern] > PatternLength[sorted[place]]
      BY <1>1, <1>2, <2>1, <2>2, <3>1
    <3>3. PatternLength[sorted[place]] \in Nat /\ PatternLength[sorted[j - 1]] \in Nat
      BY <2>2, <3>1
    <3> QED BY <2>2, <3>1, <3>2, <3>3
  <2>6. CASE j > place /\ i < place
    <3>1. new[i] = sorted[i] /\ new[j] = sorted[j - 1] /\ i \in 1..n /\ j - 1 \in 1..n
          /\ i <= j - 1
      BY <1>1, <1>2, <1>4, <1>5, <2>6
    <3> QED BY <2>1, <3>1
  <2>7. CASE j > place /\ i > place
    <3>1. /\ new[i] = sorted[i - 1] /\ new[j] = sorted[j - 1]
          /\ i - 1 \in 1..n /\ j - 1 \in 1..n /\ i - 1 <= j - 1
      BY <1>1, <1>2, <1>4, <1>5, <2>7
    <3> QED BY <2>1, <3>1
  <2> QED BY <1>1, <1>2, <2>3, <2>4, <2>5, <2>6, <2>7
<1>6. ToSet(new) = ToSet(sorted) \cup {pattern}
  <2>1. \A x \in ToSet(new) : x \in ToSet(sorted) \cup {pattern}
    BY <1>1, <1>2, <1>4 DEF ToSet
  <2>2. ASSUME NEW i \in 1..n PROVE sorted[i] \in ToSet(new)
    <3>1. CASE i < place
      <4>1. new[i] = sorted[i] /\ i \in DOMAIN new
        BY <1>1, <1>2, <1>4, <3>1
      <4> QED BY <4>1 DEF ToSet
    <3>2. CASE i >= place
      <4>1. new[i + 1] = sorted[i] /\ i + 1 \in DOMAIN new
        BY <1>1, <1>2, <1>4, <3>2
      <4> QED BY <4>1 DEF ToSet
    <3> QED BY <1>1, <1>2, <3>1, <3>2
  <2>3. pattern \in ToSet(new)
    BY <1>1, <1>2, <1>4 DEF ToSet
  <2>4. ToSet(sorted) = {sorted[i] : i \in 1..n}
    BY <1>1 DEF ToSet
  <2> QED BY <2>1, <2>2, <2>3, <2>4
<1> QED BY <1>2, <1>3, <1>4, <1>5, <1>6 DEF LongestFirst

LEMMA SortedRules ==
    ASSUME NEW rules \in Seq(Pattern)
    PROVE  /\ Sorted(rules) \in Seq(Pattern) /\ LongestFirst(Sorted(rules))
           /\ ToSet(Sorted(rules)) = ToSet(rules)
<1> DEFINE put(sorted, k) == InsertAt(sorted, PlaceOf(sorted, rules[k]), rules[k])
           X == {s \in Seq(Pattern) : LongestFirst(s)}
           Solves(f, n) == f = [k \in 0..n |-> IF k = 0 THEN <<>> ELSE put(f[k - 1], k)]
<1>1. PICK n \in Nat :
        n = Len(rules) /\ DOMAIN rules = 1..n /\ \A k \in 1..n : rules[k] \in Pattern
  OBVIOUS
<1>2. <<>> \in X
  BY DEF LongestFirst
<1>3. \A s \in X, k \in 1..n : put(s, k) \in X /\ ToSet(put(s, k)) = ToSet(s) \cup {rules[k]}
  BY <1>1, InsertKeepsOrder
<1> HIDE DEF X, put
<1>4. \E f : Solves(f, n)
  <2>1. PICK step \in [1..n -> [X -> X]] : \A k \in 1..n, s \in X : step[k][s] = put(s, k)
    <3> DEFINE next == [k \in 1..n |-> [s \in X |-> put(s, k)]]
    <3>1. next \in [1..n -> [X -> X]]
      BY <1>3
    <3>2. \A k \in 1..n, s \in X : next[k][s] = put(s, k)
      OBVIOUS
    <3> QED BY <3>1, <3>2
  <2>2. PICK f \in [0..n -> X] : Follows(f, n, <<>>, step)
    BY <1>1, <1>2, <2>1, RecursionExists
  <2>3. ASSUME NEW k \in 0..n
        PROVE  f[k] = IF k = 0 THEN <<>> ELSE put(f[k - 1], k)
    <3>1. CASE k = 0
      BY <2>2, <3>1 DEF Follows
    <3>2. CASE k # 0
      <4>1. k \in 1..n /\ k - 1 \in 0..n
        BY <1>1, <3>2
      <4>2. f[k - 1] \in X /\ f[k] = step[k][f[k - 1]]
        BY <2>2, <4>1 DEF Follows
      <4> QED BY <2>1, <3>2, <4>1, <4>2
    <3> QED BY <3>1, <3>2
  <2>4. Solves(f, n)
    BY <2>3
  <2> QED BY <2>4
<1>6. PICK f : Solves(f, n) /\ Sorted(rules) = f[n]
  <2>1. Solves((CHOOSE f : Solves(f, n)), n)
    BY <1>4
  <2>2. Sorted(rules) = (CHOOSE f : Solves(f, n))[n]
    BY <1>1 DEF Sorted, put
  <2> QED BY <2>1, <2>2
<1>7. f[0] = <<>> /\ \A k \in 1..n : f[k] = put(f[k - 1], k)
  <2>1. \A k \in 0..n : f[k] = IF k = 0 THEN <<>> ELSE put(f[k - 1], k)
    BY <1>6
  <2>2. 0 \in 0..n /\ \A k \in 1..n : k \in 0..n /\ k # 0
    BY <1>1
  <2> QED BY <2>1, <2>2
<1> DEFINE S == {k \in Nat : k <= n => f[k] \in X /\ ToSet(f[k]) = {rules[i] : i \in 1..k}}
<1>8. 0 \in S
  BY <1>2, <1>7 DEF ToSet
<1>9. ASSUME NEW k \in Nat, k \in S PROVE k + 1 \in S
  <2> SUFFICES ASSUME k + 1 <= n
      PROVE  f[k + 1] \in X /\ ToSet(f[k + 1]) = {rules[i] : i \in 1..(k + 1)}
    OBVIOUS
  <2>1. f[k] \in X /\ ToSet(f[k]) = {rules[i] : i \in 1..k}
    BY <1>1, <1>9
  <2>2. k + 1 \in 1..n /\ f[k + 1] = put(f[k], k + 1)
    BY <1>1, <1>7
  <2>3. 1..(k + 1) = (1..k) \cup {k + 1}
    OBVIOUS
  <2> QED BY <1>3, <2>1, <2>2, <2>3
<1> HIDE DEF S
<1>10. n \in S
  BY <1>1, <1>8, <1>9, InductionOver
<1> USE DEF S
<1>11. f[n] \in X /\ ToSet(f[n]) = {rules[i] : i \in 1..n}
  BY <1>1, <1>10
<1>12. ToSet(rules) = {rules[i] : i \in 1..n}
  BY <1>1 DEF ToSet
<1> QED BY <1>6, <1>11, <1>12 DEF X

Matches(rules, path) == {p \in ToSet(rules) : path \in PathsOf[p]}

LEMMA FirstMatchIsLongest ==
    ASSUME NEW rules \in Seq(Pattern), LongestFirst(rules), NEW path
    PROVE  /\ Matches(rules, path) = {} => FirstMatch(rules, path) = -1
           /\ Matches(rules, path) # {} =>
                \E p \in Matches(rules, path) :
                    /\ FirstMatch(rules, path) = PatternLength[p]
                    /\ \A q \in Matches(rules, path) : PatternLength[q] <= PatternLength[p]
<1> DEFINE matching == {i \in DOMAIN rules : path \in PathsOf[rules[i]]}
<1>1. DOMAIN rules \subseteq Nat /\ \A i \in DOMAIN rules : rules[i] \in Pattern
  OBVIOUS
<1>2. Matches(rules, path) = {rules[i] : i \in matching}
  BY DEF Matches, ToSet
<1>3. CASE matching = {}
  BY <1>2, <1>3 DEF FirstMatch
<1>4. CASE matching # {}
  <2>1. PICK first \in matching : first = Min(matching) /\ \A i \in matching : first <= i
    BY <1>1, <1>4, MinOfSet
  <2>2. FirstMatch(rules, path) = PatternLength[rules[first]]
    BY <1>4, <2>1 DEF FirstMatch
  <2>3. ASSUME NEW i \in matching
        PROVE  PatternLength[rules[i]] <= PatternLength[rules[first]]
    <3>1. /\ i \in DOMAIN rules /\ first \in DOMAIN rules /\ i \in Nat /\ first \in Nat
          /\ first <= i
      BY <1>1, <2>1
    <3>2. PatternLength[rules[i]] \in Nat /\ PatternLength[rules[first]] \in Nat
      BY <1>1, <3>1, RobotsCrawlerAssumption
    <3>3. CASE i = first
      BY <3>2, <3>3
    <3>4. CASE i # first
      <4>1. first < i
        BY <3>1, <3>4
      <4> QED BY <3>1, <3>2, <4>1 DEF LongestFirst
    <3> QED BY <3>3, <3>4
  <2> QED BY <1>2, <2>1, <2>2, <2>3
<1> QED BY <1>3, <1>4

(* Whether rules for a path and rules against it, in any order, let it pass. *)
LetsPass(for, against, path) ==
    \A d \in against : path \in PathsOf[d] =>
        \E a \in for : path \in PathsOf[a] /\ PatternLength[a] >= PatternLength[d]

LEMMA VerdictOfRules ==
    ASSUME NEW group, group.allow \in Seq(Pattern), group.disallow \in Seq(Pattern), NEW path
    PROVE  Verdict(Compile(group), path) <=>
             LetsPass(ToSet(group.allow), ToSet(group.disallow), path)
<1>1. PICK for \in Seq(Pattern), against \in Seq(Pattern) :
        /\ for = Sorted(group.allow) /\ against = Sorted(group.disallow)
        /\ LongestFirst(for) /\ LongestFirst(against)
        /\ ToSet(for) = ToSet(group.allow) /\ ToSet(against) = ToSet(group.disallow)
  BY SortedRules
<1>2. Verdict(Compile(group), path) <=> FirstMatch(for, path) >= FirstMatch(against, path)
  BY <1>1 DEF Verdict, Compile
<1>3. /\ \A p \in ToSet(for) : PatternLength[p] \in Nat
      /\ \A p \in ToSet(against) : PatternLength[p] \in Nat
  BY RobotsCrawlerAssumption DEF ToSet
<1>4. /\ Matches(for, path) = {} => FirstMatch(for, path) = -1
      /\ Matches(for, path) # {} =>
           \E p \in Matches(for, path) :
               /\ FirstMatch(for, path) = PatternLength[p]
               /\ \A q \in Matches(for, path) : PatternLength[q] <= PatternLength[p]
  BY <1>1, FirstMatchIsLongest
<1>5. /\ Matches(against, path) = {} => FirstMatch(against, path) = -1
      /\ Matches(against, path) # {} =>
           \E p \in Matches(against, path) :
               /\ FirstMatch(against, path) = PatternLength[p]
               /\ \A q \in Matches(against, path) : PatternLength[q] <= PatternLength[p]
  BY <1>1, FirstMatchIsLongest
<1>6. LetsPass(ToSet(for), ToSet(against), path) <=>
        \A d \in Matches(against, path) :
            \E a \in Matches(for, path) : PatternLength[a] >= PatternLength[d]
  BY DEF LetsPass, Matches
<1>7. Matches(for, path) \subseteq ToSet(for) /\ Matches(against, path) \subseteq ToSet(against)
  BY DEF Matches
<1>8. CASE Matches(against, path) = {}
  <2>1. FirstMatch(for, path) \in Nat \/ FirstMatch(for, path) = -1
    BY <1>3, <1>4, <1>7
  <2> QED BY <1>1, <1>2, <1>5, <1>6, <1>8, <2>1
<1>9. CASE Matches(against, path) # {} /\ Matches(for, path) = {}
  <2>1. FirstMatch(against, path) \in Nat
    BY <1>3, <1>5, <1>7, <1>9
  <2> QED BY <1>1, <1>2, <1>4, <1>6, <1>9, <2>1
<1>10. CASE Matches(against, path) # {} /\ Matches(for, path) # {}
  <2>1. PICK d \in Matches(against, path) :
          /\ FirstMatch(against, path) = PatternLength[d]
          /\ \A q \in Matches(against, path) : PatternLength[q] <= PatternLength[d]
    BY <1>5, <1>10
  <2>2. PICK a \in Matches(for, path) :
          /\ FirstMatch(for, path) = PatternLength[a]
          /\ \A q \in Matches(for, path) : PatternLength[q] <= PatternLength[a]
    BY <1>4, <1>10
  <2>3. /\ \A q \in Matches(against, path) : PatternLength[q] \in Nat
        /\ \A q \in Matches(for, path) : PatternLength[q] \in Nat
    BY <1>3, <1>7
  <2>4. (PatternLength[a] >= PatternLength[d]) <=>
          \A e \in Matches(against, path) :
              \E b \in Matches(for, path) : PatternLength[b] >= PatternLength[e]
    <3>1. ASSUME PatternLength[a] >= PatternLength[d], NEW e \in Matches(against, path)
          PROVE  PatternLength[a] >= PatternLength[e]
      <4>1. PatternLength[d] >= PatternLength[e]
        BY <2>1
      <4> QED BY <2>3, <3>1, <4>1
    <3>2. ASSUME NEW b \in Matches(for, path), PatternLength[b] >= PatternLength[d]
          PROVE  PatternLength[a] >= PatternLength[d]
      <4>1. PatternLength[a] >= PatternLength[b]
        BY <2>2
      <4> QED BY <2>3, <3>2, <4>1
    <3> QED BY <3>1, <3>2
  <2> QED BY <1>1, <1>2, <1>6, <2>1, <2>2, <2>4
<1> QED BY <1>8, <1>9, <1>10

-----------------------------------------------------------------------------
(* Matching groups.                                                          *)

LEMMA BestMatch ==
    ASSUME NEW group \in Group, NEW visitor \in Visitor
    PROVE  LET tokens == ToSet(group.agents) \cap TokensIn[visitor]
               best == BestMatchForGroup(group, visitor)
           IN  /\ best \in Nat
               /\ \A t \in tokens : TokenLength[t] \in Nat /\ TokenLength[t] <= best
               /\ best # 0 => \E t \in tokens : TokenLength[t] = best
<1> DEFINE tokens == ToSet(group.agents) \cap TokensIn[visitor]
           lengths == {0} \cup {TokenLength[t] : t \in tokens}
<1>1. PICK agents, n :
        /\ agents = group.agents /\ agents \in Seq(Agent) /\ n \in Nat
        /\ DOMAIN agents = 1..n /\ \A i \in 1..n : agents[i] \in Agent
  <2>1. group.agents \in Seq(Agent)
    BY DEF Group
  <2> QED BY <2>1
<1>2. \A t \in TokensIn[visitor] : TokenLength[t] \in Nat
  BY RobotsCrawlerAssumption
<1> DEFINE Bounds(b, k) == \A i \in 1..k : agents[i] \in TokensIn[visitor] => TokenLength[agents[i]] <= b
           S == {k \in Nat : k <= n => \E b \in Nat : Bounds(b, k)}
<1>3. 0 \in S
  <2>1. Bounds(0, 0)
    OBVIOUS
  <2> QED BY <2>1
<1>4. ASSUME NEW k \in Nat, k \in S PROVE k + 1 \in S
  <2> SUFFICES ASSUME k + 1 <= n PROVE \E b \in Nat : Bounds(b, k + 1)
    OBVIOUS
  <2>1. PICK b \in Nat : Bounds(b, k)
    BY <1>1, <1>4
  <2>2. PICK c \in Nat : b <= c /\ (agents[k + 1] \in TokensIn[visitor] => TokenLength[agents[k + 1]] <= c)
    <3>1. CASE agents[k + 1] \in TokensIn[visitor]
      <4>1. TokenLength[agents[k + 1]] \in Nat
        BY <1>2, <3>1
      <4>2. b + TokenLength[agents[k + 1]] \in Nat
            /\ b <= b + TokenLength[agents[k + 1]]
            /\ TokenLength[agents[k + 1]] <= b + TokenLength[agents[k + 1]]
        BY <4>1
      <4> QED BY <4>2
    <3>2. CASE agents[k + 1] \notin TokensIn[visitor]
      BY <3>2
    <3> QED BY <3>1, <3>2
  <2>3. ASSUME NEW i \in 1..(k + 1), agents[i] \in TokensIn[visitor]
        PROVE  TokenLength[agents[i]] <= c
    <3>1. CASE i = k + 1
      BY <2>2, <2>3, <3>1
    <3>2. CASE i # k + 1
      <4>1. i \in 1..k
        BY <3>2
      <4>2. TokenLength[agents[i]] <= b /\ TokenLength[agents[i]] \in Nat
        BY <1>2, <2>1, <2>3, <4>1
      <4> QED BY <2>2, <4>2
    <3> QED BY <3>1, <3>2
  <2> QED BY <2>3
<1> HIDE DEF S
<1>5. n \in S
  BY <1>1, <1>3, <1>4, InductionOver
<1> USE DEF S
<1>6. PICK b \in Nat : Bounds(b, n)
  BY <1>1, <1>5
<1>7. tokens = {agents[i] : i \in 1..n} \cap TokensIn[visitor]
  BY <1>1 DEF ToSet
<1>8. lengths \in SUBSET Nat /\ lengths # {} /\ \A l \in lengths : l <= b
  BY <1>2, <1>6, <1>7
<1>9. Max(lengths) \in lengths /\ \A l \in lengths : l <= Max(lengths)
  BY <1>8, MaxOfSet
<1>10. BestMatchForGroup(group, visitor) = Max(lengths)
  BY DEF BestMatchForGroup
<1> QED BY <1>2, <1>8, <1>9, <1>10

LEMMA MaxOfTwo ==
    ASSUME NEW a \in Nat, NEW b \in Nat
    PROVE  Max({a, b}) = IF a > b THEN a ELSE b
<1>1. {a, b} \in SUBSET Nat /\ {a, b} # {} /\ a + b \in Nat /\ \A n \in {a, b} : n <= a + b
  OBVIOUS
<1>2. Max({a, b}) \in {a, b} /\ \A n \in {a, b} : n <= Max({a, b})
  BY <1>1, MaxOfSet
<1> QED BY <1>2

Found(n) == [best : Nat, matching : Seq(1..n), wildcard : Seq(1..n)]

(* What the search has found among the first k groups.                       *)
FoundAmong(gs, visitor, found, k) ==
    /\ \A j \in 1..k : BestMatchForGroup(gs[j], visitor) <= found.best
    /\ found.best # 0 => \E j \in 1..k : BestMatchForGroup(gs[j], visitor) = found.best
    /\ ToSet(found.matching) =
         {j \in 1..k : found.best # 0 /\ BestMatchForGroup(gs[j], visitor) = found.best}
    /\ ToSet(found.wildcard) = {j \in 1..k : Star \in ToSet(gs[j].agents)}

LEMMA SearchOneGroup ==
    ASSUME NEW gs \in Seq(Group), NEW visitor \in Visitor, NEW k \in Nat, k + 1 \in 1..Len(gs),
           NEW found \in Found(Len(gs))
    PROVE  /\ SearchGroup(gs, visitor, found, k + 1) \in Found(Len(gs))
           /\ FoundAmong(gs, visitor, found, k) =>
                FoundAmong(gs, visitor, SearchGroup(gs, visitor, found, k + 1), k + 1)
<1>1. PICK n \in Nat : n = Len(gs) /\ DOMAIN gs = 1..n /\ \A j \in 1..n : gs[j] \in Group
  OBVIOUS
<1>2. PICK next, length :
        /\ next = SearchGroup(gs, visitor, found, k + 1)
        /\ length = BestMatchForGroup(gs[k + 1], visitor)
  OBVIOUS
<1>3. \A j \in 1..n : BestMatchForGroup(gs[j], visitor) \in Nat
  BY <1>1, BestMatch
<1>4. k + 1 \in 1..n /\ length \in Nat
  BY <1>1, <1>2, <1>3
<1>5. /\ found.best \in Nat /\ found.matching \in Seq(1..n) /\ found.wildcard \in Seq(1..n)
  BY <1>1 DEF Found
<1>6. /\ next.best = (IF length > found.best THEN length ELSE found.best)
      /\ next.matching = (IF length > found.best THEN <<k + 1>>
                          ELSE IF length = found.best /\ length > 0
                          THEN Append(found.matching, k + 1) ELSE found.matching)
      /\ next.wildcard = (IF Star \in ToSet(gs[k + 1].agents)
                          THEN Append(found.wildcard, k + 1) ELSE found.wildcard)
      /\ next = [best |-> next.best, matching |-> next.matching, wildcard |-> next.wildcard]
  <2>1. Max({length, found.best}) = IF length > found.best THEN length ELSE found.best
    BY <1>4, <1>5, MaxOfTwo
  <2>2. (CASE length > found.best -> <<k + 1>>
           [] length = found.best /\ length > 0 -> Append(found.matching, k + 1)
           [] OTHER -> found.matching)
        = IF length > found.best THEN <<k + 1>>
          ELSE IF length = found.best /\ length > 0
          THEN Append(found.matching, k + 1) ELSE found.matching
    BY <1>4, <1>5
  <2> QED BY <1>2, <2>1, <2>2 DEF SearchGroup
<1>7. /\ Append(found.matching, k + 1) \in Seq(1..n) /\ Append(found.wildcard, k + 1) \in Seq(1..n)
      /\ ToSet(Append(found.matching, k + 1)) = ToSet(found.matching) \cup {k + 1}
      /\ ToSet(Append(found.wildcard, k + 1)) = ToSet(found.wildcard) \cup {k + 1}
  <2>1. Append(found.matching, k + 1) \in Seq(1..n) /\ Append(found.wildcard, k + 1) \in Seq(1..n)
    BY <1>4, <1>5
  <2> QED BY <1>5, <2>1, AppendToSet
<1>8. <<k + 1>> \in Seq(1..n) /\ ToSet(<<k + 1>>) = {k + 1}
  BY <1>4 DEF ToSet
<1>9. next \in Found(n)
  <2>1. next.best \in Nat
    BY <1>4, <1>5, <1>6
  <2>2. next.matching \in Seq(1..n) /\ next.wildcard \in Seq(1..n)
    BY <1>5, <1>6, <1>7, <1>8
  <2> QED BY <1>6, <2>1, <2>2 DEF Found
<1>10. ASSUME FoundAmong(gs, visitor, found, k) PROVE FoundAmong(gs, visitor, next, k + 1)
  <2> DEFINE Best(j) == BestMatchForGroup(gs[j], visitor)
  <2>1. /\ \A j \in 1..k : Best(j) <= found.best /\ Best(j) \in Nat
        /\ found.best # 0 => \E j \in 1..k : Best(j) = found.best
        /\ ToSet(found.matching) = {j \in 1..k : found.best # 0 /\ Best(j) = found.best}
        /\ ToSet(found.wildcard) = {j \in 1..k : Star \in ToSet(gs[j].agents)}
    BY <1>1, <1>3, <1>4, <1>10 DEF FoundAmong
  <2>2. 1..(k + 1) = (1..k) \cup {k + 1} /\ Best(k + 1) = length
    BY <1>2
  <2> HIDE DEF Best
  <2>3. \A j \in 1..(k + 1) : Best(j) <= next.best
    BY <1>4, <1>5, <1>6, <2>1, <2>2
  <2>4. next.best # 0 => \E j \in 1..(k + 1) : Best(j) = next.best
    BY <1>4, <1>5, <1>6, <2>1, <2>2
  <2>5. ToSet(next.matching) = {j \in 1..(k + 1) : next.best # 0 /\ Best(j) = next.best}
    <3>1. CASE length > found.best
      <4>1. \A j \in 1..k : Best(j) # length
        BY <1>4, <1>5, <2>1, <3>1
      <4>2. length # 0
        BY <1>4, <1>5, <3>1
      <4> QED BY <1>6, <1>8, <2>2, <3>1, <4>1, <4>2
    <3>2. CASE length = found.best /\ length > 0
      <4>1. next.best = found.best /\ next.matching = Append(found.matching, k + 1)
            /\ found.best # 0
        BY <1>4, <1>5, <1>6, <3>2
      <4> QED BY <1>7, <2>1, <2>2, <3>2, <4>1
    <3>3. CASE ~(length > found.best) /\ ~(length = found.best /\ length > 0)
      <4>1. next.best = found.best /\ next.matching = found.matching
        BY <1>6, <3>3
      <4>2. ~(next.best # 0 /\ Best(k + 1) = next.best)
        BY <1>4, <1>5, <2>2, <3>3, <4>1
      <4> QED BY <2>1, <2>2, <4>1, <4>2
    <3> QED BY <3>1, <3>2, <3>3
  <2>6. ToSet(next.wildcard) = {j \in 1..(k + 1) : Star \in ToSet(gs[j].agents)}
    BY <1>6, <1>7, <2>1, <2>2
  <2> QED BY <2>3, <2>4, <2>5, <2>6 DEF FoundAmong, Best
<1> QED BY <1>1, <1>2, <1>9, <1>10

LEMMA SearchFinds ==
    ASSUME NEW gs \in Seq(Group), NEW visitor \in Visitor
    PROVE  LET found == Searched(gs, visitor)[Len(gs)]
           IN  found \in Found(Len(gs)) /\ FoundAmong(gs, visitor, found, Len(gs))
<1>1. PICK n \in Nat : n = Len(gs)
  OBVIOUS
<1> DEFINE next(found, k) == SearchGroup(gs, visitor, found, k)
           start == [best |-> 0, matching |-> <<>>, wildcard |-> <<>>]
           Solves(f) == f = [k \in 0..n |-> IF k = 0 THEN start ELSE next(f[k - 1], k)]
<1>2. start \in Found(n) /\ FoundAmong(gs, visitor, start, 0)
  BY DEF Found, FoundAmong, ToSet
<1>3. \A found \in Found(n), k \in Nat : k + 1 \in 1..n =>
        /\ next(found, k + 1) \in Found(n)
        /\ FoundAmong(gs, visitor, found, k) => FoundAmong(gs, visitor, next(found, k + 1), k + 1)
  BY <1>1, SearchOneGroup
<1> HIDE DEF next, start
<1>4. \A found \in Found(n), k \in 1..n : next(found, k) \in Found(n)
  <2>1. \A k \in 1..n : k - 1 \in Nat /\ (k - 1) + 1 = k
    BY <1>1
  <2> QED BY <1>3, <2>1
<1>5. \E f : Solves(f)
  <2>1. PICK step \in [1..n -> [Found(n) -> Found(n)]] :
          \A k \in 1..n, s \in Found(n) : step[k][s] = next(s, k)
    <3> DEFINE steps == [k \in 1..n |-> [s \in Found(n) |-> next(s, k)]]
    <3>1. steps \in [1..n -> [Found(n) -> Found(n)]]
      BY <1>4
    <3>2. \A k \in 1..n, s \in Found(n) : steps[k][s] = next(s, k)
      OBVIOUS
    <3> QED BY <3>1, <3>2
  <2>2. PICK f \in [0..n -> Found(n)] : Follows(f, n, start, step)
    BY <1>1, <1>2, <2>1, RecursionExists
  <2>3. ASSUME NEW k \in 0..n
        PROVE  f[k] = IF k = 0 THEN start ELSE next(f[k - 1], k)
    <3>1. CASE k = 0
      BY <2>2, <3>1 DEF Follows
    <3>2. CASE k # 0
      <4>1. k \in 1..n /\ k - 1 \in 0..n
        BY <1>1, <3>2
      <4>2. f[k - 1] \in Found(n) /\ f[k] = step[k][f[k - 1]]
        BY <2>2, <4>1 DEF Follows
      <4> QED BY <2>1, <3>2, <4>1, <4>2
    <3> QED BY <3>1, <3>2
  <2>4. Solves(f)
    BY <2>3
  <2> QED BY <2>4
<1>6. PICK f : Solves(f) /\ Searched(gs, visitor) = f
  <2>1. Solves(CHOOSE f : Solves(f))
    BY <1>5
  <2>2. Searched(gs, visitor) = CHOOSE f : Solves(f)
    BY <1>1 DEF Searched, next, start
  <2> QED BY <2>1, <2>2
<1>7. f[0] = start /\ \A k \in Nat : k + 1 \in 1..n => f[k + 1] = next(f[k], k + 1)
  <2>1. \A k \in 0..n : f[k] = IF k = 0 THEN start ELSE next(f[k - 1], k)
    BY <1>6
  <2>2. 0 \in 0..n
    BY <1>1
  <2>3. \A k \in Nat : k + 1 \in 1..n => k + 1 \in 0..n /\ k + 1 # 0 /\ (k + 1) - 1 = k
    BY <1>1
  <2> QED BY <2>1, <2>2, <2>3
<1> DEFINE S == {k \in Nat : k <= n => f[k] \in Found(n) /\ FoundAmong(gs, visitor, f[k], k)}
<1>8. 0 \in S
  BY <1>2, <1>7
<1>9. ASSUME NEW k \in Nat, k \in S PROVE k + 1 \in S
  <2> SUFFICES ASSUME k + 1 <= n
      PROVE  f[k + 1] \in Found(n) /\ FoundAmong(gs, visitor, f[k + 1], k + 1)
    OBVIOUS
  <2>1. f[k] \in Found(n) /\ FoundAmong(gs, visitor, f[k], k)
    BY <1>1, <1>9
  <2>2. k + 1 \in 1..n
    BY <1>1
  <2> QED BY <1>3, <1>7, <2>1, <2>2
<1> HIDE DEF S
<1>10. n \in S
  BY <1>1, <1>8, <1>9, InductionOver
<1> USE DEF S
<1> QED BY <1>1, <1>6, <1>10

LEMMA EmptyOfSet ==
    ASSUME NEW S, NEW s \in Seq(S)
    PROVE  s = <<>> <=> ToSet(s) = {}
<1>1. s = <<>> <=> Len(s) = 0
  OBVIOUS
<1>2. DOMAIN s = 1..Len(s) /\ Len(s) \in Nat
  OBVIOUS
<1>3. Len(s) # 0 => 1 \in DOMAIN s
  BY <1>2
<1>4. Len(s) = 0 => DOMAIN s = {}
  BY <1>2
<1> QED BY <1>1, <1>3, <1>4 DEF ToSet

(* The search finds the groups RFC 9309 names.                               *)
LEMMA MatchingGoverns ==
    ASSUME groups \in Seq(Group), NEW visitor \in Visitor
    PROVE  /\ MatchingGroups(groups, visitor) \in Seq(1..Len(groups))
           /\ ToSet(MatchingGroups(groups, visitor)) = Governing(visitor)
<1> DEFINE Best(j) == BestMatchForGroup(groups[j], visitor)
           tokens(j) == ToSet(groups[j].agents) \cap TokensIn[visitor]
<1>1. PICK n \in Nat : n = Len(groups) /\ DOMAIN groups = 1..n /\ \A j \in 1..n : groups[j] \in Group
  OBVIOUS
<1>2. PICK found \in Found(n) :
        found = Searched(groups, visitor)[n] /\ FoundAmong(groups, visitor, found, n)
  BY <1>1, SearchFinds
<1>3. /\ found.best \in Nat /\ found.matching \in Seq(1..n) /\ found.wildcard \in Seq(1..n)
      /\ \A j \in 1..n : Best(j) <= found.best
      /\ found.best # 0 => \E j \in 1..n : Best(j) = found.best
      /\ ToSet(found.matching) = {j \in 1..n : found.best # 0 /\ Best(j) = found.best}
      /\ ToSet(found.wildcard) = {j \in 1..n : Star \in ToSet(groups[j].agents)}
  BY <1>2 DEF Found, FoundAmong
<1>4. ASSUME NEW j \in 1..n
      PROVE  /\ Best(j) \in Nat
             /\ \A t \in tokens(j) : TokenLength[t] \in Nat /\ TokenLength[t] <= Best(j)
             /\ Best(j) # 0 => \E t \in tokens(j) : TokenLength[t] = Best(j)
  BY <1>1, BestMatch
<1>5. Named(visitor) = UNION {tokens(j) : j \in 1..n}
  <2>1. \A x : x \in Named(visitor) <=> \E j \in 1..n : x \in tokens(j)
    BY <1>1 DEF Named
  <2> QED BY <2>1
<1>6. Governing(visitor) = {j \in 1..n : ToSet(groups[j].agents) \cap GoverningTokens(visitor) # {}}
  BY <1>1 DEF Governing
<1>7. found.matching = <<>> <=> ToSet(found.matching) = {}
  BY <1>3, EmptyOfSet
<1>8. MatchingGroups(groups, visitor) =
        IF found.matching # <<>> THEN found.matching ELSE found.wildcard
  BY <1>1, <1>2 DEF MatchingGroups
<1> HIDE DEF Best
<1>9. \A t \in Named(visitor) : TokenLength[t] \in Nat /\ TokenLength[t] <= found.best
  <2> SUFFICES ASSUME NEW t \in Named(visitor)
      PROVE  TokenLength[t] \in Nat /\ TokenLength[t] <= found.best
    OBVIOUS
  <2>1. PICK j \in 1..n : t \in tokens(j)
    BY <1>5
  <2> QED BY <1>3, <1>4, <2>1
<1>10. CASE found.best = 0
  <2>1. GoverningTokens(visitor) = {Star}
    BY <1>9, <1>10 DEF GoverningTokens
  <2>2. found.matching = <<>>
    BY <1>3, <1>7, <1>10
  <2> QED BY <1>1, <1>3, <1>6, <1>8, <2>1, <2>2
<1>11. CASE found.best # 0
  <2>1. PICK i \in 1..n : Best(i) = found.best /\ \E u \in tokens(i) : TokenLength[u] = found.best
    BY <1>3, <1>4, <1>11
  <2>0. PICK u \in tokens(i) : TokenLength[u] = found.best
    BY <2>1
  <2>2. u \in Named(visitor)
    BY <1>5, <2>1, <2>0
  <2>3. GoverningTokens(visitor) = {t \in Named(visitor) : TokenLength[t] = found.best}
    <3>1. GoverningTokens(visitor) =
            {t \in Named(visitor) : \A v \in Named(visitor) : TokenLength[v] <= TokenLength[t]}
      BY <1>11, <2>0, <2>2 DEF GoverningTokens
    <3>2. ASSUME NEW t \in Named(visitor)
          PROVE  (\A v \in Named(visitor) : TokenLength[v] <= TokenLength[t])
                 <=> TokenLength[t] = found.best
      BY <1>3, <1>9, <2>0, <2>2
    <3> QED BY <3>1, <3>2
  <2>4. ASSUME NEW j \in 1..n
        PROVE  ToSet(groups[j].agents) \cap GoverningTokens(visitor) # {} <=> Best(j) = found.best
    <3>1. ASSUME NEW t \in ToSet(groups[j].agents), t \in GoverningTokens(visitor)
          PROVE  Best(j) = found.best
      <4>1. t \in tokens(j) /\ TokenLength[t] = found.best
        <5>1. t \in Named(visitor) /\ TokenLength[t] = found.best
          BY <2>3, <3>1
        <5>2. t \in TokensIn[visitor]
          BY <1>5, <5>1
        <5> QED BY <3>1, <5>1, <5>2
      <4> QED BY <1>3, <1>4, <4>1
    <3>2. ASSUME Best(j) = found.best
          PROVE  \E t \in ToSet(groups[j].agents) : t \in GoverningTokens(visitor)
      <4>1. PICK t \in tokens(j) : TokenLength[t] = found.best
        BY <1>4, <1>11, <3>2
      <4> QED BY <1>5, <2>3, <4>1
    <3> QED BY <3>1, <3>2
  <2>5. Governing(visitor) = ToSet(found.matching) /\ found.matching # <<>>
    BY <1>3, <1>6, <1>7, <1>11, <2>1, <2>4
  <2> QED BY <1>1, <1>3, <1>8, <2>5
<1> QED BY <1>10, <1>11

-----------------------------------------------------------------------------
(* A merged group has the rules of its groups.                               *)

LEMMA ConcatToSet ==
    ASSUME NEW S, NEW a \in Seq(S), NEW b \in Seq(S)
    PROVE  a \o b \in Seq(S) /\ ToSet(a \o b) = ToSet(a) \cup ToSet(b)
<1>1. PICK m \in Nat, n \in Nat :
        m = Len(a) /\ n = Len(b) /\ DOMAIN a = 1..m /\ DOMAIN b = 1..n
  OBVIOUS
<1>2. /\ a \o b \in Seq(S) /\ DOMAIN (a \o b) = 1..(m + n)
      /\ \A i \in 1..m : (a \o b)[i] = a[i]
      /\ \A i \in 1..n : (a \o b)[m + i] = b[i]
  BY <1>1
<1>3. ASSUME NEW x PROVE x \in ToSet(a \o b) <=> x \in ToSet(a) \cup ToSet(b)
  <2>1. ASSUME NEW i \in 1..(m + n) PROVE (a \o b)[i] \in ToSet(a) \cup ToSet(b)
    <3>1. CASE i <= m
      BY <1>1, <1>2, <3>1 DEF ToSet
    <3>2. CASE i > m
      <4>1. i - m \in 1..n /\ i = m + (i - m)
        BY <1>1, <3>2
      <4> QED BY <1>1, <1>2, <4>1 DEF ToSet
    <3> QED BY <1>1, <3>1, <3>2
  <2>2. \A i \in 1..m : a[i] \in ToSet(a \o b)
    <3>1. \A i \in 1..m : i \in 1..(m + n)
      BY <1>1
    <3> QED BY <1>2, <3>1 DEF ToSet
  <2>3. \A i \in 1..n : b[i] \in ToSet(a \o b)
    <3>1. \A i \in 1..n : m + i \in 1..(m + n)
      BY <1>1
    <3> QED BY <1>2, <3>1 DEF ToSet
  <2>4. /\ ToSet(a \o b) = {(a \o b)[i] : i \in 1..(m + n)}
        /\ ToSet(a) = {a[i] : i \in 1..m} /\ ToSet(b) = {b[i] : i \in 1..n}
    BY <1>1, <1>2 DEF ToSet
  <2> QED BY <2>1, <2>2, <2>3, <2>4
<1> QED BY <1>2, <1>3

(* FlattenSeq joins one sequence after the other.                            *)
LEMMA FlattenSteps ==
    ASSUME NEW S, NEW seqs \in Seq(Seq(S)), seqs # <<>>
    PROVE  \E f : /\ FlattenSeq(seqs) = f[Len(seqs)] /\ f[1] = seqs[1]
                  /\ \A k \in Nat : k # 0 /\ k + 1 \in 1..Len(seqs) =>
                                     f[k + 1] = f[k] \o seqs[k + 1]
<1>1. PICK n \in Nat :
        /\ n = Len(seqs) /\ DOMAIN seqs = 1..n /\ n >= 1 /\ n - 1 \in Nat
        /\ \A i \in 1..n : seqs[i] \in Seq(S)
  OBVIOUS
<1> DEFINE join(s, k) == s \o seqs[k]
           Solves(f) == f = [i \in 1..n |-> IF i = 1 THEN seqs[i] ELSE join(f[i - 1], i)]
<1>2. \A s \in Seq(S), k \in 1..n :
        join(s, k) \in Seq(S) /\ ToSet(join(s, k)) = ToSet(s) \cup ToSet(seqs[k])
  BY <1>1, ConcatToSet
<1> HIDE DEF join
<1>3. \E f : Solves(f)
  <2>1. PICK step \in [1..(n - 1) -> [Seq(S) -> Seq(S)]] :
          \A k \in 1..(n - 1), s \in Seq(S) : step[k][s] = join(s, k + 1)
    <3> DEFINE next == [k \in 1..(n - 1) |-> [s \in Seq(S) |-> join(s, k + 1)]]
    <3>1. \A k \in 1..(n - 1) : k + 1 \in 1..n
      BY <1>1
    <3>2. next \in [1..(n - 1) -> [Seq(S) -> Seq(S)]]
      BY <1>2, <3>1
    <3>3. \A k \in 1..(n - 1), s \in Seq(S) : next[k][s] = join(s, k + 1)
      OBVIOUS
    <3> QED BY <3>2, <3>3
  <2>2. PICK g \in [0..(n - 1) -> Seq(S)] : Follows(g, n - 1, seqs[1], step)
    <3>1. seqs[1] \in Seq(S)
      BY <1>1
    <3> QED BY <1>1, <2>1, <3>1, RecursionExists
  <2> DEFINE f == [i \in 1..n |-> g[i - 1]]
  <2>3. ASSUME NEW i \in 1..n
        PROVE  f[i] = IF i = 1 THEN seqs[i] ELSE join(f[i - 1], i)
    <3>1. CASE i = 1
      BY <2>2, <3>1 DEF Follows
    <3>2. CASE i # 1
      <4>1. /\ i - 1 \in 1..n /\ i - 1 \in 1..(n - 1) /\ (i - 1) - 1 \in 0..(n - 1)
            /\ (i - 1) + 1 = i
        BY <1>1, <3>2
      <4>2. g[(i - 1) - 1] \in Seq(S) /\ g[i - 1] = step[i - 1][g[(i - 1) - 1]]
        BY <2>2, <4>1 DEF Follows
      <4>3. f[i] = g[i - 1] /\ f[i - 1] = g[(i - 1) - 1]
        BY <4>1
      <4>4. g[i - 1] = join(g[(i - 1) - 1], i)
        BY <2>1, <4>1, <4>2
      <4> QED BY <3>2, <4>3, <4>4
    <3> QED BY <3>1, <3>2
  <2> HIDE DEF f
  <2>4. f = [i \in 1..n |-> IF i = 1 THEN seqs[i] ELSE join(f[i - 1], i)]
    <3>1. f = [i \in 1..n |-> f[i]]
      BY DEF f
    <3> QED BY <2>3, <3>1
  <2> QED BY <2>4
<1>4. PICK f : Solves(f) /\ FlattenSeq(seqs) = f[n]
  <2>1. Solves(CHOOSE f : Solves(f))
    BY <1>3
  <2>2. FlattenSeq(seqs) = (CHOOSE f : Solves(f))[n]
    BY <1>1 DEF FlattenSeq, join
  <2> QED BY <2>1, <2>2
<1>5. f[1] = seqs[1] /\ \A k \in Nat : k # 0 /\ k + 1 \in 1..n => f[k + 1] = join(f[k], k + 1)
  <2>1. \A i \in 1..n : f[i] = IF i = 1 THEN seqs[i] ELSE join(f[i - 1], i)
    BY <1>4
  <2>2. 1 \in 1..n
    BY <1>1
  <2>3. \A k \in Nat : k # 0 => k + 1 # 1 /\ (k + 1) - 1 = k
    OBVIOUS
  <2> QED BY <2>1, <2>2, <2>3
<1> QED BY <1>1, <1>4, <1>5 DEF join

LEMMA FlattenToSet ==
    ASSUME NEW S, NEW seqs \in Seq(Seq(S)), seqs # <<>>
    PROVE  /\ FlattenSeq(seqs) \in Seq(S)
           /\ ToSet(FlattenSeq(seqs)) = UNION {ToSet(seqs[i]) : i \in DOMAIN seqs}
<1>1. PICK n \in Nat :
        /\ n = Len(seqs) /\ DOMAIN seqs = 1..n /\ n >= 1 /\ n - 1 \in Nat
        /\ \A i \in 1..n : seqs[i] \in Seq(S)
  OBVIOUS
<1> DEFINE join(s, k) == s \o seqs[k]
<1>2. \A s \in Seq(S), k \in 1..n :
        join(s, k) \in Seq(S) /\ ToSet(join(s, k)) = ToSet(s) \cup ToSet(seqs[k])
  BY <1>1, ConcatToSet
<1>4. PICK f : /\ FlattenSeq(seqs) = f[n] /\ f[1] = seqs[1]
               /\ \A k \in Nat : k # 0 /\ k + 1 \in 1..n => f[k + 1] = join(f[k], k + 1)
  BY <1>1, FlattenSteps
<1>5. f[1] = seqs[1] /\ \A k \in Nat : k # 0 /\ k + 1 \in 1..n => f[k + 1] = join(f[k], k + 1)
  BY <1>4
<1> HIDE DEF join
<1> DEFINE P(k) == f[k] \in Seq(S) /\ ToSet(f[k]) = UNION {ToSet(seqs[i]) : i \in 1..k}
           T == {k \in Nat : k # 0 /\ k <= n => P(k)}
<1>6. 0 \in T
  OBVIOUS
<1>7. ASSUME NEW k \in Nat, k \in T PROVE k + 1 \in T
  <2> SUFFICES ASSUME k + 1 <= n PROVE P(k + 1)
    OBVIOUS
  <2>1. k + 1 \in 1..n /\ 1..(k + 1) = (1..k) \cup {k + 1}
    BY <1>1
  <2>2. CASE k = 0
    <3>1. f[k + 1] = seqs[1] /\ seqs[1] \in Seq(S) /\ 1..(k + 1) = {1}
      BY <1>1, <1>5, <2>1, <2>2
    <3> QED BY <3>1
  <2>3. CASE k # 0
    <3>1. f[k] \in Seq(S) /\ ToSet(f[k]) = UNION {ToSet(seqs[i]) : i \in 1..k}
      BY <1>1, <1>7, <2>3
    <3>2. f[k + 1] = join(f[k], k + 1)
      BY <1>5, <2>1, <2>3
    <3>3. f[k + 1] \in Seq(S) /\ ToSet(f[k + 1]) = ToSet(f[k]) \cup ToSet(seqs[k + 1])
      BY <1>2, <2>1, <3>1, <3>2
    <3> QED BY <2>1, <3>1, <3>3
  <2> QED BY <2>2, <2>3
<1> HIDE DEF T
<1>8. n \in T
  BY <1>1, <1>6, <1>7, InductionOver
<1> USE DEF T
<1>9. P(n)
  BY <1>1, <1>8
<1> QED BY <1>1, <1>4, <1>9

LEMMA MergeRules ==
    ASSUME NEW gs \in Seq(Group), NEW matching \in Seq(1..Len(gs)), matching # <<>>
    PROVE  LET merged == MergeMatchingGroups(gs, matching)
           IN  /\ merged.allow \in Seq(Pattern) /\ merged.disallow \in Seq(Pattern)
               /\ ToSet(merged.allow) = UNION {ToSet(gs[k].allow) : k \in ToSet(matching)}
               /\ ToSet(merged.disallow) = UNION {ToSet(gs[k].disallow) : k \in ToSet(matching)}
<1>1. PICK n \in Nat : n = Len(matching) /\ DOMAIN matching = 1..n /\ n # 0
  OBVIOUS
<1>2. \A i \in 1..n : matching[i] \in 1..Len(gs) /\ gs[matching[i]] \in Group
  <2>1. \A i \in 1..n : matching[i] \in 1..Len(gs)
    BY <1>1
  <2>2. \A k \in 1..Len(gs) : gs[k] \in Group
    OBVIOUS
  <2> QED BY <2>1, <2>2
<1> DEFINE for == [i \in 1..n |-> gs[matching[i]].allow]
           against == [i \in 1..n |-> gs[matching[i]].disallow]
<1>3. \A i \in 1..n : gs[matching[i]].allow \in Seq(Pattern) /\ gs[matching[i]].disallow \in Seq(Pattern)
  BY <1>2 DEF Group
<1>4. for \in Seq(Seq(Pattern)) /\ DOMAIN for = 1..n /\ for # <<>>
  BY <1>1, <1>3
<1>5. against \in Seq(Seq(Pattern)) /\ DOMAIN against = 1..n /\ against # <<>>
  BY <1>1, <1>3
<1>6. /\ MergeMatchingGroups(gs, matching).allow = FlattenSeq(for)
      /\ MergeMatchingGroups(gs, matching).disallow = FlattenSeq(against)
  BY <1>1 DEF MergeMatchingGroups
<1>7. UNION {ToSet(for[i]) : i \in 1..n} = UNION {ToSet(gs[k].allow) : k \in ToSet(matching)}
  BY <1>1 DEF ToSet
<1>8. UNION {ToSet(against[i]) : i \in 1..n}
        = UNION {ToSet(gs[k].disallow) : k \in ToSet(matching)}
  BY <1>1 DEF ToSet
<1>9. /\ FlattenSeq(for) \in Seq(Pattern)
      /\ ToSet(FlattenSeq(for)) = UNION {ToSet(for[i]) : i \in DOMAIN for}
  BY <1>4, FlattenToSet
<1>10. /\ FlattenSeq(against) \in Seq(Pattern)
       /\ ToSet(FlattenSeq(against)) = UNION {ToSet(against[i]) : i \in DOMAIN against}
  BY <1>5, FlattenToSet
<1> HIDE DEF for, against
<1> QED BY <1>4, <1>5, <1>6, <1>7, <1>8, <1>9, <1>10

-----------------------------------------------------------------------------
(* The cache.  What is compiled is what the group has now, unless the caller *)
(* edited the group since.                                                   *)

CacheIsCurrent ==
    groups # Null =>
        \A k \in DOMAIN groups :
            cache[k] # Null /\ k \notin edited => cache[k] = Compile(groups[k])

CacheInv ==
    /\ TypeOK
    /\ groups = Null => edited = {}
    /\ CacheIsCurrent

LEMMA AnswerOfRules ==
    ASSUME CacheInv, groups # Null, NEW visitor \in Visitor, NEW path \in Path,
           Governing(visitor) \cap edited = {}
    PROVE  Answer(visitor, path) <=> Permitted(visitor, path)
<1>1. groups \in Seq(Group)
  BY DEF CacheInv, TypeOK
<1>2. PICK matching \in Seq(1..Len(groups)) :
        matching = MatchingGroups(groups, visitor) /\ ToSet(matching) = Governing(visitor)
  BY <1>1, MatchingGoverns
<1> DEFINE for == UNION {ToSet(groups[k].allow) : k \in Governing(visitor)}
           against == UNION {ToSet(groups[k].disallow) : k \in Governing(visitor)}
<1>3. Permitted(visitor, path) <=> LetsPass(for, against, path)
  BY DEF Permitted, LetsPass
<1>4. Answer(visitor, path) <=>
        matching = <<>> \/ Verdict(CompiledFor(groups, cache, matching), path)
  BY <1>2 DEF Answer, IsAllowed
<1> HIDE DEF for, against
<1>5. CASE matching = <<>>
  <2>1. Governing(visitor) = {}
    BY <1>2, <1>5 DEF ToSet
  <2>2. against = {}
    BY <2>1 DEF against
  <2> QED BY <1>3, <1>4, <1>5, <2>2 DEF LetsPass
<1>6. CASE Len(matching) > 1
  <2>1. matching # <<>>
    BY <1>6
  <2>2. PICK merged :
          /\ merged = MergeMatchingGroups(groups, matching)
          /\ merged.allow \in Seq(Pattern) /\ merged.disallow \in Seq(Pattern)
          /\ ToSet(merged.allow) = for /\ ToSet(merged.disallow) = against
    BY <1>1, <1>2, <2>1, MergeRules DEF for, against
  <2>3. Verdict(Compile(merged), path) <=> LetsPass(for, against, path)
    BY <2>2, VerdictOfRules
  <2>4. CompiledFor(groups, cache, matching) = Compile(merged)
    BY <1>6, <2>2 DEF CompiledFor
  <2> QED BY <1>3, <1>4, <2>1, <2>3, <2>4
<1>7. CASE matching # <<>> /\ ~(Len(matching) > 1)
  <2>1. Len(matching) = 1 /\ DOMAIN matching = {1}
    <3>1. Len(matching) \in Nat /\ Len(matching) # 0 /\ DOMAIN matching = 1..Len(matching)
      BY <1>7
    <3> QED BY <1>7, <3>1
  <2>2. PICK k \in 1..Len(groups) : k = matching[1]
    BY <2>1
  <2>3. Governing(visitor) = {k}
    BY <1>2, <2>1, <2>2 DEF ToSet
  <2>4. /\ groups[k] \in Group /\ groups[k].allow \in Seq(Pattern)
        /\ groups[k].disallow \in Seq(Pattern) /\ DOMAIN groups = 1..Len(groups)
    <3>1. groups[k] \in Group
      BY <1>1
    <3> QED BY <1>1, <3>1 DEF Group
  <2>5. for = ToSet(groups[k].allow) /\ against = ToSet(groups[k].disallow)
    BY <2>3 DEF for, against
  <2>6. CompiledFor(groups, cache, matching) = IF cache[k] # Null THEN cache[k] ELSE Compile(groups[k])
    BY <1>7, <2>2 DEF CompiledFor
  <2>7. CompiledFor(groups, cache, matching) = Compile(groups[k])
    <3>1. k \notin edited /\ k \in DOMAIN groups
      BY <2>3, <2>4
    <3>2. cache[k] # Null => cache[k] = Compile(groups[k])
      BY <3>1 DEF CacheInv, CacheIsCurrent
    <3> QED BY <2>6, <3>2
  <2>8. Verdict(Compile(groups[k]), path) <=> LetsPass(for, against, path)
    BY <2>4, <2>5, VerdictOfRules
  <2> QED BY <1>3, <1>4, <1>7, <2>7, <2>8
<1> QED BY <1>5, <1>6, <1>7

-----------------------------------------------------------------------------

LEMMA CompileTypes ==
    ASSUME NEW group \in Group
    PROVE  Compile(group) \in Compiled
<1>1. group.allow \in Seq(Pattern) /\ group.disallow \in Seq(Pattern)
  BY DEF Group
<1>2. Sorted(group.allow) \in Seq(Pattern) /\ Sorted(group.disallow) \in Seq(Pattern)
  BY <1>1, SortedRules
<1> QED BY <1>2 DEF Compile, Compiled

LEMMA ReplacedInSeq ==
    ASSUME NEW S, NEW s \in Seq(S), NEW k \in DOMAIN s, NEW e \in S
    PROVE  /\ [s EXCEPT ![k] = e] \in Seq(S) /\ Len([s EXCEPT ![k] = e]) = Len(s)
           /\ DOMAIN [s EXCEPT ![k] = e] = DOMAIN s
           /\ [s EXCEPT ![k] = e][k] = e
           /\ \A j \in DOMAIN s : j # k => [s EXCEPT ![k] = e][j] = s[j]
OBVIOUS

LEMMA ConstantInSeq ==
    ASSUME NEW S, NEW e \in S, NEW n \in Nat
    PROVE  [k \in 1..n |-> e] \in Seq(S) /\ Len([k \in 1..n |-> e]) = n
OBVIOUS

LEMMA EndOfFileStep ==
    ASSUME CacheInv, ParserInv, EndOfFile
    PROVE  groups' \in Seq(Group) /\ cache' \in Seq({Null} \cup Compiled)
           /\ Len(cache') = Len(groups') /\ edited' = {}
           /\ DOMAIN groups' = 1..Len(groups') /\ \A k \in DOMAIN groups' : cache'[k] = Null
<1>1. groups' \in Seq(Group)
  <2>1. /\ parser.groups \in Seq(Group)
        /\ parser.open # Null => Append(parser.groups, parser.open) \in Seq(Group)
    BY DEF ParserInv, Parser
  <2>2. groups' = IF parser.open = Null THEN parser.groups ELSE Append(parser.groups, parser.open)
    BY DEF EndOfFile, Config
  <2> QED BY <2>1, <2>2
<1>2. PICK n \in Nat : n = Len(groups') /\ DOMAIN groups' = 1..n
  BY <1>1
<1>3. cache' = [k \in 1..n |-> Null]
  BY <1>2 DEF EndOfFile
<1>4. cache' \in Seq({Null} \cup Compiled) /\ Len(cache') = n
  BY <1>3, ConstantInSeq
<1>5. edited' = {}
  BY DEF EndOfFile, CacheInv
<1> QED BY <1>1, <1>2, <1>3, <1>4, <1>5

LEMMA AddRuleStep ==
    ASSUME CacheInv, NEW k, NEW pattern \in Pattern, AddRule(k, pattern)
    PROVE  CacheInv'
<1>1. /\ groups \in Seq(Group) /\ k \in DOMAIN groups /\ groups[k] \in Group /\ groups # Null
      /\ cache' = cache /\ text' = text /\ parser' = parser
      /\ Len(cache) = Len(groups) /\ cache \in Seq({Null} \cup Compiled) /\ edited \subseteq DOMAIN cache
  <2>1. groups \in Seq(Group) /\ k \in DOMAIN groups
    BY DEF AddRule, CacheInv, TypeOK
  <2>2. groups[k] \in Group
    BY <2>1
  <2> QED BY <2>1, <2>2 DEF AddRule, CacheInv, TypeOK
<1>2. PICK group \in Group : groups' = [groups EXCEPT ![k] = group]
  <2>1. /\ groups[k].allow \in Seq(Pattern) /\ groups[k].disallow \in Seq(Pattern)
    BY <1>1 DEF Group
  <2>2. /\ Append(groups[k].allow, pattern) \in Seq(Pattern)
        /\ Append(groups[k].disallow, pattern) \in Seq(Pattern)
    BY <2>1
  <2>3. /\ [groups[k] EXCEPT !.allow = Append(groups[k].allow, pattern)] \in Group
        /\ [groups[k] EXCEPT !.disallow = Append(groups[k].disallow, pattern)] \in Group
    BY <1>1, <2>2 DEF Group
  <2>4. \/ groups' = [groups EXCEPT ![k] =
                         [groups[k] EXCEPT !.allow = Append(groups[k].allow, pattern)]]
        \/ groups' = [groups EXCEPT ![k] =
                         [groups[k] EXCEPT !.disallow = Append(groups[k].disallow, pattern)]]
    BY DEF AddRule
  <2> QED BY <2>3, <2>4
<1>3. /\ groups' \in Seq(Group) /\ Len(groups') = Len(groups) /\ DOMAIN groups' = DOMAIN groups
      /\ \A j \in DOMAIN groups : j # k => groups'[j] = groups[j]
  BY <1>1, <1>2, ReplacedInSeq
<1>4. edited' = IF cache[k] = Null THEN edited ELSE edited \cup {k}
  BY DEF AddRule
<1>5. groups' # Null
  BY <1>3, AbsentAssumption
<1>6. TypeOK'
  <2>1. k \in DOMAIN cache
    <3>1. DOMAIN cache = 1..Len(cache) /\ DOMAIN groups = 1..Len(groups)
      BY <1>1
    <3> QED BY <1>1, <3>1
  <2> QED BY <1>1, <1>3, <1>4, <2>1 DEF CacheInv, TypeOK
<1>7. CacheIsCurrent'
  <2> SUFFICES ASSUME NEW j \in DOMAIN groups, cache[j] # Null, j \notin edited'
      PROVE  cache[j] = Compile(groups'[j])
    BY <1>1, <1>3 DEF CacheIsCurrent
  <2>1. j # k /\ j \notin edited
    BY <1>4
  <2>2. groups'[j] = groups[j]
    BY <1>3, <2>1
  <2>3. cache[j] = Compile(groups[j])
    BY <1>1, <2>1 DEF CacheInv, CacheIsCurrent
  <2> QED BY <2>2, <2>3
<1> QED BY <1>5, <1>6, <1>7 DEF CacheInv

LEMMA AskStep ==
    ASSUME CacheInv, NEW visitor \in Visitor, Ask(visitor)
    PROVE  CacheInv'
<1>1. /\ groups # Null /\ MatchingGroups(groups, visitor) # <<>>
      /\ groups' = groups /\ edited' = edited /\ text' = text /\ parser' = parser
  BY DEF Ask
<1>2. /\ groups \in Seq(Group) /\ Len(cache) = Len(groups) /\ cache \in Seq({Null} \cup Compiled)
      /\ edited \subseteq DOMAIN cache
  BY <1>1 DEF CacheInv, TypeOK
<1>3. PICK matching \in Seq(1..Len(groups)) : matching = MatchingGroups(groups, visitor)
  BY <1>2, MatchingGoverns
<1>4. cache' = IF Len(matching) > 1 THEN cache
               ELSE [cache EXCEPT ![matching[1]] = CompiledFor(groups, cache, matching)]
  BY <1>1, <1>3 DEF Ask
<1>5. CASE Len(matching) > 1
  <2>1. cache' = cache
    BY <1>4, <1>5
  <2> QED BY <1>1, <2>1 DEF CacheInv, CacheIsCurrent, TypeOK
<1>6. CASE ~(Len(matching) > 1)
  <2>1. PICK k \in 1..Len(groups) : k = matching[1]
    <3>1. Len(matching) \in Nat /\ Len(matching) # 0
      BY <1>1, <1>3
    <3> QED BY <3>1
  <2>2. /\ k \in DOMAIN groups /\ k \in DOMAIN cache /\ groups[k] \in Group
        /\ DOMAIN groups = DOMAIN cache /\ cache[k] \in {Null} \cup Compiled
    <3>1. DOMAIN cache = 1..Len(cache) /\ DOMAIN groups = 1..Len(groups)
      BY <1>2
    <3>2. k \in DOMAIN groups /\ k \in DOMAIN cache
      BY <1>2, <3>1
    <3> QED BY <1>2, <3>1, <3>2
  <2>3. PICK compiled :
          /\ compiled = (IF cache[k] # Null THEN cache[k] ELSE Compile(groups[k]))
          /\ cache' = [cache EXCEPT ![k] = compiled]
    BY <1>4, <1>6, <2>1 DEF CompiledFor
  <2>4. compiled \in {Null} \cup Compiled
    BY <2>2, <2>3, CompileTypes
  <2>5. /\ cache' \in Seq({Null} \cup Compiled) /\ Len(cache') = Len(cache)
        /\ DOMAIN cache' = DOMAIN cache /\ cache'[k] = compiled
        /\ \A j \in DOMAIN cache : j # k => cache'[j] = cache[j]
    BY <1>2, <2>2, <2>3, <2>4, ReplacedInSeq
  <2>6. TypeOK'
    BY <1>1, <1>2, <2>5 DEF CacheInv, TypeOK
  <2>7. CacheIsCurrent'
    <3> SUFFICES ASSUME NEW j \in DOMAIN groups, cache'[j] # Null, j \notin edited
        PROVE  cache'[j] = Compile(groups[j])
      BY <1>1 DEF CacheIsCurrent
    <3>1. CASE j = k
      BY <1>1, <2>3, <2>5, <3>1 DEF CacheInv, CacheIsCurrent
    <3>2. CASE j # k
      <4>1. cache'[j] = cache[j]
        BY <2>2, <2>5, <3>2
      <4> QED BY <1>1, <4>1 DEF CacheInv, CacheIsCurrent
    <3> QED BY <3>1, <3>2
  <2> QED BY <1>1, <2>6, <2>7 DEF CacheInv
<1> QED BY <1>5, <1>6

LEMMA CacheStart == Init => CacheInv
<1> SUFFICES ASSUME Init PROVE CacheInv
  OBVIOUS
<1>1. text \in Seq(Line) /\ parser \in Parser
  BY ParserStart DEF Init, ParserInv
<1>2. cache \in Seq({Null} \cup Compiled)
  BY DEF Init
<1> QED BY <1>1, <1>2 DEF Init, CacheInv, CacheIsCurrent, TypeOK

LEMMA CacheNext == ParserInv /\ ParserInv' /\ CacheInv /\ [Next]_vars => CacheInv'
<1> SUFFICES ASSUME ParserInv, ParserInv', CacheInv, [Next]_vars PROVE CacheInv'
  OBVIOUS
<1>1. text' \in Seq(Line) /\ parser' \in Parser
  BY DEF ParserInv
<1>2. CASE EndOfFile
  <2>1. /\ groups' \in Seq(Group) /\ cache' \in Seq({Null} \cup Compiled)
        /\ Len(cache') = Len(groups') /\ edited' = {}
        /\ DOMAIN groups' = 1..Len(groups') /\ \A k \in DOMAIN groups' : cache'[k] = Null
    BY <1>2, EndOfFileStep
  <2> QED BY <1>1, <2>1 DEF CacheInv, CacheIsCurrent, TypeOK
<1>3. CASE Fetch
  <2>1. groups' = Null /\ cache' = <<>> /\ edited' = {}
    BY <1>3 DEF Fetch
  <2>2. cache' \in Seq({Null} \cup Compiled)
    BY <2>1
  <2> QED BY <1>1, <2>1, <2>2 DEF CacheInv, CacheIsCurrent, TypeOK
<1>4. ASSUME NEW k \in 1..MaxLines, NEW pattern \in Pattern, AddRule(k, pattern) PROVE CacheInv'
  BY <1>4, AddRuleStep
<1>5. ASSUME NEW visitor \in Visitor, Ask(visitor) PROVE CacheInv'
  BY <1>5, AskStep
<1>6. CASE UNCHANGED <<groups, cache, edited>>
  BY <1>1, <1>6 DEF CacheInv, CacheIsCurrent, TypeOK
<1>7. \/ EndOfFile \/ Fetch \/ UNCHANGED <<groups, cache, edited>>
      \/ \E k \in 1..MaxLines, pattern \in Pattern : AddRule(k, pattern)
      \/ \E visitor \in Visitor : Ask(visitor)
  BY DEF Next, ReadLine, vars
<1> QED BY <1>2, <1>3, <1>4, <1>5, <1>6, <1>7

(* The parser's variables, the groups, the cache and the record of edits are *)
(* of their types, for every file and every order of calls.                  *)
THEOREM CrawlerTypes == Spec => []TypeOK
<1>1. Init => ParserInv
  BY ParserStart DEF Init
<1>2. CacheInv => TypeOK
  BY DEF CacheInv
<1> QED BY <1>1, <1>2, CacheStart, ParserNext, CacheNext, PTL DEF Spec

(* isAllowed answers as the longest rule of the governing groups says, for   *)
(* every file, visitor and path and however often it was asked: search,      *)
(* merge, sort, first match and cache together give what RFC 9309 says of    *)
(* the names and rules.                                                      *)
THEOREM IsAllowedFollowsRules == Spec => []AnswersFollowRules
<1>1. Init => ParserInv
  BY ParserStart DEF Init
<1>2. CacheInv => AnswersFollowRules
  BY AnswerOfRules DEF AnswersFollowRules
<1> QED BY <1>1, <1>2, CacheStart, ParserNext, CacheNext, PTL DEF Spec

-----------------------------------------------------------------------------
(* What is written is read back.  A file is read line by line from one state *)
(* of the parser to the next; the state is given with all it holds.          *)

(* The parser gets from a state to another by reading lines.                 *)
Reads(before, lines, after) ==
    \E f : /\ f[0] = before /\ f[Len(lines)] = after
           /\ \A k \in 1..Len(lines) : f[k] = ParseLine(f[k - 1], lines[k])

LEMMA ReadsNothing == ASSUME NEW state PROVE Reads(state, <<>>, state)
<1> DEFINE f == [k \in {0} |-> state]
<1>1. f[0] = state /\ f[Len(<<>>)] = state /\ \A k \in 1..Len(<<>>) : FALSE
  OBVIOUS
<1> QED BY <1>1, Zenon DEF Reads

LEMMA ReadsOn ==
    ASSUME NEW S, NEW first \in Seq(S), NEW second \in Seq(S), NEW a, NEW b, NEW c,
           Reads(a, first, b), Reads(b, second, c)
    PROVE  Reads(a, first \o second, c)
<1>1. PICK m \in Nat, n \in Nat : m = Len(first) /\ n = Len(second) /\ m + n \in Nat
  OBVIOUS
<1>2. /\ Len(first \o second) = m + n
      /\ \A k \in 1..m : (first \o second)[k] = first[k]
      /\ \A k \in (m + 1)..(m + n) : (first \o second)[k] = second[k - m]
  BY <1>1
<1>3. PICK f : f[0] = a /\ f[m] = b /\ \A k \in 1..m : f[k] = ParseLine(f[k - 1], first[k])
  BY <1>1, Zenon DEF Reads
<1>4. PICK g : g[0] = b /\ g[n] = c /\ \A k \in 1..n : g[k] = ParseLine(g[k - 1], second[k])
  BY <1>1, Zenon DEF Reads
<1> DEFINE h == [k \in 0..(m + n) |-> IF k <= m THEN f[k] ELSE g[k - m]]
<1>5. h[0] = a
  BY <1>1, <1>3
<1>6. h[m + n] = c
  <2>1. m + n \in 0..(m + n) /\ (m + n) - m = n /\ (m + n <= m => n = 0 /\ m + n = m)
    BY <1>1
  <2> QED BY <2>1, <1>3, <1>4
<1>7. ASSUME NEW k \in 1..(m + n) PROVE h[k] = ParseLine(h[k - 1], (first \o second)[k])
  <2>1. CASE k <= m
    <3>1. k \in 1..m /\ k \in 0..(m + n) /\ k - 1 \in 0..(m + n) /\ k - 1 <= m
      BY <1>1, <2>1
    <3>2. h[k] = f[k] /\ h[k - 1] = f[k - 1] /\ (first \o second)[k] = first[k]
      BY <1>2, <2>1, <3>1
    <3> QED BY <1>3, <3>1, <3>2, Zenon
  <2>2. CASE k > m
    <3>1. /\ k - m \in 1..n /\ k \in 0..(m + n) /\ k - 1 \in 0..(m + n)
          /\ k \in (m + 1)..(m + n) /\ ~ (k <= m) /\ (k - 1) - m = (k - m) - 1
          /\ (k - 1 <= m => k - 1 = m /\ (k - m) - 1 = 0)
      BY <1>1, <2>2
    <3>2. h[k] = g[k - m] /\ (first \o second)[k] = second[k - m]
      BY <1>2, <3>1
    <3>3. h[k - 1] = g[(k - m) - 1]
      <4>1. h[k - 1] = IF k - 1 <= m THEN f[k - 1] ELSE g[(k - m) - 1]
        BY <3>1
      <4> QED BY <4>1, <3>1, <1>3, <1>4
    <3> QED BY <1>4, <3>1, <3>2, <3>3, Zenon
  <2> QED BY <1>1, <2>1, <2>2
<1> HIDE DEF h
<1>8. h[0] = a /\ h[Len(first \o second)] = c
      /\ \A k \in 1..Len(first \o second) : h[k] = ParseLine(h[k - 1], (first \o second)[k])
  BY <1>2, <1>5, <1>6, <1>7
<1> QED BY <1>8, Zenon DEF Reads

(* ParseRobotsTxt is what it comes to from the start.                        *)
LEMMA ParsedIsRead ==
    ASSUME NEW S, NEW lines \in Seq(S), NEW state, Reads(Start, lines, state)
    PROVE  ParseRobotsTxt(lines) = Config(state)
<1>1. PICK n \in Nat : n = Len(lines)
  OBVIOUS
<1>2. PICK f : f[0] = Start /\ f[n] = state /\ \A k \in 1..n : f[k] = ParseLine(f[k - 1], lines[k])
  BY <1>1, Zenon DEF Reads
<1> DEFINE Solves(g) == g = [k \in 0..n |-> IF k = 0 THEN Start ELSE ParseLine(g[k - 1], lines[k])]
           r == [k \in 0..n |-> f[k]]
<1>3. Solves(r)
  <2>1. ASSUME NEW k \in 0..n
        PROVE  r[k] = IF k = 0 THEN Start ELSE ParseLine(r[k - 1], lines[k])
    <3>1. CASE k = 0
      BY <1>2, <3>1
    <3>2. CASE k # 0
      <4>1. k \in 1..n /\ k - 1 \in 0..n
        BY <3>2
      <4>2. r[k] = f[k] /\ r[k - 1] = f[k - 1]
        BY <4>1
      <4> QED BY <1>2, <3>2, <4>1, <4>2, Zenon
    <3> QED BY <3>1, <3>2
  <2>2. r = [k \in 0..n |-> r[k]]
    OBVIOUS
  <2> HIDE DEF r
  <2> QED BY <2>1, <2>2
<1>4. PICK g : Solves(g) /\ ParsedLines(lines) = g
  <2> HIDE DEF r
  <2>1. Solves(CHOOSE g : Solves(g))
    BY <1>3
  <2>2. ParsedLines(lines) = (CHOOSE g : Solves(g))
    BY <1>1 DEF ParsedLines
  <2> QED BY <2>1, <2>2
<1>5. g[0] = Start /\ \A k \in Nat : k + 1 \in 1..n => g[k + 1] = ParseLine(g[k], lines[k + 1])
  <2>1. \A k \in 0..n : g[k] = IF k = 0 THEN Start ELSE ParseLine(g[k - 1], lines[k])
    BY <1>4
  <2>2. \A k \in Nat : k + 1 # 0 /\ (k + 1) - 1 = k /\ (k + 1 \in 1..n => k + 1 \in 0..n)
    OBVIOUS
  <2> QED BY <2>1, <2>2
<1> DEFINE T == {k \in Nat : k <= n => g[k] = f[k]}
<1>6. 0 \in T
  BY <1>2, <1>5
<1>7. ASSUME NEW k \in Nat, k \in T PROVE k + 1 \in T
  <2>1. SUFFICES ASSUME k + 1 <= n PROVE g[k + 1] = f[k + 1]
    OBVIOUS
  <2>2. k + 1 \in 1..n /\ (k + 1) - 1 = k /\ g[k] = f[k]
    BY <1>7, <2>1
  <2>3. f[k + 1] = ParseLine(f[k], lines[k + 1])
    BY <1>2, <2>2
  <2> QED BY <1>5, <2>2, <2>3, Zenon
<1> HIDE DEF T
<1>8. n \in T
  BY <1>6, <1>7, InductionOver
<1>9. g[n] = f[n]
  BY <1>8 DEF T
<1> QED BY <1>1, <1>2, <1>4, <1>9, Zenon DEF ParseRobotsTxt

(* States, groups and lines with all they hold.                              *)
State(closed, open, expecting, sitemaps, host) ==
    [groups |-> closed, open |-> open, expectingRules |-> expecting,
     sitemaps |-> sitemaps, host |-> host]
Yes == TRUE
No == FALSE
LineOf(field, value) == [field |-> field, value |-> value]
GroupOf(agents, allow, disallow, delay) ==
    [agents |-> agents, allow |-> allow, disallow |-> disallow, delay |-> delay]

LEMMA LinesAre ==
    ASSUME NEW S, NEW values \in Seq(S), NEW field
    PROVE  /\ Len(Lines(field, values)) = Len(values)
           /\ \A k \in 1..Len(values) : Lines(field, values)[k] = LineOf(field, values[k])
           /\ (\A value \in S : LineOf(field, value) \in Line) => Lines(field, values) \in Seq(Line)
<1>1. DOMAIN values = 1..Len(values) /\ Len(values) \in Nat /\ \A k \in 1..Len(values) : values[k] \in S
  OBVIOUS
<1>2. Lines(field, values) = [k \in 1..Len(values) |-> LineOf(field, values[k])]
  BY <1>1 DEF Lines, LineOf
<1> QED BY <1>1, <1>2

LEMMA WrittenIsLine ==
    /\ \A agent \in Agent : LineOf("user-agent", agent) \in Line
    /\ \A pattern \in Pattern :
          LineOf("allow", pattern) \in Line /\ LineOf("disallow", pattern) \in Line
    /\ \A delay \in Delay : LineOf("crawl-delay", delay) \in Line
    /\ \A url \in Url : LineOf("sitemap", url) \in Line /\ LineOf("host", url) \in Line
BY DEF LineOf, Line

LEMMA PrefixGrows ==
    ASSUME NEW S, NEW s \in Seq(S), NEW k \in 1..Len(s)
    PROVE  Append(SubSeq(s, 1, k - 1), s[k]) = SubSeq(s, 1, k) /\ s[k] \in S
           /\ SubSeq(s, 1, k) \in Seq(S) /\ SubSeq(s, 1, k - 1) \in Seq(S)
OBVIOUS

LEMMA PrefixEnds ==
    ASSUME NEW S, NEW s \in Seq(S)
    PROVE  /\ SubSeq(s, 1, 0) = <<>> /\ SubSeq(s, 1, Len(s)) = s /\ Len(s) \in Nat
           /\ (s = <<>> <=> Len(s) = 0)
OBVIOUS

LEMMA LineIsRead ==
    ASSUME NEW state, NEW value
    PROVE  /\ ParseLine(state, LineOf("user-agent", value)) = UserAgentLine(state, value)
           /\ \A field \in {"allow", "disallow", "crawl-delay"} :
                ParseLine(state, LineOf(field, value)) = RuleLine(state, LineOf(field, value))
           /\ ParseLine(state, LineOf("sitemap", value))
                = [state EXCEPT !.sitemaps = Append(@, value)]
           /\ ParseLine(state, LineOf("host", value)) = [state EXCEPT !.host = value]
<1>1. \A field : LineOf(field, value).field = field /\ LineOf(field, value).value = value
  BY DEF LineOf
<1> QED BY <1>1 DEF ParseLine, IsRuleLine

LEMMA FirstAgentIsRead ==
    ASSUME NEW closed, NEW agent, NEW expecting, NEW sitemaps, NEW host
    PROVE  ParseLine(State(closed, Null, expecting, sitemaps, host), LineOf("user-agent", agent))
             = State(closed, NewGroup(agent), expecting, sitemaps, host)
<1> DEFINE state == State(closed, Null, expecting, sitemaps, host)
<1>1. ParseLine(state, LineOf("user-agent", agent)) = UserAgentLine(state, agent)
  BY LineIsRead
<1>2. state.open = Null
  BY DEF State
<1>3. [state EXCEPT !.open = NewGroup(agent)]
        = State(closed, NewGroup(agent), expecting, sitemaps, host)
  BY DEF State
<1> HIDE DEF state
<1>4. UserAgentLine(state, agent) = [state EXCEPT !.open = NewGroup(agent)]
  BY <1>2, Zenon DEF UserAgentLine
<1> QED BY <1>1, <1>3, <1>4, Zenon DEF state

LEMMA NextGroupIsRead ==
    ASSUME NEW closed, NEW open, open # Null, NEW agent, NEW sitemaps, NEW host
    PROVE  ParseLine(State(closed, open, Yes, sitemaps, host), LineOf("user-agent", agent))
             = State(Append(closed, open), NewGroup(agent), No, sitemaps, host)
<1> DEFINE state == State(closed, open, Yes, sitemaps, host)
           more == Append(state.groups, state.open)
           next == NewGroup(agent)
<1>1. ParseLine(state, LineOf("user-agent", agent)) = UserAgentLine(state, agent)
  BY LineIsRead
<1>2. state.open = open /\ state.expectingRules = Yes /\ state.groups = closed
  BY DEF State
<1>3. more = Append(closed, open)
  BY <1>2
<1> HIDE DEF more, next
<1>4. [state EXCEPT !.groups = more] = State(more, open, Yes, sitemaps, host)
  BY DEF State
<1>5. [State(more, open, Yes, sitemaps, host) EXCEPT !.open = next]
        = State(more, next, Yes, sitemaps, host)
  BY DEF State
<1>6. [State(more, next, Yes, sitemaps, host) EXCEPT !.expectingRules = No]
        = State(more, next, No, sitemaps, host)
  BY DEF State
<1> HIDE DEF state
<1>7. UserAgentLine(state, agent)
        = [[[state EXCEPT !.groups = more] EXCEPT !.open = next] EXCEPT !.expectingRules = No]
  BY <1>2, Zenon DEF UserAgentLine, Yes, No, next, more
<1> QED BY <1>1, <1>3, <1>4, <1>5, <1>6, <1>7, Zenon DEF state, next

LEMMA NextAgentIsRead ==
    ASSUME NEW closed, NEW agents, NEW agent, NEW sitemaps, NEW host,
           GroupOf(agents, <<>>, <<>>, Null) # Null
    PROVE  ParseLine(State(closed, GroupOf(agents, <<>>, <<>>, Null), No, sitemaps, host),
                     LineOf("user-agent", agent))
             = State(closed, GroupOf(Append(agents, agent), <<>>, <<>>, Null), No, sitemaps, host)
<1> DEFINE group == GroupOf(agents, <<>>, <<>>, Null)
           state == State(closed, group, No, sitemaps, host)
           list == Append(group.agents, agent)
           more == [group EXCEPT !.agents = list]
<1>1. ParseLine(state, LineOf("user-agent", agent)) = UserAgentLine(state, agent)
  BY LineIsRead
<1>2. state.open = group /\ state.expectingRules = No
  BY DEF State
<1>3. list = Append(agents, agent)
  BY DEF GroupOf
<1> HIDE DEF list
<1>4. more = GroupOf(list, <<>>, <<>>, Null)
  BY DEF GroupOf
<1> HIDE DEF more, group
<1>5. [state EXCEPT !.open = more] = State(closed, more, No, sitemaps, host)
  BY DEF State
<1> HIDE DEF state
<1>6. UserAgentLine(state, agent) = [state EXCEPT !.open = [state.open EXCEPT !.agents = Append(state.open.agents, agent)]]
  <2>1. state.open # Null /\ ~state.expectingRules
    BY <1>2, Zenon DEF No, group
  <2>2. UserAgentLine(state, agent) = [state EXCEPT !.open.agents = Append(@, agent)]
    BY <2>1, Zenon DEF UserAgentLine
  <2>3. [state EXCEPT !.open.agents = Append(@, agent)]
          = [state EXCEPT !.open = [state.open EXCEPT !.agents = Append(state.open.agents, agent)]]
    OBVIOUS
  <2> QED BY <2>2, <2>3, Zenon
<1>7. [state.open EXCEPT !.agents = Append(state.open.agents, agent)] = more
  BY <1>2, Zenon DEF more, list
<1> QED BY <1>1, <1>3, <1>4, <1>5, <1>6, <1>7, Zenon DEF state, group

(* A rule line with a value, read into an open group.                        *)
LEMMA RuleIsRead ==
    ASSUME NEW field \in {"allow", "disallow", "crawl-delay"}, NEW value, NEW closed, NEW open,
           NEW expecting, NEW sitemaps, NEW host, open # Null
    PROVE  ParseLine(State(closed, open, expecting, sitemaps, host), LineOf(field, value))
             = State(closed, Rule(open, LineOf(field, value)), Yes, sitemaps, host)
<1> DEFINE state == State(closed, open, expecting, sitemaps, host)
           line == LineOf(field, value)
           more == Rule(state.open, line)
<1>1. ParseLine(state, line) = RuleLine(state, line)
  BY LineIsRead
<1>2. state.open = open
  BY DEF State
<1> HIDE DEF more, line
<1>3. [state EXCEPT !.open = more] = State(closed, more, expecting, sitemaps, host)
  BY DEF State
<1>4. [State(closed, more, expecting, sitemaps, host) EXCEPT !.expectingRules = Yes]
        = State(closed, more, Yes, sitemaps, host)
  BY DEF State
<1> HIDE DEF state
<1>5. RuleLine(state, line) = [[state EXCEPT !.open = more] EXCEPT !.expectingRules = Yes]
  BY <1>2, Zenon DEF RuleLine, Yes, more
<1> QED BY <1>1, <1>2, <1>3, <1>4, <1>5, Zenon DEF state, line, more

LEMMA RuleJoinsGroup ==
    ASSUME NEW agents, NEW allow, NEW disallow, NEW delay, NEW value, value # Empty
    PROVE  /\ Rule(GroupOf(agents, allow, disallow, delay), LineOf("allow", value))
                = GroupOf(agents, Append(allow, value), disallow, delay)
           /\ Rule(GroupOf(agents, allow, disallow, delay), LineOf("disallow", value))
                = GroupOf(agents, allow, Append(disallow, value), delay)
           /\ Rule(GroupOf(agents, allow, disallow, delay), LineOf("crawl-delay", value))
                = GroupOf(agents, allow, disallow, value)
<1>1. \A field : LineOf(field, value).field = field /\ LineOf(field, value).value = value
  BY DEF LineOf
<1> DEFINE group == GroupOf(agents, allow, disallow, delay)
<1>2. Rule(group, LineOf("allow", value)) = GroupOf(agents, Append(allow, value), disallow, delay)
  BY <1>1 DEF Rule, GroupOf
<1>3. Rule(group, LineOf("disallow", value)) = GroupOf(agents, allow, Append(disallow, value), delay)
  BY <1>1 DEF Rule, GroupOf
<1>4. Rule(group, LineOf("crawl-delay", value)) = GroupOf(agents, allow, disallow, value)
  BY <1>1 DEF Rule, GroupOf
<1> QED BY <1>2, <1>3, <1>4

LEMMA UrlIsRead ==
    ASSUME NEW closed, NEW open, NEW expecting, NEW sitemaps, NEW host, NEW url
    PROVE  /\ ParseLine(State(closed, open, expecting, sitemaps, host), LineOf("sitemap", url))
                = State(closed, open, expecting, Append(sitemaps, url), host)
           /\ ParseLine(State(closed, open, expecting, sitemaps, host), LineOf("host", url))
                = State(closed, open, expecting, sitemaps, url)
<1> DEFINE state == State(closed, open, expecting, sitemaps, host)
           more == Append(state.sitemaps, url)
<1>1. more = Append(sitemaps, url)
  BY DEF State
<1>2. /\ ParseLine(state, LineOf("sitemap", url)) = [state EXCEPT !.sitemaps = more]
      /\ ParseLine(state, LineOf("host", url)) = [state EXCEPT !.host = url]
  <2> HIDE DEF state
  <2> QED BY LineIsRead
<1> HIDE DEF more
<1>3. [state EXCEPT !.sitemaps = more] = State(closed, open, expecting, more, host)
  BY DEF State
<1>4. [state EXCEPT !.host = url] = State(closed, open, expecting, sitemaps, url)
  BY DEF State
<1> QED BY <1>1, <1>2, <1>3, <1>4, Zenon

LEMMA GroupOfIsGroup ==
    ASSUME NEW agents \in Seq(Agent), NEW allow \in Seq(Pattern), NEW disallow \in Seq(Pattern),
           NEW delay \in {Null} \cup Delay
    PROVE  GroupOf(agents, allow, disallow, delay) # Null
<1>1. GroupOf(agents, allow, disallow, delay) \in Group
  BY DEF GroupOf, Group
<1> QED BY <1>1, AbsentAssumption


(* A state for every line read. *)
LEMMA LinesInTurn ==
    ASSUME NEW S, NEW values \in Seq(S), NEW field, NEW f,
           \A k \in 1..Len(values) : ParseLine(f[k - 1], LineOf(field, values[k])) = f[k]
    PROVE  Reads(f[0], Lines(field, values), f[Len(values)])
<1>1. /\ Len(Lines(field, values)) = Len(values)
      /\ \A k \in 1..Len(values) : Lines(field, values)[k] = LineOf(field, values[k])
  BY LinesAre
<1>2. \A k \in 1..Len(values) : f[k] = ParseLine(f[k - 1], Lines(field, values)[k])
  BY <1>1, Zenon
<1> QED BY <1>1, <1>2, Zenon DEF Reads

(* The agents of a group, after whatever line comes before them.             *)
LEMMA AgentsAreRead ==
    ASSUME NEW before, NEW closed, NEW sitemaps, NEW host,
           NEW agents \in Seq(Agent), agents # <<>>,
           ParseLine(before, LineOf("user-agent", agents[1]))
             = State(closed, NewGroup(agents[1]), No, sitemaps, host)
    PROVE  Reads(before, Lines("user-agent", agents),
                 State(closed, GroupOf(agents, <<>>, <<>>, Null), No, sitemaps, host))
<1>1. PICK n \in Nat : n = Len(agents) /\ n >= 1
  BY PrefixEnds
<1> DEFINE of(k) == State(closed, GroupOf(SubSeq(agents, 1, k), <<>>, <<>>, Null), No, sitemaps, host)
           f == [k \in 0..n |-> IF k = 0 THEN before ELSE of(k)]
<1>2. f[0] = before /\ \A k \in 1..n : f[k] = of(k)
  <2> HIDE DEF of
  <2>1. 0 \in 0..n /\ \A k \in 1..n : k \in 0..n /\ k # 0
    OBVIOUS
  <2> QED BY <2>1
<1>3. of(n) = State(closed, GroupOf(agents, <<>>, <<>>, Null), No, sitemaps, host)
  BY <1>1, PrefixEnds
<1>4. \A k \in 1..n : ParseLine(f[k - 1], LineOf("user-agent", agents[k])) = f[k]
  <2> SUFFICES ASSUME NEW k \in 1..n
      PROVE  ParseLine(f[k - 1], LineOf("user-agent", agents[k])) = f[k]
    OBVIOUS
  <2>1. CASE k = 1
    <3>1. NewGroup(agents[1]) = GroupOf(SubSeq(agents, 1, 1), <<>>, <<>>, Null)
      <4>1. SubSeq(agents, 1, 1) = Append(SubSeq(agents, 1, 0), agents[1])
        BY <1>1, PrefixGrows
      <4>2. Append(<<>>, agents[1]) = <<agents[1]>>
        OBVIOUS
      <4>3. SubSeq(agents, 1, 1) = <<agents[1]>>
        BY <4>1, <4>2, PrefixEnds, Zenon
      <4> QED BY <4>3 DEF NewGroup, GroupOf
    <3>2. k - 1 = 0 /\ f[k] = of(1) /\ f[k - 1] = before
      BY <1>2, <2>1
    <3> HIDE DEF f
    <3> QED BY <2>1, <3>1, <3>2, Zenon
  <2>2. CASE k # 1
    <3>1. k - 1 \in 1..n /\ k - 1 # 0 /\ k \in 1..Len(agents)
      BY <1>1, <2>2
    <3>2. f[k] = of(k) /\ f[k - 1] = of(k - 1)
      BY <1>2, <3>1, Zenon
    <3>3. PICK prior : prior = SubSeq(agents, 1, k - 1)
      OBVIOUS
    <3>4. Append(prior, agents[k]) = SubSeq(agents, 1, k) /\ prior \in Seq(Agent)
      BY <3>1, <3>3, PrefixGrows
    <3>5. GroupOf(prior, <<>>, <<>>, Null) # Null
      <4>1. <<>> \in Seq(Pattern) /\ Null \in {Null} \cup Delay
        OBVIOUS
      <4> QED BY <3>4, <4>1, GroupOfIsGroup
    <3>6. ParseLine(State(closed, GroupOf(prior, <<>>, <<>>, Null), No, sitemaps, host),
                    LineOf("user-agent", agents[k]))
            = State(closed, GroupOf(Append(prior, agents[k]), <<>>, <<>>, Null), No, sitemaps, host)
      BY <3>5, NextAgentIsRead
    <3> QED BY <3>2, <3>3, <3>4, <3>6, Zenon
  <2> QED BY <2>1, <2>2
<1> HIDE DEF f
<1>5. Reads(f[0], Lines("user-agent", agents), f[n])
  BY <1>1, <1>4, LinesInTurn
<1>6. f[n] = of(n)
  BY <1>1, <1>2
<1> QED BY <1>2, <1>3, <1>5, <1>6, Zenon

(* Lines of one kind of rule, when it is known what each does to the group.  *)
LEMMA RulesAreRead ==
    ASSUME NEW closed, NEW expecting, NEW sitemaps, NEW host, NEW S,
           NEW field \in {"allow", "disallow", "crawl-delay"}, NEW values \in Seq(S),
           NEW g, \A k \in 0..Len(values) : g[k] # Null,
           \A k \in 1..Len(values) : Rule(g[k - 1], LineOf(field, values[k])) = g[k]
    PROVE  Reads(State(closed, g[0], expecting, sitemaps, host), Lines(field, values),
                 State(closed, g[Len(values)], IF values = <<>> THEN expecting ELSE Yes,
                       sitemaps, host))
<1>1. PICK n \in Nat : n = Len(values) /\ (n = 0 <=> values = <<>>)
  BY PrefixEnds
<1> DEFINE of(k) == State(closed, g[k], IF k = 0 THEN expecting ELSE Yes, sitemaps, host)
           f == [k \in 0..n |-> of(k)]
<1>2. \A k \in 0..n : f[k] = of(k)
  <2> HIDE DEF of
  <2> QED OBVIOUS
<1> HIDE DEF f
<1>3. ASSUME NEW k \in 1..n PROVE ParseLine(f[k - 1], LineOf(field, values[k])) = f[k]
  <2>1. k - 1 \in 0..n /\ k \in 0..n /\ k # 0
    OBVIOUS
  <2>2. PICK before, value, e : before = g[k - 1] /\ value = values[k]
                                 /\ e = (IF k - 1 = 0 THEN expecting ELSE Yes)
    OBVIOUS
  <2>3. before # Null /\ Rule(before, LineOf(field, value)) = g[k]
    BY <1>1, <2>1, <2>2
  <2>4. ParseLine(State(closed, before, e, sitemaps, host), LineOf(field, value))
          = State(closed, Rule(before, LineOf(field, value)), Yes, sitemaps, host)
    <3>1. field \in {"allow", "disallow", "crawl-delay"}
      OBVIOUS
    <3>2. before # Null
      BY <2>3
    <3> QED BY <3>1, <3>2, RuleIsRead
  <2>5. f[k - 1] = State(closed, before, e, sitemaps, host)
    BY <1>2, <2>1, <2>2, Zenon
  <2>6. f[k] = State(closed, g[k], Yes, sitemaps, host)
    BY <1>2, <2>1, Zenon
  <2> QED BY <2>2, <2>3, <2>4, <2>5, <2>6, Zenon
<1>4. Reads(f[0], Lines(field, values), f[n])
  BY <1>1, <1>3, LinesInTurn
<1>5. f[0] = State(closed, g[0], expecting, sitemaps, host)
  <2>1. 0 \in 0..n
    OBVIOUS
  <2> QED BY <1>2, <2>1, Zenon
<1>6. f[n] = State(closed, g[n], IF values = <<>> THEN expecting ELSE Yes, sitemaps, host)
  <2>1. n \in 0..n
    OBVIOUS
  <2> QED BY <1>1, <1>2, <2>1, Zenon
<1> QED BY <1>1, <1>4, <1>5, <1>6, Zenon

(* The rules of a group, one kind after the other.                           *)
LEMMA AllowIsRead ==
    ASSUME NEW closed, NEW expecting, NEW sitemaps, NEW host,
           NEW agents \in Seq(Agent), NEW allow \in Seq(Pattern)
    PROVE  Reads(State(closed, GroupOf(agents, <<>>, <<>>, Null), expecting, sitemaps, host),
                 Lines("allow", allow),
                 State(closed, GroupOf(agents, allow, <<>>, Null),
                       IF allow = <<>> THEN expecting ELSE Yes, sitemaps, host))
<1>1. PICK n \in Nat : n = Len(allow)
  OBVIOUS
<1> DEFINE of(k) == GroupOf(agents, SubSeq(allow, 1, k), <<>>, Null)
           g == [k \in 0..n |-> of(k)]
<1>2. \A k \in 0..n : g[k] = of(k)
  <2> HIDE DEF of
  <2> QED OBVIOUS
<1> HIDE DEF g
<1>3. \A k \in 0..n : SubSeq(allow, 1, k) \in Seq(Pattern)
  BY <1>1
<1>4. \A k \in 0..n : g[k] # Null
  <2>1. <<>> \in Seq(Pattern) /\ Null \in {Null} \cup Delay
    OBVIOUS
  <2>2. \A k \in 0..n : of(k) # Null
    BY <1>3, <2>1, GroupOfIsGroup
  <2> QED BY <1>2, <2>2, Zenon
<1>5. ASSUME NEW k \in 1..n PROVE Rule(g[k - 1], LineOf("allow", allow[k])) = g[k]
  <2>1. k - 1 \in 0..n /\ k \in 0..n /\ k \in 1..Len(allow)
    BY <1>1
  <2>2. PICK prior, value : prior = SubSeq(allow, 1, k - 1) /\ value = allow[k]
    OBVIOUS
  <2>3. Append(prior, value) = SubSeq(allow, 1, k) /\ value \in Pattern
    BY <2>1, <2>2, PrefixGrows
  <2>4. Rule(GroupOf(agents, prior, <<>>, Null), LineOf("allow", value))
          = GroupOf(agents, Append(prior, value), <<>>, Null)
    <3>1. value # Empty
      BY <2>3, RobotsCrawlerAssumption
    <3> QED BY <3>1, RuleJoinsGroup
  <2> QED BY <1>2, <2>1, <2>2, <2>3, <2>4, Zenon
<1>6. Reads(State(closed, g[0], expecting, sitemaps, host), Lines("allow", allow),
            State(closed, g[n], IF allow = <<>> THEN expecting ELSE Yes, sitemaps, host))
  BY <1>1, <1>4, <1>5, RulesAreRead
<1>7. g[0] = GroupOf(agents, <<>>, <<>>, Null) /\ g[n] = GroupOf(agents, allow, <<>>, Null)
  <2>1. 0 \in 0..n /\ n \in 0..n /\ SubSeq(allow, 1, 0) = <<>> /\ SubSeq(allow, 1, n) = allow
    BY <1>1, PrefixEnds
  <2> QED BY <1>2, <2>1, Zenon
<1> QED BY <1>6, <1>7, Zenon

LEMMA DisallowIsRead ==
    ASSUME NEW closed, NEW expecting, NEW sitemaps, NEW host,
           NEW agents \in Seq(Agent), NEW allow \in Seq(Pattern), NEW disallow \in Seq(Pattern)
    PROVE  Reads(State(closed, GroupOf(agents, allow, <<>>, Null), expecting, sitemaps, host),
                 Lines("disallow", disallow),
                 State(closed, GroupOf(agents, allow, disallow, Null),
                       IF disallow = <<>> THEN expecting ELSE Yes, sitemaps, host))
<1>1. PICK n \in Nat : n = Len(disallow)
  OBVIOUS
<1> DEFINE of(k) == GroupOf(agents, allow, SubSeq(disallow, 1, k), Null)
           g == [k \in 0..n |-> of(k)]
<1>2. \A k \in 0..n : g[k] = of(k)
  <2> HIDE DEF of
  <2> QED OBVIOUS
<1> HIDE DEF g
<1>3. \A k \in 0..n : SubSeq(disallow, 1, k) \in Seq(Pattern)
  BY <1>1
<1>4. \A k \in 0..n : g[k] # Null
  <2>1. Null \in {Null} \cup Delay
    OBVIOUS
  <2>2. \A k \in 0..n : of(k) # Null
    BY <1>3, <2>1, GroupOfIsGroup
  <2> QED BY <1>2, <2>2, Zenon
<1>5. ASSUME NEW k \in 1..n PROVE Rule(g[k - 1], LineOf("disallow", disallow[k])) = g[k]
  <2>1. k - 1 \in 0..n /\ k \in 0..n /\ k \in 1..Len(disallow)
    BY <1>1
  <2>2. PICK prior, value : prior = SubSeq(disallow, 1, k - 1) /\ value = disallow[k]
    OBVIOUS
  <2>3. Append(prior, value) = SubSeq(disallow, 1, k) /\ value \in Pattern
    BY <2>1, <2>2, PrefixGrows
  <2>4. Rule(GroupOf(agents, allow, prior, Null), LineOf("disallow", value))
          = GroupOf(agents, allow, Append(prior, value), Null)
    <3>1. value # Empty
      BY <2>3, RobotsCrawlerAssumption
    <3> QED BY <3>1, RuleJoinsGroup
  <2> QED BY <1>2, <2>1, <2>2, <2>3, <2>4, Zenon
<1>6. Reads(State(closed, g[0], expecting, sitemaps, host), Lines("disallow", disallow),
            State(closed, g[n], IF disallow = <<>> THEN expecting ELSE Yes, sitemaps, host))
  BY <1>1, <1>4, <1>5, RulesAreRead
<1>7. g[0] = GroupOf(agents, allow, <<>>, Null) /\ g[n] = GroupOf(agents, allow, disallow, Null)
  <2>1. /\ 0 \in 0..n /\ n \in 0..n
        /\ SubSeq(disallow, 1, 0) = <<>> /\ SubSeq(disallow, 1, n) = disallow
    BY <1>1, PrefixEnds
  <2> QED BY <1>2, <2>1, Zenon
<1> QED BY <1>6, <1>7, Zenon

LEMMA DelayIsRead ==
    ASSUME NEW closed, NEW expecting, NEW sitemaps, NEW host,
           NEW agents \in Seq(Agent), NEW allow \in Seq(Pattern), NEW disallow \in Seq(Pattern),
           NEW delay \in Delay
    PROVE  Reads(State(closed, GroupOf(agents, allow, disallow, Null), expecting, sitemaps, host),
                 Lines("crawl-delay", <<delay>>),
                 State(closed, GroupOf(agents, allow, disallow, delay), Yes, sitemaps, host))
<1> DEFINE before == GroupOf(agents, allow, disallow, Null)
           after == GroupOf(agents, allow, disallow, delay)
           g == [k \in 0..1 |-> IF k = 0 THEN before ELSE after]
<1>1. before # Null /\ after # Null
  BY GroupOfIsGroup
<1>2. Rule(before, LineOf("crawl-delay", delay)) = after
  <2>1. delay # Empty
    BY RobotsCrawlerAssumption
  <2> QED BY <2>1, RuleJoinsGroup
<1> HIDE DEF before, after
<1>3. /\ g[0] = before /\ g[1] = after
      /\ <<delay>> \in Seq(Delay) /\ Len(<<delay>>) = 1 /\ <<delay>>[1] = delay
      /\ \A k \in 1..1 : k = 1 /\ k - 1 = 0
      /\ \A k \in 0..1 : k = 0 \/ k = 1
      /\ <<delay>> # <<>>
  OBVIOUS
<1> HIDE DEF g
<1>4. PICK values \in Seq(Delay) : values = <<delay>>
  BY <1>3
<1>5. Len(values) = 1 /\ values[1] = delay /\ values # <<>>
  BY <1>3, <1>4, Zenon
<1>6. \A k \in 0..Len(values) : g[k] # Null
  BY <1>1, <1>3, <1>5, Zenon
<1>7. \A k \in 1..Len(values) : Rule(g[k - 1], LineOf("crawl-delay", values[k])) = g[k]
  BY <1>2, <1>3, <1>5, Zenon
<1>8. Reads(State(closed, g[0], expecting, sitemaps, host), Lines("crawl-delay", values),
            State(closed, g[Len(values)], IF values = <<>> THEN expecting ELSE Yes, sitemaps, host))
  BY <1>6, <1>7, RulesAreRead
<1> QED BY <1>3, <1>4, <1>5, <1>8, Zenon DEF before, after

(* A group, after whatever line comes before it.                             *)
LEMMA GroupIsRead ==
    ASSUME NEW before, NEW closed, NEW group \in Group, group.agents # <<>>,
           ParseLine(before, LineOf("user-agent", group.agents[1]))
             = State(closed, NewGroup(group.agents[1]), No, <<>>, Null)
    PROVE  /\ GroupLines(group) \in Seq(Line)
           /\ Reads(before, GroupLines(group),
                    State(closed, group, IF HasRule(group) THEN Yes ELSE No, <<>>, Null))
<1>1. PICK agents \in Seq(Agent), allow \in Seq(Pattern), disallow \in Seq(Pattern),
           delay \in {Null} \cup Delay :
        /\ group = GroupOf(agents, allow, disallow, delay)
        /\ group.agents = agents /\ group.allow = allow
        /\ group.disallow = disallow /\ group.delay = delay
  BY DEF Group, GroupOf
<1> DEFINE one == Lines("user-agent", agents)
           two == Lines("allow", allow)
           three == Lines("disallow", disallow)
           four == IF delay = Null THEN <<>> ELSE Lines("crawl-delay", <<delay>>)
           with == IF allow = <<>> THEN No ELSE Yes
           and == IF disallow = <<>> THEN with ELSE Yes
           last == IF delay = Null THEN and ELSE Yes
<1>2. GroupLines(group) = one \o two \o three \o four
  BY <1>1, Zenon DEF GroupLines
<1>3. one \in Seq(Line) /\ two \in Seq(Line) /\ three \in Seq(Line) /\ four \in Seq(Line)
  <2>1. one \in Seq(Line)
    BY WrittenIsLine, LinesAre
  <2>2. two \in Seq(Line) /\ three \in Seq(Line)
    BY WrittenIsLine, LinesAre
  <2>3. CASE delay = Null
    BY <2>1, <2>2, <2>3
  <2>4. CASE delay # Null
    <3>1. <<delay>> \in Seq(Delay)
      BY <2>4
    <3>2. Lines("crawl-delay", <<delay>>) \in Seq(Line)
      BY <3>1, WrittenIsLine, LinesAre
    <3> QED BY <2>1, <2>2, <2>4, <3>2
  <2> QED BY <2>3, <2>4
<1>4. Reads(before, one, State(closed, GroupOf(agents, <<>>, <<>>, Null), No, <<>>, Null))
  BY <1>1, AgentsAreRead
<1>5. Reads(State(closed, GroupOf(agents, <<>>, <<>>, Null), No, <<>>, Null), two,
            State(closed, GroupOf(agents, allow, <<>>, Null), with, <<>>, Null))
  BY AllowIsRead
<1>6. Reads(State(closed, GroupOf(agents, allow, <<>>, Null), with, <<>>, Null), three,
            State(closed, GroupOf(agents, allow, disallow, Null), and, <<>>, Null))
  <2> HIDE DEF with
  <2> QED BY DisallowIsRead
<1>7. Reads(State(closed, GroupOf(agents, allow, disallow, Null), and, <<>>, Null), four,
            State(closed, group, last, <<>>, Null))
  <2> HIDE DEF and
  <2>1. CASE delay = Null
    BY <1>1, <2>1, ReadsNothing, Zenon
  <2>2. CASE delay # Null
    <3>1. delay \in Delay
      BY <2>2
    <3>2. Reads(State(closed, GroupOf(agents, allow, disallow, Null), and, <<>>, Null),
                Lines("crawl-delay", <<delay>>),
                State(closed, GroupOf(agents, allow, disallow, delay), Yes, <<>>, Null))
      BY <3>1, DelayIsRead
    <3> QED BY <1>1, <2>2, <3>2, Zenon
  <2> QED BY <2>1, <2>2
<1>8. last = IF HasRule(group) THEN Yes ELSE No
  BY <1>1, Zenon DEF HasRule
<1> HIDE DEF one, two, three, four, with, and, last
<1>9. one \o two \in Seq(Line) /\ one \o two \o three \in Seq(Line)
      /\ one \o two \o three \o four \in Seq(Line)
  BY <1>3
<1>10. Reads(before, one \o two, State(closed, GroupOf(agents, allow, <<>>, Null), with, <<>>, Null))
  BY <1>3, <1>4, <1>5, ReadsOn
<1>11. Reads(before, one \o two \o three,
             State(closed, GroupOf(agents, allow, disallow, Null), and, <<>>, Null))
  BY <1>3, <1>6, <1>9, <1>10, ReadsOn
<1>12. Reads(before, one \o two \o three \o four, State(closed, group, last, <<>>, Null))
  BY <1>3, <1>7, <1>9, <1>11, ReadsOn
<1> QED BY <1>2, <1>8, <1>9, <1>12, Zenon

(* The groups of a file, all but the last of which have a rule to write.     *)
LEMMA GroupsAreRead ==
    ASSUME NEW gs \in Seq(Group), gs # <<>>,
           \A k \in 1..Len(gs) : gs[k].agents # <<>>,
           \A k \in 1..Len(gs) : k < Len(gs) => HasRule(gs[k])
    PROVE  /\ FlattenSeq([k \in DOMAIN gs |-> GroupLines(gs[k])]) \in Seq(Line)
           /\ \E expecting :
                Reads(Start, FlattenSeq([k \in DOMAIN gs |-> GroupLines(gs[k])]),
                      State(SubSeq(gs, 1, Len(gs) - 1), gs[Len(gs)], expecting, <<>>, Null))
<1>1. PICK n \in Nat : n = Len(gs) /\ n >= 1 /\ DOMAIN gs = 1..n
  BY PrefixEnds
<1>2. \A k \in 1..n : gs[k] \in Group /\ gs[k] # Null /\ gs[k].agents \in Seq(Agent)
  <2>1. \A k \in 1..n : gs[k] \in Group
    BY <1>1
  <2> QED BY <2>1, AbsentAssumption DEF Group
<1>3. Start = State(<<>>, Null, No, <<>>, Null)
  BY Zenon DEF Start, State, No
<1>4. ASSUME NEW k \in 1..n
      PROVE  /\ GroupLines(gs[k]) \in Seq(Line)
             /\ Reads(Start, GroupLines(gs[k]),
                      State(<<>>, gs[k], IF HasRule(gs[k]) THEN Yes ELSE No, <<>>, Null))
  <2>1. PICK group \in Group : group = gs[k] /\ group.agents # <<>>
    BY <1>1, <1>2
  <2>2. ParseLine(Start, LineOf("user-agent", group.agents[1]))
          = State(<<>>, NewGroup(group.agents[1]), No, <<>>, Null)
    BY <1>3, FirstAgentIsRead, Zenon
  <2>3. /\ GroupLines(group) \in Seq(Line)
        /\ Reads(Start, GroupLines(group),
                 State(<<>>, group, IF HasRule(group) THEN Yes ELSE No, <<>>, Null))
    BY <2>1, <2>2, GroupIsRead
  <2> QED BY <2>1, <2>3, Zenon
<1> DEFINE seqs == [k \in 1..n |-> GroupLines(gs[k])]
<1>5. /\ seqs \in Seq(Seq(Line)) /\ Len(seqs) = n /\ seqs # <<>>
      /\ \A k \in 1..n : seqs[k] = GroupLines(gs[k])
  BY <1>1, <1>4
<1> HIDE DEF seqs
<1>6. PICK f : /\ FlattenSeq(seqs) = f[n] /\ f[1] = seqs[1]
               /\ \A k \in Nat : k # 0 /\ k + 1 \in 1..n => f[k + 1] = f[k] \o seqs[k + 1]
  BY <1>5, FlattenSteps
<1> DEFINE after(k) == State(SubSeq(gs, 1, k - 1), gs[k], IF HasRule(gs[k]) THEN Yes ELSE No, <<>>, Null)
           T == {k \in Nat : k + 1 <= n => f[k + 1] \in Seq(Line) /\ Reads(Start, f[k + 1], after(k + 1))}
<1>7. 0 \in T
  <2>1. 1 \in 1..n /\ SubSeq(gs, 1, 1 - 1) = <<>> /\ 0 + 1 = 1 /\ 0 \in Nat
    BY <1>1, PrefixEnds
  <2>2. f[1] \in Seq(Line) /\ Reads(Start, f[1], after(1))
    BY <1>4, <1>5, <1>6, <2>1, Zenon
  <2> HIDE DEF after
  <2> QED BY <2>1, <2>2
<1>8. ASSUME NEW j \in Nat, j \in T PROVE j + 1 \in T
  <2> SUFFICES ASSUME (j + 1) + 1 <= n
      PROVE  f[(j + 1) + 1] \in Seq(Line) /\ Reads(Start, f[(j + 1) + 1], after((j + 1) + 1))
    OBVIOUS
  <2>1. PICK k \in Nat : /\ k = j + 1 /\ k # 0 /\ k \in 1..n /\ k + 1 \in 1..n
                         /\ k < n /\ (k + 1) - 1 = k /\ k <= n
    OBVIOUS
  <2>2. f[k] \in Seq(Line) /\ Reads(Start, f[k], after(k))
    <3> HIDE DEF after
    <3> QED BY <1>8, <2>1
  <2>3. f[k + 1] = f[k] \o GroupLines(gs[k + 1]) /\ GroupLines(gs[k + 1]) \in Seq(Line)
    BY <1>4, <1>5, <1>6, <2>1, Zenon
  <2>4. after(k) = State(SubSeq(gs, 1, k - 1), gs[k], Yes, <<>>, Null)
    BY <1>1, <2>1, Zenon
  <2>5. Append(SubSeq(gs, 1, k - 1), gs[k]) = SubSeq(gs, 1, (k + 1) - 1)
    BY <1>1, <2>1, PrefixGrows
  <2>6. PICK group \in Group : group = gs[k + 1] /\ group.agents # <<>>
    BY <1>1, <1>2, <2>1
  <2>7. PICK prior, open : prior = SubSeq(gs, 1, k - 1) /\ open = gs[k]
    OBVIOUS
  <2>8. ParseLine(State(prior, open, Yes, <<>>, Null), LineOf("user-agent", group.agents[1]))
          = State(Append(prior, open), NewGroup(group.agents[1]), No, <<>>, Null)
    <3>1. open # Null
      BY <1>2, <2>1, <2>7
    <3> QED BY <3>1, NextGroupIsRead
  <2>9. Reads(State(prior, open, Yes, <<>>, Null), GroupLines(group),
              State(Append(prior, open), group, IF HasRule(group) THEN Yes ELSE No, <<>>, Null))
    BY <2>6, <2>8, GroupIsRead
  <2>10. Reads(after(k), GroupLines(gs[k + 1]), after(k + 1))
    BY <2>4, <2>5, <2>6, <2>7, <2>9, Zenon
  <2> HIDE DEF after
  <2>11. f[k] \o GroupLines(gs[k + 1]) \in Seq(Line)
    BY <2>2, <2>3
  <2>12. Reads(Start, f[k + 1], after(k + 1))
    BY <2>2, <2>3, <2>10, ReadsOn
  <2> QED BY <2>1, <2>3, <2>11, <2>12
<1> HIDE DEF T
<1>9. n - 1 \in T
  <2>1. n - 1 \in Nat
    BY <1>1
  <2> QED BY <1>7, <1>8, <2>1, InductionOver
<1>10. f[n] \in Seq(Line) /\ Reads(Start, f[n], after(n))
  <2> HIDE DEF after
  <2>1. (n - 1) + 1 = n /\ n <= n
    BY <1>1
  <2> QED BY <1>9, <2>1 DEF T
<1>11. FlattenSeq([k \in DOMAIN gs |-> GroupLines(gs[k])]) = f[n]
  BY <1>1, <1>6, Zenon DEF seqs
<1> QED BY <1>1, <1>10, <1>11, Zenon

(* What belongs to no group.                                                 *)
LEMMA SitemapsAreRead ==
    ASSUME NEW closed, NEW open, NEW expecting, NEW host, NEW urls \in Seq(Url)
    PROVE  Reads(State(closed, open, expecting, <<>>, host), Lines("sitemap", urls),
                 State(closed, open, expecting, urls, host))
<1>1. PICK n \in Nat : n = Len(urls)
  OBVIOUS
<1> DEFINE of(k) == State(closed, open, expecting, SubSeq(urls, 1, k), host)
           f == [k \in 0..n |-> of(k)]
<1>2. \A k \in 0..n : f[k] = of(k)
  <2> HIDE DEF of
  <2> QED OBVIOUS
<1> HIDE DEF f
<1>3. ASSUME NEW k \in 1..n PROVE ParseLine(f[k - 1], LineOf("sitemap", urls[k])) = f[k]
  <2>1. k - 1 \in 0..n /\ k \in 0..n /\ k \in 1..Len(urls)
    BY <1>1
  <2>2. PICK prior, url : prior = SubSeq(urls, 1, k - 1) /\ url = urls[k]
    OBVIOUS
  <2>3. Append(prior, url) = SubSeq(urls, 1, k)
    BY <2>1, <2>2, PrefixGrows
  <2>4. ParseLine(State(closed, open, expecting, prior, host), LineOf("sitemap", url))
          = State(closed, open, expecting, Append(prior, url), host)
    BY UrlIsRead
  <2> QED BY <1>2, <2>1, <2>2, <2>3, <2>4, Zenon
<1>4. Reads(f[0], Lines("sitemap", urls), f[n])
  BY <1>1, <1>3, LinesInTurn
<1>5. /\ f[0] = State(closed, open, expecting, <<>>, host)
      /\ f[n] = State(closed, open, expecting, urls, host)
  <2>1. 0 \in 0..n /\ n \in 0..n /\ SubSeq(urls, 1, 0) = <<>> /\ SubSeq(urls, 1, n) = urls
    BY <1>1, PrefixEnds
  <2> QED BY <1>2, <2>1, Zenon
<1> QED BY <1>4, <1>5, Zenon

LEMMA HostIsRead ==
    ASSUME NEW closed, NEW open, NEW expecting, NEW sitemaps, NEW host \in Url
    PROVE  Reads(State(closed, open, expecting, sitemaps, Null), Lines("host", <<host>>),
                 State(closed, open, expecting, sitemaps, host))
<1> DEFINE before == State(closed, open, expecting, sitemaps, Null)
           after == State(closed, open, expecting, sitemaps, host)
           f == [k \in 0..1 |-> IF k = 0 THEN before ELSE after]
<1>1. ParseLine(before, LineOf("host", host)) = after
  BY UrlIsRead
<1> HIDE DEF before, after
<1>2. /\ f[0] = before /\ f[1] = after
      /\ <<host>> \in Seq(Url) /\ Len(<<host>>) = 1 /\ <<host>>[1] = host
      /\ \A k \in 1..1 : k = 1 /\ k - 1 = 0
  OBVIOUS
<1> HIDE DEF f
<1>3. PICK values \in Seq(Url) : values = <<host>>
  BY <1>2
<1>4. Len(values) = 1 /\ values[1] = host
  BY <1>2, <1>3, Zenon
<1>5. \A k \in 1..Len(values) : ParseLine(f[k - 1], LineOf("host", values[k])) = f[k]
  BY <1>1, <1>2, <1>4, Zenon
<1>6. Reads(f[0], Lines("host", values), f[Len(values)])
  BY <1>5, LinesInTurn
<1> QED BY <1>2, <1>3, <1>4, <1>6, Zenon DEF before, after

(* A configuration is read back from what is written of it.                  *)
LEMMA WrittenIsReadBack ==
    ASSUME NEW gs \in Seq(Group), NEW sitemaps \in Seq(Url), NEW host \in {Null} \cup Url,
           \A k \in 1..Len(gs) : gs[k].agents # <<>>,
           \A k \in 1..Len(gs) : k < Len(gs) => HasRule(gs[k]),
           NEW config, config = [groups |-> gs, sitemaps |-> sitemaps, host |-> host]
    PROVE  ParseRobotsTxt(FormatRobotsTxt(config)) = config
<1> DEFINE blocks == FlattenSeq([k \in DOMAIN gs |-> GroupLines(gs[k])])
           maps == Lines("sitemap", sitemaps)
           named == IF host = Null THEN <<>> ELSE Lines("host", <<host>>)
<1>1. config.groups = gs /\ config.sitemaps = sitemaps /\ config.host = host
  OBVIOUS
<1>2. FormatRobotsTxt(config) = blocks \o maps \o named
  BY <1>1, Zenon DEF FormatRobotsTxt
<1>3. PICK closed, open, expecting :
        /\ blocks \in Seq(Line)
        /\ Reads(Start, blocks, State(closed, open, expecting, <<>>, Null))
        /\ gs = IF open = Null THEN closed ELSE Append(closed, open)
  <2>1. CASE gs = <<>>
    <3>1. blocks = <<>>
      <4>1. [k \in DOMAIN gs |-> GroupLines(gs[k])] = <<>>
        BY <2>1
      <4>2. FlattenSeq(<<>>) = <<>>
        BY DEF FlattenSeq
      <4> QED BY <4>1, <4>2, Zenon
    <3>2. Start = State(<<>>, Null, No, <<>>, Null)
      BY Zenon DEF Start, State, No
    <3>3. Reads(Start, blocks, State(<<>>, Null, No, <<>>, Null))
      BY <3>1, <3>2, ReadsNothing, Zenon
    <3>4. <<>> \in Seq(Line)
      OBVIOUS
    <3> HIDE DEF blocks
    <3> QED BY <2>1, <3>1, <3>3, <3>4, Zenon
  <2>2. CASE gs # <<>>
    <3>1. PICK n \in Nat : n = Len(gs) /\ n \in 1..Len(gs)
      BY <2>2, PrefixEnds
    <3>2. PICK expecting :
            Reads(Start, blocks, State(SubSeq(gs, 1, n - 1), gs[n], expecting, <<>>, Null))
      BY <2>2, <3>1, GroupsAreRead
    <3>3. blocks \in Seq(Line)
      BY <2>2, GroupsAreRead
    <3>4. gs = Append(SubSeq(gs, 1, n - 1), gs[n])
      BY <3>1, PrefixGrows, PrefixEnds
    <3>5. gs[n] # Null
      BY <3>1, AbsentAssumption
    <3> HIDE DEF blocks
    <3> QED BY <3>2, <3>3, <3>4, <3>5, Zenon
  <2> QED BY <2>1, <2>2
<1>4. maps \in Seq(Line)
  BY WrittenIsLine, LinesAre
<1>5. named \in Seq(Line)
        /\ Reads(State(closed, open, expecting, sitemaps, Null), named,
                 State(closed, open, expecting, sitemaps, host))
  <2>1. CASE host = Null
    <3>1. <<>> \in Seq(Line)
      OBVIOUS
    <3> QED BY <2>1, <3>1, ReadsNothing, Zenon
  <2>2. CASE host # Null
    <3>1. host \in Url /\ <<host>> \in Seq(Url)
      BY <2>2
    <3>2. Lines("host", <<host>>) \in Seq(Line)
      BY <3>1, WrittenIsLine, LinesAre
    <3> QED BY <2>2, <3>1, <3>2, HostIsRead, Zenon
  <2> QED BY <2>1, <2>2
<1>6. Reads(State(closed, open, expecting, <<>>, Null), maps,
            State(closed, open, expecting, sitemaps, Null))
  BY SitemapsAreRead
<1> HIDE DEF blocks, maps, named
<1>7. blocks \o maps \in Seq(Line) /\ blocks \o maps \o named \in Seq(Line)
  BY <1>3, <1>4, <1>5
<1>8. Reads(Start, blocks \o maps, State(closed, open, expecting, sitemaps, Null))
  BY <1>3, <1>4, <1>6, ReadsOn
<1>9. Reads(Start, blocks \o maps \o named, State(closed, open, expecting, sitemaps, host))
  BY <1>5, <1>7, <1>8, ReadsOn
<1>10. ParseRobotsTxt(FormatRobotsTxt(config)) = Config(State(closed, open, expecting, sitemaps, host))
  BY <1>2, <1>7, <1>9, ParsedIsRead
<1>11. Config(State(closed, open, expecting, sitemaps, host)) = config
  <2>1. PICK state : state = State(closed, open, expecting, sitemaps, host)
    OBVIOUS
  <2>2. /\ state.groups = closed /\ state.open = open
        /\ state.sitemaps = sitemaps /\ state.host = host
    BY <2>1 DEF State
  <2> QED BY <1>3, <2>1, <2>2, Zenon DEF Config
<1> QED BY <1>10, <1>11

(* Every group has an agent.                                                 *)
GroupsAreNamed ==
    /\ \A k \in 1..Len(parser.groups) : parser.groups[k].agents # <<>>
    /\ parser.open # Null => parser.open.agents # <<>>

LEMMA GroupsAreNamedFromStart == Init => GroupsAreNamed
BY DEF Init, Start, GroupsAreNamed

LEMMA GroupsAreNamedNext == ParserInv /\ GroupsAreNamed /\ [Next]_vars => GroupsAreNamed'
<1> SUFFICES ASSUME ParserInv, GroupsAreNamed, [Next]_vars PROVE GroupsAreNamed'
  OBVIOUS
<1>1. parser \in Parser /\ parser.groups \in Seq(Group) /\ parser.open \in {Null} \cup Group
  BY DEF ParserInv, Parser
<1>2. CASE parser'.groups = parser.groups /\ parser'.open = parser.open
  BY <1>2 DEF GroupsAreNamed
<1>3. ASSUME NEW line \in Line, parser' = UserAgentLine(parser, line.value)
      PROVE  GroupsAreNamed'
  <2> DEFINE agent == line.value
  <2>1. NewGroup(agent).agents # <<>>
    BY DEF NewGroup
  <2>2. CASE parser.open = Null
    <3>1. parser' = [parser EXCEPT !.open = NewGroup(agent)]
      BY <1>3, <2>2 DEF UserAgentLine
    <3>2. parser'.groups = parser.groups /\ parser'.open = NewGroup(agent)
      BY <1>1, <3>1 DEF Parser
    <3> QED BY <2>1, <3>2 DEF GroupsAreNamed
  <2>3. CASE parser.open # Null /\ parser.expectingRules
    <3>1. parser' = [parser EXCEPT !.groups = Append(parser.groups, parser.open),
                                   !.open = NewGroup(agent), !.expectingRules = FALSE]
      BY <1>3, <2>3 DEF UserAgentLine
    <3>2. parser'.groups = Append(parser.groups, parser.open) /\ parser'.open = NewGroup(agent)
      BY <1>1, <3>1 DEF Parser
    <3>3. \A k \in 1..Len(parser'.groups) : parser'.groups[k].agents # <<>>
      BY <1>1, <2>3, <3>2 DEF GroupsAreNamed
    <3> QED BY <2>1, <3>2, <3>3 DEF GroupsAreNamed
  <2>4. CASE parser.open # Null /\ ~parser.expectingRules
    <3>1. parser' = [parser EXCEPT !.open = [parser.open EXCEPT !.agents = Append(parser.open.agents, agent)]]
      BY <1>3, <2>4 DEF UserAgentLine
    <3>2. parser'.groups = parser.groups
          /\ parser'.open.agents = Append(parser.open.agents, agent)
          /\ parser.open.agents \in Seq(Agent)
      BY <1>1, <2>4, <3>1 DEF Parser, Group
    <3> QED BY <3>2 DEF GroupsAreNamed
  <2> QED BY <2>2, <2>3, <2>4
<1>4. ASSUME NEW line \in Line, IsRuleLine(line), parser' = RuleLine(parser, line)
      PROVE  GroupsAreNamed'
  <2>1. CASE parser.open = Null
    <3>1. parser' = parser
      BY <1>4, <2>1 DEF RuleLine
    <3> QED BY <1>2, <3>1
  <2>2. CASE parser.open # Null
    <3>1. parser' = [parser EXCEPT !.open = Rule(parser.open, line), !.expectingRules = TRUE]
      BY <1>4, <2>2 DEF RuleLine
    <3>2. Rule(parser.open, line).agents = parser.open.agents
      <4>1. parser.open \in Group
        BY <1>1, <2>2
      <4> QED BY <1>4, <4>1 DEF Rule, IsRuleLine, Group
    <3>3. parser'.groups = parser.groups /\ parser'.open.agents = parser.open.agents
      BY <1>1, <3>1, <3>2 DEF Parser
    <3> QED BY <2>2, <3>3 DEF GroupsAreNamed
  <2> QED BY <2>1, <2>2
<1>5. ASSUME NEW line \in Line, ReadLine(line) PROVE GroupsAreNamed'
  <2>1. parser' = ParseLine(parser, line)
    BY <1>5 DEF ReadLine
  <2>2. CASE line.field = "user-agent"
    <3>1. parser' = UserAgentLine(parser, line.value)
      BY <2>1, <2>2 DEF ParseLine, IsRuleLine
    <3> QED BY <1>3, <3>1
  <2>3. CASE IsRuleLine(line)
    <3>1. parser' = RuleLine(parser, line)
      BY <2>1, <2>3 DEF ParseLine, IsRuleLine
    <3> QED BY <1>4, <2>3, <3>1
  <2>4. CASE line.field = "sitemap"
    <3>1. parser' = [parser EXCEPT !.sitemaps = Append(@, line.value)]
      BY <2>1, <2>4 DEF ParseLine, IsRuleLine
    <3> QED BY <1>1, <1>2, <3>1 DEF Parser
  <2>5. CASE line.field = "host"
    <3>1. parser' = [parser EXCEPT !.host = line.value]
      BY <2>1, <2>5 DEF ParseLine, IsRuleLine
    <3> QED BY <1>1, <1>2, <3>1 DEF Parser
  <2>6. CASE line.field = "other"
    BY <1>2, <2>1, <2>6 DEF ParseLine, IsRuleLine
  <2> QED BY <2>2, <2>3, <2>4, <2>5, <2>6 DEF Line, IsRuleLine
<1>6. CASE EndOfFile
  <2>1. parser' = Start
    BY <1>6 DEF EndOfFile
  <2> QED BY <2>1 DEF Start, GroupsAreNamed
<1>7. CASE parser' = parser
  BY <1>2, <1>7
<1>8. \/ \E line \in Line : ReadLine(line)
      \/ EndOfFile \/ parser' = parser
  BY DEF Next, Fetch, AddRule, Ask, vars
<1> QED BY <1>5, <1>6, <1>7, <1>8

LEMMA NamedGroupsComeBack == ParserInv /\ GroupsAreNamed => RoundTripWithRules
<1> SUFFICES ASSUME ParserInv, GroupsAreNamed,
                    \A k \in DOMAIN Config(parser).groups :
                        k < Len(Config(parser).groups) => HasRule(Config(parser).groups[k])
             PROVE  ParseRobotsTxt(FormatRobotsTxt(Config(parser))) = Config(parser)
  BY DEF RoundTripWithRules, RoundTrip
<1>1. /\ parser.groups \in Seq(Group) /\ parser.open \in {Null} \cup Group
      /\ parser.sitemaps \in Seq(Url) /\ parser.host \in {Null} \cup Url
  BY DEF ParserInv, Parser
<1>2. PICK gs : gs = IF parser.open = Null THEN parser.groups
                      ELSE Append(parser.groups, parser.open)
  OBVIOUS
<1>3. gs \in Seq(Group) /\ \A k \in 1..Len(gs) : gs[k].agents # <<>>
  BY <1>1, <1>2 DEF GroupsAreNamed
<1>4. Config(parser) = [groups |-> gs, sitemaps |-> parser.sitemaps, host |-> parser.host]
  BY <1>2, Zenon DEF Config
<1>5. Config(parser).groups = gs
  BY <1>4
<1>6. \A k \in 1..Len(gs) : k < Len(gs) => HasRule(gs[k])
  <2>1. DOMAIN gs = 1..Len(gs)
    BY <1>3
  <2> QED BY <1>5, <2>1
<1> QED BY <1>1, <1>3, <1>4, <1>6, WrittenIsReadBack

(* A configuration that parseRobotsTxt made, every group of which but the    *)
(* last has a rule to write, is read back by it, unchanged, from what        *)
(* formatRobotsTxt writes: agents, rules, delays, sitemaps and host, for     *)
(* every file.                                                               *)
THEOREM WrittenFilesAreReadBack == Spec => []RoundTripWithRules
<1>1. Init => ParserInv
  BY ParserStart DEF Init
<1> QED BY <1>1, GroupsAreNamedFromStart, ParserNext, GroupsAreNamedNext, NamedGroupsComeBack, PTL DEF Spec
=============================================================================
