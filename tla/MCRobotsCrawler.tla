--------------------------- MODULE MCRobotsCrawler ---------------------------
(* Two tokens of one length inside one visitor, a longer one inside another;  *)
(* patterns of two lengths, the longer one for one of the paths only.         *)
EXTENDS RobotsCrawler

MCAgent == {"bot", "web", "webbot", "*"}
MCTokenLength == [t \in MCAgent \ {"*"} |-> IF t = "webbot" THEN 6 ELSE 3]
MCVisitor == {"webbot", "bot-web", "other"}
MCTokensIn ==
    [v \in MCVisitor |-> CASE v = "webbot" -> {"bot", "web", "webbot"}
                           [] v = "bot-web" -> {"bot", "web"}
                           [] v = "other" -> {}]
MCPattern == {"/", "/a"}
MCPatternLength == [p \in MCPattern |-> IF p = "/" THEN 1 ELSE 2]
MCPath == {"/a", "/b"}
MCPathsOf == [p \in MCPattern |-> IF p = "/" THEN MCPath ELSE {"/a"}]
=============================================================================
