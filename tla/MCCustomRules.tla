--------------------------- MODULE MCCustomRules ----------------------------
(* Instances of CustomRules for TLC.                                         *)
EXTENDS CustomRules

CONSTANTS c1, c2, w1, w2, h1, h2

\* Contents: two files, x and y, the first in two projects.
MCContents == {"x", "xp", "y"}
MCEntity == [c \in MCContents |-> IF c = "y" THEN "y" ELSE "x"]
MCSameTime == [h \in Heartbeats |-> 1]
MCSent == [h \in Heartbeats |-> IF h = h2 THEN "y" ELSE "x"]

\* Put x into the project; take everything in x to y; delete y.
Project == [priority |-> 1, match |-> {"x"}, to |-> "xp"]
Rename == [priority |-> 1, match |-> {"x", "xp"}, to |-> "y"]
Drop == [priority |-> 2, match |-> {"y"}, to |-> Deleted]
MCRules == {Project, Rename, Drop}
MCPutSets == {{Project}, {Rename, Drop}}
=============================================================================
