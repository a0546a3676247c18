--------------------------- MODULE MCPushStreams ---------------------------
(* An instance of PushStreams: two instances of the script, and lists in  *)
(* which a channel comes, goes, and changes its address.                   *)
EXTENDS PushStreams, TLC

CONSTANTS r1, r2, g1, g2, g3, u1, u2

MCRun == {r1, r2}
Instances == Permutations(MCRun)
MCGuid == {g1, g2, g3}
MCUrl == {u1, u2}
MCProper == {g1, g2}

List(a, b) == [g \in MCGuid |-> IF g = g1 THEN a ELSE IF g = g2 THEN b ELSE u1]
MCLists == {List(u1, None), List(u2, u1)}

=============================================================================
