---------------------------- MODULE MCProcessor ----------------------------
(* A small instance of Processor: list files over three channels and three *)
(* usable slots.                                                           *)
EXTENDS Processor

CONSTANTS g1, g2, g3, u1, u2, p1, p2, p3, p4

A  == [guid |-> g1, url |-> u1]
A2 == [guid |-> g1, url |-> u2]
B  == [guid |-> g2, url |-> u1]
C  == [guid |-> g3, url |-> u2]

MCGuid == {g1, g2, g3}
MCUrl == {u1, u2}
MCRtmpUrl == {u2}
MCPid == {p1, p2, p3, p4}

\* The edit from the first list to the second needs one slot too many while
\* the deleted workers are still there; the second repeats a line.
MCLists == {<<A, B, C>>, <<A2, C, C>>, <<B>>, <<>>}

=============================================================================
