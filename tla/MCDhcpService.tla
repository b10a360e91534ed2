---------------------------- MODULE MCDhcpService ----------------------------
(* One service; a network that comes, goes or is changed; a node that is    *)
(* deployed and cleaned, and another one that is deployed.                  *)
EXTENDS DhcpService, TLC

CONSTANTS h1, net1, r1, r2, n1, n2, q1, q2, q3

OneHost == {h1}
OneNet == {net1}
TwoRows == {r1, r2}
AllLocal == [h \in Host |-> Net \X Row]
SameRows == Permutations(Row)
TwoNames == {n1, n2}
ThreeRequests == {q1, q2, q3}
OfTwoNames == [q \in Request |-> IF q = q2 THEN n2 ELSE n1]
AsksOne == [q \in Request |-> IF q = q1 THEN net1 ELSE NoNet]
LastCleans == {q3}
=============================================================================
