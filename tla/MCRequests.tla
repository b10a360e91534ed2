----------------------------- MODULE MCRequests -----------------------------
(* Two requests for groups of up to three nodes, two or three conductors.   *)
EXTENDS Requests

CONSTANTS h1, h2, h3, r1, r2, n1, n2, n3

OneRequest == {r1}
TwoRequests == {r1, r2}
TwoNames == {n1, n2}
TwoRows == <<n1, n2>>
ThreeNames == {n1, n2, n3}
ThreeRows == <<n1, n2, n3>>
TwoHosts == {h1, h2}
ThreeHosts == {h1, h2, h3}
OneWorker(h) == [host |-> h, workers |-> 1]
TwoConductors == <<OneWorker(h1), OneWorker(h2)>>
ThreeConductors == <<OneWorker(h1), OneWorker(h2), OneWorker(h3)>>
Asks(r, ops, names) == [req : {r}, op : ops, names : {names}]
GroupAgainstOne ==
    Asks(r1, {"get", "provision", "clean"}, TwoNames) \union Asks(r2, {"destroy"}, {n2})
FirstDeploying == {[n \in Name |-> IF n = n1 THEN h2 ELSE NoHost]}
NoDeployment == {[n \in Name |-> NoHost]}
PowerOfThree == Asks(r1, {"power"}, ThreeNames)
=============================================================================
