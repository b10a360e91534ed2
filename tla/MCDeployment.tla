---------------------------- MODULE MCDeployment ----------------------------
(***************************************************************************)
(* Instances of Deployment: one or two conductor hosts, one or two nodes,  *)
(* two requests at a time.                                                 *)
(***************************************************************************)
EXTENDS Deployment, TLC

CONSTANTS h1, h2, t1, t2, n1, n2

OneHost == {h1}
TwoHosts == {h1, h2}
TwoTasks == {t1, t2}
OneNode == {n1}
TwoNodes == {n1, n2}
Interchangeable == Permutations({h1, h2}) \union Permutations({t1, t2})
                   \union Permutations({n1, n2})

NoFaults == {}
RecordsSafe == {"workerfail", "crash"}

ProvisionOps == {"provision", "dhcp", "power"}
CleanOps == {"provision", "clean"}
FileOps == Operations \ {"power"}

\* Two hosts and two nodes, of which one or the other is left out: a second
\* host that does nothing, or a second node that no request names (a bound).
Idles(h) ==
    /\ \A t \in Task : task[t].host # h
    /\ \A n \in Node : affinity[n] # h /\ dhcp[n] # h /\ bootconf[h][n] = "none"
    /\ template[h] = {}
Untouched(n) ==
    /\ \A t \in Task : n \notin task[t].names
    /\ state[n] = "none" /\ dhcp[n] = NoHost
    /\ \A h \in Host : bootconf[h][n] = "none" /\ n \notin template[h]
OneLeftOut == (\E h \in Host : Idles(h)) \/ (\E n \in Node : Untouched(n))
ServedSpec == Init /\ [][Next /\ OneLeftOut']_vars
=============================================================================
