-------------------------- MODULE MCServiceRegistry --------------------------
(* Two processes of one host, which share its row in the services table.    *)
EXTENDS ServiceRegistry, TLC

CONSTANTS h1, w1, w2

OneHost == {h1}
TwoWorkers == {w1, w2}
Siblings == [w \in TwoWorkers |-> h1]
Survivable == ServiceFaults \ {"dberror"}
=============================================================================
