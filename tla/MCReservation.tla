---------------------------- MODULE MCReservation ----------------------------
(***************************************************************************)
(* Instances of Reservation: two hosts, three request slots of which two   *)
(* are on the same host (the tag they write is the same), two names.       *)
(***************************************************************************)
EXTENDS Reservation, TLC

CONSTANTS h1, h2, t1, t2, t3, n1, n2

TwoHosts == {h1, h2}
ThreeTasks == {t1, t2, t3}
TwoNames == {n1, n2}
HostOfThree == [t \in ThreeTasks |-> IF t = t3 THEN h2 ELSE h1]
\* Names are interchangeable, and so are the two slots of host h1.
Interchangeable == Permutations(TwoNames) \union Permutations({t1, t2})

NoFaults == {}
NoReuse == AdverseEvents \ {"recreate"}
OnlyRecreate == {"recreate"}
=============================================================================
