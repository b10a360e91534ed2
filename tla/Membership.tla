----------------------------- MODULE Membership -----------------------------
(***************************************************************************)
(* What the services table promises to those who send requests (rpcapi.py  *)
(* asks it whom to call): which hosts are listed, against which processes  *)
(* are there.  The list is late and may be wrong for a while, in both      *)
(* directions: ServiceRegistry implements it.                              *)
(***************************************************************************)

CONSTANTS
    Host,           \* (hostname, type) pairs, the identity of a service
    Worker,         \* processes of the services
    HostOf          \* Worker -> Host

VARIABLES
    listed,         \* the hosts that get_services returns
    alive           \* the processes that are there

memberVars == <<listed, alive>>

MembershipInit == listed = {} /\ alive = {}

Start(w) ==
    /\ w \notin alive
    /\ alive' = alive \union {w}
    /\ UNCHANGED listed

\* Stopped or dead.
Stop(w) ==
    /\ w \in alive
    /\ alive' = alive \ {w}
    /\ UNCHANGED listed

\* A process registers or renews the row of its host: nobody else does.
Enlist(w) ==
    /\ w \in alive
    /\ listed' = listed \union {HostOf[w]}
    /\ UNCHANGED alive

\* Rows are too old: of the dead, or of those the database did not hear.
Lapse(H) ==
    /\ H \subseteq listed
    /\ listed' = listed \ H
    /\ UNCHANGED alive

MembershipNext ==
    \/ \E w \in Worker : Start(w) \/ Stop(w) \/ Enlist(w)
    \/ \E H \in SUBSET Host : Lapse(H)

\* The list catches up with who is there.
AliveIsListed ==
    \A w \in Worker : w \in alive ~> (HostOf[w] \in listed \/ w \notin alive)
DeadIsDropped ==
    \A h \in Host : (\A w \in alive : HostOf[w] # h)
                      ~> (h \notin listed \/ \E w \in alive : HostOf[w] = h)

MembershipSafety == MembershipInit /\ [][MembershipNext]_memberVars

MembershipSpec ==
    /\ MembershipSafety
    /\ AliveIsListed
    /\ DeadIsDropped
=============================================================================
