------------------------------ MODULE NodeLock ------------------------------
(***************************************************************************)
(* What xCAT3's exclusive lock promises, free of hosts, tags, retries and  *)
(* transactions: a task holds a set of node records, takes the whole set   *)
(* in one step or none of it, never takes a record that is locked, and     *)
(* gives back everything it holds at once.  A task that dies or whose      *)
(* release fails abandons its records: they stay locked with no holder.    *)
(***************************************************************************)
CONSTANTS Task,     \* the requests being worked on by the conductors
          Resource  \* the node records that can be locked

VARIABLES holds,    \* task -> the records it holds the exclusive lock on
          locked    \* the records that are locked, held or abandoned

lockVars == <<holds, locked>>

LockInit == /\ holds = [t \in Task |-> {}]
            /\ locked = {}

\* A task that holds nothing takes a whole set of unlocked records.
Acquire(t, S) ==
    /\ holds[t] = {}
    /\ S \intersect locked = {}
    /\ holds' = [holds EXCEPT ![t] = S]
    /\ locked' = locked \union S

\* The holder unlocks everything it holds.
Release(t) ==
    /\ holds' = [holds EXCEPT ![t] = {}]
    /\ locked' = locked \ holds[t]

\* The holder removes some of its records from the system, locks and all.
Remove(t, D) ==
    /\ D \subseteq holds[t]
    /\ holds' = [holds EXCEPT ![t] = @ \ D]
    /\ locked' = locked \ D

\* Holders disappear without unlocking: their records stay locked.
Abandon(T) ==
    /\ holds' = [t \in Task |-> IF t \in T THEN {} ELSE holds[t]]
    /\ UNCHANGED locked

LockNext ==
    \/ \E t \in Task : \/ \E S \in SUBSET Resource : Acquire(t, S) \/ Remove(t, S)
                       \/ Release(t)
    \/ \E T \in SUBSET Task : Abandon(T)

LockSpec == LockInit /\ [][LockNext]_lockVars
=============================================================================
