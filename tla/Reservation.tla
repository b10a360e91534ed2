----------------------------- MODULE Reservation -----------------------------
(***************************************************************************)
(* The exclusive node lock of the conductors: TaskManager                  *)
(* (conductor/task_manager.py) over the "reservation" column of the nodes  *)
(* table (db/sqlalchemy/api.py: reserve_nodes, release_nodes), together    *)
(* with the node rows coming and going under it.  The column holds the     *)
(* name of the HOST that reserved the row, not the task, and it is         *)
(* released by host and node NAME; most of what can go wrong comes from    *)
(* these two facts.  Each database transaction is one step.                *)
(***************************************************************************)
EXTENDS Naturals, FiniteSets

CONSTANTS
    Host,          \* conductor hosts, the values of CONF.host
    Task,          \* request slots: the TaskManager objects alive at a time
    HostOf,        \* task -> the host its conductor process runs on
    Name,          \* node names
    NoTag,         \* the NULL of the reservation column
    Attempts,      \* CONF.conductor.node_locked_retry_attempts
    MaxGen,        \* bound: times a name can be created
    Faults         \* the adverse events an instance includes

AdverseEvents ==
    {"crash",      \* a conductor process dies
     "loaderror",  \* reading the nics of rows just reserved fails
     "releaseerror", \* the transaction of release_nodes fails
     "recreate"}   \* the name of a deleted node is used again

ASSUME ReservationAssumption ==
    /\ HostOf \in [Task -> Host]
    /\ NoTag \notin Host
    /\ Attempts \in Nat \ {0}
    /\ MaxGen \in Nat
    /\ Faults \subseteq AdverseEvents

VARIABLES
    gen,           \* name -> how many rows had this name so far (with the
                   \*   name it stands for the row's primary key)
    exists,        \* name -> is there a row of this name now
    reservation,   \* name -> the reservation column of that row
    phase,         \* task -> where its TaskManager is
    shared,        \* task -> TaskManager.shared
    node_names,    \* task -> TaskManager.node_names
    nodes,         \* task -> TaskManager.nodes, as a set of rows
    attempts       \* task -> failed attempts of the retry loop

tableVars == <<gen, exists, reservation>>
taskVars == <<phase, shared, node_names, nodes, attempts>>
vars == <<tableVars, taskVars>>

Row == Name \X (1..MaxGen)
RowOf(n) == <<n, gen[n]>>
Rows(S) == {RowOf(n) : n \in {m \in S : exists[m]}}

Phase == {"idle", "locking", "loading", "working", "exiting"}

TypeOK ==
    /\ gen \in [Name -> 0..MaxGen]
    /\ exists \in [Name -> BOOLEAN]
    /\ reservation \in [Name -> Host \union {NoTag}]
    /\ phase \in [Task -> Phase]
    /\ shared \in [Task -> BOOLEAN]
    /\ node_names \in [Task -> SUBSET Name]
    /\ nodes \in [Task -> SUBSET Row]
    /\ attempts \in [Task -> 0..(Attempts - 1)]

Init ==
    /\ gen = [n \in Name |-> 0]
    /\ exists = [n \in Name |-> FALSE]
    /\ reservation = [n \in Name |-> NoTag]
    /\ phase = [t \in Task |-> "idle"]
    /\ shared = [t \in Task |-> FALSE]
    /\ node_names = [t \in Task |-> {}]
    /\ nodes = [t \in Task |-> {}]
    /\ attempts = [t \in Task |-> 0]

-----------------------------------------------------------------------------
(* Node rows created through the API; no lock is involved.                 *)

CreateNode(n) ==
    /\ ~exists[n]
    /\ gen[n] < MaxGen
    /\ gen[n] = 0 \/ "recreate" \in Faults
    /\ gen' = [gen EXCEPT ![n] = @ + 1]
    /\ exists' = [exists EXCEPT ![n] = TRUE]
    /\ UNCHANGED <<reservation, taskVars>>

-----------------------------------------------------------------------------
(* TaskManager.                                                            *)

\* The TaskManager object is gone: its slot can serve another request.
Forget(t) ==
    /\ phase' = [phase EXCEPT ![t] = "idle"]
    /\ shared' = [shared EXCEPT ![t] = FALSE]
    /\ node_names' = [node_names EXCEPT ![t] = {}]
    /\ nodes' = [nodes EXCEPT ![t] = {}]
    /\ attempts' = [attempts EXCEPT ![t] = 0]

\* A request for the exclusive lock arrives (TaskManager.__init__).
AcquireExclusive(t) ==
    /\ phase[t] = "idle"
    /\ \E S \in (SUBSET Name) \ {{}} : node_names' = [node_names EXCEPT ![t] = S]
    /\ phase' = [phase EXCEPT ![t] = "locking"]
    /\ UNCHANGED <<tableVars, shared, nodes, attempts>>

\* A shared task takes no lock: it works on the rows that are unreserved now.
AcquireShared(t) ==
    /\ phase[t] = "idle"
    /\ \E S \in (SUBSET Name) \ {{}} :
         /\ node_names' = [node_names EXCEPT ![t] = S]
         /\ nodes' = [nodes EXCEPT ![t] = Rows({n \in S : reservation[n] = NoTag})]
    /\ shared' = [shared EXCEPT ![t] = TRUE]
    /\ phase' = [phase EXCEPT ![t] = "working"]
    /\ UNCHANGED <<tableVars, attempts>>

\* upgrade_lock: a shared task enters the retry loop, still marked shared.
UpgradeLock(t) ==
    /\ phase[t] = "working"
    /\ shared[t]
    /\ phase' = [phase EXCEPT ![t] = "locking"]
    /\ UNCHANGED <<tableVars, shared, node_names, nodes, attempts>>

\* MUTANT: some of the rows are enough.
SomeReservable(t) == \E n \in node_names[t] : exists[n] /\ reservation[n] = NoTag

\* MUTANT: the column is not looked at.
ExistingReservable(t) == \A n \in node_names[t] : exists[n]

\* The UPDATE of reserve_nodes counts one free row for each of the names.
Reservable(t) == \A n \in node_names[t] : exists[n] /\ reservation[n] = NoTag

\* reserve_nodes commits.  The task does not have the rows yet.
ReserveNodes(t) ==
    /\ phase[t] = "locking"
    /\ Reservable(t)
    /\ reservation' = [n \in Name |-> IF n \in node_names[t] /\ exists[n]
                                      THEN HostOf[t] ELSE reservation[n]]
    /\ nodes' = [nodes EXCEPT ![t] = Rows(node_names[t])]
    /\ attempts' = [attempts EXCEPT ![t] = 0]
    /\ phase' = [phase EXCEPT ![t] = "loading"]
    /\ UNCHANGED <<gen, exists, shared, node_names>>

\* NodeLocked is tried again until the attempts are used up; no row at all
\* is NodeNotFound, which is not.
MayRetry(t) ==
    /\ \E n \in node_names[t] : exists[n]
    /\ attempts[t] + 1 < Attempts

\* MUTANT: attempts are not counted.
RetryUncounted(t) ==
    /\ phase[t] = "locking"
    /\ ~Reservable(t)
    /\ MayRetry(t)
    /\ attempts' = [attempts EXCEPT ![t] = 0]
    /\ UNCHANGED <<tableVars, phase, shared, node_names, nodes>>

\* MUTANT: the loop knows no limit.
RetryEver(t) ==
    /\ phase[t] = "locking"
    /\ ~Reservable(t)
    /\ attempts' = [attempts EXCEPT ![t] = @ + 1]
    /\ UNCHANGED <<tableVars, phase, shared, node_names, nodes>>

\* reserve_nodes rolls back, and its whole group stays as it was.
RetryReserve(t) ==
    /\ phase[t] = "locking"
    /\ ~Reservable(t)
    /\ MayRetry(t)
    /\ attempts' = [attempts EXCEPT ![t] = @ + 1]
    /\ UNCHANGED <<tableVars, phase, shared, node_names, nodes>>

\* The exception leaves the task: release_resources finds no nodes to
\* release in a new task, and a shared task (upgrade_lock) releases nothing.
GiveUp(t) ==
    /\ phase[t] = "locking"
    /\ ~Reservable(t)
    /\ ~MayRetry(t)
    /\ Forget(t)
    /\ UNCHANGED tableVars

\* The rows and their nics have been read: the task has the lock.
LoadNodes(t) ==
    /\ phase[t] = "loading"
    /\ phase' = [phase EXCEPT ![t] = "working"]
    /\ shared' = [shared EXCEPT ![t] = FALSE]
    /\ UNCHANGED <<tableVars, node_names, nodes, attempts>>

\* Reading the nics fails after the commit: task.nodes was never assigned, so
\* release_resources does not release what the database already reserved.
LoadFails(t) ==
    /\ "loaderror" \in Faults
    /\ phase[t] = "loading"
    /\ Forget(t)
    /\ UNCHANGED tableVars

\* ConductorManager.destroy_nodes deletes those of its rows that are not being
\* deployed; which they are is left open.  A deleted row takes its reservation.
DestroyNodes(t) ==
    /\ phase[t] = "working"
    /\ ~shared[t]
    /\ \E D \in SUBSET nodes[t] :
         LET gone(n) == exists[n] /\ RowOf(n) \in D
         IN  /\ \E n \in Name : gone(n)
             /\ exists' = [n \in Name |-> exists[n] /\ ~gone(n)]
             /\ reservation' = [n \in Name |-> IF gone(n) THEN NoTag ELSE reservation[n]]
    /\ phase' = [phase EXCEPT ![t] = "exiting"]
    /\ UNCHANGED <<gen, shared, node_names, nodes, attempts>>

\* MUTANT: nothing is released.
ReleasedNone(t) == {}

\* The rows that release_nodes frees: those of the task's NAMES that this HOST
\* reserved, and none at all (rollback) when another host reserved one of them.
Released(t) ==
    {n \in node_names[t] :
        /\ exists[n] /\ reservation[n] = HostOf[t]
        /\ \A m \in node_names[t] : exists[m] => reservation[m] \in {NoTag, HostOf[t]}}

\* MUTANT: a shared task releases as well.
ReleaseAnyway(t) ==
    /\ phase[t] \in {"working", "exiting"}
    /\ reservation' = [n \in Name |-> IF n \in Released(t) THEN NoTag ELSE reservation[n]]
    /\ Forget(t)
    /\ UNCHANGED <<gen, exists>>

\* __exit__ and release_resources, after success or an exception alike.
ReleaseResources(t) ==
    /\ phase[t] \in {"working", "exiting"}
    /\ reservation' = [n \in Name |-> IF ~shared[t] /\ n \in Released(t)
                                      THEN NoTag ELSE reservation[n]]
    /\ Forget(t)
    /\ UNCHANGED <<gen, exists>>

\* The release transaction itself fails.
ReleaseFails(t) ==
    /\ "releaseerror" \in Faults
    /\ phase[t] \in {"working", "exiting"}
    /\ Forget(t)
    /\ UNCHANGED tableVars

\* A conductor process dies with the tasks it runs; nothing else notices, and
\* init_host of the restarted one does not look at reservations.
Crash(T) ==
    /\ "crash" \in Faults
    /\ \E t \in T : phase[t] # "idle"
    /\ \A t, u \in T : HostOf[t] = HostOf[u]
    /\ phase' = [t \in Task |-> IF t \in T THEN "idle" ELSE phase[t]]
    /\ shared' = [t \in Task |-> IF t \in T THEN FALSE ELSE shared[t]]
    /\ node_names' = [t \in Task |-> IF t \in T THEN {} ELSE node_names[t]]
    /\ nodes' = [t \in Task |-> IF t \in T THEN {} ELSE nodes[t]]
    /\ attempts' = [t \in Task |-> IF t \in T THEN 0 ELSE attempts[t]]
    /\ UNCHANGED tableVars

-----------------------------------------------------------------------------
\* What a greenthread does by itself, once its request is there.
Proceed(t) ==
    \/ ReserveNodes(t)
    \/ RetryReserve(t)
    \/ GiveUp(t)
    \/ LoadNodes(t)
    \/ ReleaseResources(t)

TaskStep(t) ==
    \/ AcquireExclusive(t)
    \/ AcquireShared(t)
    \/ UpgradeLock(t)
    \/ LoadFails(t)
    \/ DestroyNodes(t)
    \/ ReleaseFails(t)
    \/ Proceed(t)

Next ==
    \/ \E n \in Name : CreateNode(n)
    \/ \E t \in Task : TaskStep(t)
    \/ \E T \in SUBSET Task : Crash(T)

Spec == Init /\ [][Next]_vars

\* A greenthread that is alive is scheduled; plugins return or time out, so
\* "working" ends (manager.py waits at most CONF.conductor.timeout).
Fairness == \A t \in Task : WF_vars(Proceed(t))

FairSpec == Spec /\ Fairness

-----------------------------------------------------------------------------
(* Who holds what.                                                         *)

\* The database granted the task's exclusive lock and it has not released it.
HoldsLock(t) ==
    \/ phase[t] = "loading"
    \/ phase[t] \in {"working", "exiting"} /\ ~shared[t]

\* The nodes, by name, whose row of today the task has locked.
Held(t) == IF HoldsLock(t) THEN {n \in Name : exists[n] /\ RowOf(n) \in nodes[t]}
                           ELSE {}

\* The nodes whose reservation column is set.
Locked == {n \in Name : exists[n] /\ reservation[n] # NoTag}

(* Two tasks never work on the same row under an exclusive lock            *)
(* (task_manager.py:29-30).  Needs that no name is used twice: a task      *)
(* releases by name and host, so one that deleted its row frees the lock   *)
(* that another task of its host has on the row created after it.          *)
MutualExclusion ==
    \A t, u \in Task : t # u => Held(t) \intersect Held(u) = {}

(* A row a task works on exclusively is reserved, for the task's host, as  *)
(* long as the task works on it: the API's check for locked nodes sees it. *)
HeldIsReserved ==
    \A t \in Task : \A n \in Held(t) : reservation[n] = HostOf[t]

(* No row stays reserved with nobody to release it (release_resources:     *)
(* "If an exclusive lock is held, unlock the nodes").  Only without faults.*)
EveryReservationHasHolder ==
    \A n \in Locked : \E t \in Task : n \in Held(t)

(* A lock attempt changes all the rows of its group, none of which was     *)
(* reserved, or no row at all: reserve_nodes is all or nothing.            *)
WholeGroupOrNothing ==
    [][\A n \in Name : reservation'[n] \notin {NoTag, reservation[n]} =>
         \E t \in Task : /\ phase[t] = "locking"
                         /\ n \in node_names[t]
                         /\ \A m \in node_names[t] :
                              reservation[m] = NoTag /\ reservation'[m] = HostOf[t]]_vars

(* A reservation is cleared, its row staying, only when a task of the host *)
(* that made it ends, one that had asked for this node: no other host and  *)
(* no task with other nodes ever frees it.  Holds under every fault.       *)
OnlyOwnHostReleases ==
    [][\A n \in Name :
         (/\ reservation[n] # NoTag /\ exists'[n]
          /\ reservation'[n] = NoTag) =>
         \E t \in Task : /\ HostOf[t] = reservation[n]
                         /\ n \in node_names[t] /\ ~shared[t]
                         /\ phase[t] # "idle" /\ phase'[t] = "idle"]_vars

(* A locked node is unlocked again: the API answers "Locked temporarily"   *)
(* (api/controllers/v1/node.py:113).                                       *)
LockIsTemporary ==
    \A n \in Name : reservation[n] # NoTag ~> reservation[n] = NoTag

(* The retry loop of _lock ends, with the lock or with NodeLocked, however *)
(* the other tasks keep taking the rows away.                              *)
RequestAnswered ==
    \A t \in Task : phase[t] = "locking" ~> phase[t] # "locking"

-----------------------------------------------------------------------------
(* The lock as its users see it: a step of Reservation is a step of        *)
(* NodeLock on the nodes, or changes no lock.                              *)
Lock == INSTANCE NodeLock WITH Resource <- Name,
                               holds <- [t \in Task |-> Held(t)],
                               locked <- Locked

(* The reservation column implements the abstract lock, faults included,   *)
(* as long as no name is used twice.                                       *)
ImplementsNodeLock == Lock!LockSpec
=============================================================================
