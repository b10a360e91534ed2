----------------------------- MODULE Deployment -----------------------------
(***************************************************************************)
(* The conductor's provisioning handlers (conductor/manager.py: provision, *)
(* clean, provision_callback, destroy_nodes, change_power_state) and what  *)
(* they keep in step: the state and conductor_affinity columns of a node,  *)
(* its record in the dhcp table, and, on every conductor host, its boot    *)
(* configuration and its installer template.  Each handler locks its nodes *)
(* (NodeLock, which Reservation implements), runs one greenthread a node,  *)
(* and then writes the database in separate transactions.  Requests come   *)
(* from the API, which reads and writes some of the state without a lock.  *)
(***************************************************************************)
EXTENDS NodeLock, Naturals, FiniteSets

CONSTANTS
    Host,        \* conductor hosts
    NoHost,      \* no conductor: NULL affinity, no dhcp record
    Ops,         \* the requests an instance includes
    Faults,      \* the adverse events an instance includes
    Boot         \* the boot plugin of the nodes

Node == Resource

Operations == {"provision", "dhcp", "clean", "destroy", "power"}

AdverseEvents ==
    {"workerfail",  \* a greenthread raises
     "timeout",     \* a greenthread outlives CONF.conductor.timeout
     "poolfull",    \* the conductor's worker pool is full half way
     "dberror",     \* a transaction of a handler fails
     "crash"}       \* a conductor host goes down and comes back

ASSUME DeploymentAssumption ==
    /\ NoHost \notin Host
    /\ Ops \subseteq Operations
    /\ Faults \subseteq AdverseEvents
    /\ Boot \in {"pxe", "petitboot"}

VARIABLES
    state,       \* node -> the state column; "gone" when the row is deleted
    affinity,    \* node -> the conductor_affinity column
    dhcp,        \* node -> next server (option 66) in its dhcp record
    bootconf,    \* host -> node -> the boot configuration it serves
    template,    \* host -> the nodes it has an installer template for
    task,        \* task -> the handler it runs
    zombies,     \* greenthreads still running after their handler returned
    casts,       \* callback messages on their way to a conductor
    reported     \* nodes whose installer has called back since provision

rowVars == <<state, affinity>>
fileVars == <<bootconf, template>>
apiVars == <<casts, reported>>
vars == <<lockVars, rowVars, dhcp, fileVars, task, zombies, apiVars>>

DeployState == {"none", "dhcp", "deploying", "deployed"}

Phase == {"idle", "checked", "queued", "running", "recording", "inserting", "saving", "exit"}
Progress == {"start", "mid", "done"}

\* What a request slot holds: the call, the conductor it went to, and in the
\* handler the nodes, how far their greenthreads are, which raised, which were
\* too late, and which dhcp records are to be inserted.
Handler == [op : Operations \union {"none", "callback"},
            host : Host \union {NoHost},
            phase : Phase,
            names : SUBSET Node,
            progress : [Node -> Progress],
            dead : SUBSET Node,
            late : SUBSET Node,
            fresh : SUBSET Node]

Greenthread == [op : Operations \union {"callback"}, host : Host, node : Node,
                progress : {"start", "mid"}]

Idle == [op |-> "none", host |-> NoHost, phase |-> "idle", names |-> {},
         progress |-> [n \in Node |-> "start"], dead |-> {}, late |-> {}, fresh |-> {}]

TypeOK ==
    /\ holds \in [Task -> SUBSET Node]
    /\ locked \subseteq Node
    /\ state \in [Node -> DeployState \union {"gone"}]
    /\ affinity \in [Node -> Host \union {NoHost}]
    /\ dhcp \in [Node -> Host \union {NoHost}]
    /\ bootconf \in [Host -> [Node -> {"none", "install", "disk"}]]
    /\ template \in [Host -> SUBSET Node]
    /\ task \in [Task -> Handler]
    /\ zombies \subseteq Greenthread
    /\ casts \subseteq Node \X Host
    /\ reported \subseteq Node

Init ==
    /\ LockInit
    /\ state = [n \in Node |-> "none"]
    /\ affinity = [n \in Node |-> NoHost]
    /\ dhcp = [n \in Node |-> NoHost]
    /\ bootconf = [h \in Host |-> [n \in Node |-> "none"]]
    /\ template = [h \in Host |-> {}]
    /\ task = [t \in Task |-> Idle]
    /\ zombies = {}
    /\ casts = {}
    /\ reported = {}

-----------------------------------------------------------------------------
(* The API.                                                                *)

\* The API looks which nodes of a request are there and unlocked
\* (_filter_unavailable_nodes); it decides on this answer from here on.
Request(t, op, S) ==
    /\ task[t].phase = "idle"
    /\ op \in Ops
    /\ S # {} /\ S \intersect locked = {}
    /\ \A n \in S : state[n] # "gone"
    /\ task' = [task EXCEPT ![t] = [Idle EXCEPT !.op = op, !.phase = "checked", !.names = S]]
    /\ UNCHANGED <<lockVars, rowVars, dhcp, fileVars, zombies, apiVars>>

\* The request goes to a conductor.  The affinity column chooses it for clean;
\* for the others, and for clean of a node without affinity, any may be chosen.
\* ConductorAPI.clean first deletes the dhcp records, holding no lock; its nodes
\* in the charge of another conductor are a call that gets there or does not
\* ("Conductor could not be found"), here one that does not.
Send(t, h) ==
    LET k == task[t]
        mine == {n \in k.names : k.op = "clean" => affinity[n] \in {h, NoHost}}
    IN  /\ k.phase = "checked"
        /\ mine # {}
        /\ dhcp' = [n \in Node |-> IF k.op = "clean" /\ n \in k.names THEN NoHost ELSE dhcp[n]]
        /\ task' = [task EXCEPT ![t].host = h, ![t].phase = "queued", ![t].names = mine]
        /\ UNCHANGED <<lockVars, rowVars, fileVars, zombies, apiVars>>

\* The installer on the node calls back once; the API looks at the node, with
\* no lock, and casts to the conductor in charge.
Callback(n) ==
    /\ n \notin reported
    /\ state[n] = "deploying" /\ affinity[n] # NoHost
    /\ casts' = casts \union {<<n, affinity[n]>>}
    /\ reported' = reported \union {n}
    /\ UNCHANGED <<lockVars, rowVars, dhcp, fileVars, task, zombies>>

\* The conductor takes the message off its queue.
DeliverCallback(t, n, h) ==
    /\ task[t].phase = "idle"
    /\ <<n, h>> \in casts
    /\ casts' = casts \ {<<n, h>>}
    /\ task' = [task EXCEPT ![t] = [Idle EXCEPT !.op = "callback", !.host = h,
                                                !.phase = "queued", !.names = {n}]]
    /\ UNCHANGED <<lockVars, rowVars, dhcp, fileVars, zombies, reported>>

-----------------------------------------------------------------------------
(* A handler's greenthreads.                                               *)

Threaded == {"provision", "dhcp", "clean", "power", "callback"}

Started(t) == task[t].phase \in {"running", "recording", "inserting", "saving", "exit"}

\* The nodes a handler has a greenthread at work on (the callback's own).
Running(t) ==
    {n \in task[t].names \ task[t].dead :
        Started(t) /\ task[t].op \in Threaded /\ task[t].progress[n] # "done"}

Advance(op, p) == IF p = "start" /\ op \in {"provision", "clean", "callback"}
                  THEN "mid" ELSE "done"

\* MUTANT: the boot configuration is written before the template.
WriteConfFirst(op, h, n, p) ==
    /\ template' = [template EXCEPT ![h] =
         CASE op = "provision" /\ p = "mid"             -> @ \union {n}
           [] op \in {"clean", "callback"} /\ p = "mid" -> @ \ {n}
           [] OTHER                                     -> @]
    /\ bootconf' = [bootconf EXCEPT ![h][n] =
         CASE op = "provision" /\ p = "start" -> "install"
           [] op = "clean" /\ p = "start"     -> "none"
           [] op = "callback" /\ p = "start"  -> "disk"
           [] OTHER                           -> @]

\* MUTANT: clean and the callback leave the boot configuration as it is.
LeaveConf(op, h, n, p) ==
    /\ template' = [template EXCEPT ![h] =
         CASE op = "provision" /\ p = "start"           -> @ \union {n}
           [] op \in {"clean", "callback"} /\ p = "mid" -> @ \ {n}
           [] OTHER                                     -> @]
    /\ bootconf' = [bootconf EXCEPT ![h][n] =
         IF op = "provision" /\ p = "mid" THEN "install" ELSE @]

\* What one step of a greenthread does to the files of its host: provision
\* writes the template, then the boot configuration that refers to it; clean
\* and the callback first take that configuration away, then the template.
WriteFiles(op, h, n, p) ==
    /\ template' = [template EXCEPT ![h] =
         CASE op = "provision" /\ p = "start"           -> @ \union {n}
           [] op \in {"clean", "callback"} /\ p = "mid" -> @ \ {n}
           [] OTHER                                     -> @]
    /\ bootconf' = [bootconf EXCEPT ![h][n] =
         CASE op = "provision" /\ p = "mid"  -> "install"
           [] op = "clean" /\ p = "start"    -> "none"
           [] op = "callback" /\ p = "start" -> "disk"
           [] OTHER                          -> @]

\* continue_deploy of pxe writes into a directory that clean removes.
CanWrite(op, h, n, p) ==
    op = "callback" /\ p = "start" /\ Boot = "pxe" => bootconf[h][n] # "none"

\* What can raise: anything before the first write, the build of the boot
\* configuration, and petitboot's set_boot_device; os_plugin.clean cannot.
CanFail(op, p) ==
    \/ p = "start"
    \/ op = "provision"
    \/ op = "callback" /\ Boot = "petitboot"

WorkerStep(t, n) ==
    LET k == task[t] IN
    /\ n \in Running(t)
    /\ CanWrite(k.op, k.host, n, k.progress[n])
    /\ WriteFiles(k.op, k.host, n, k.progress[n])
    /\ task' = [task EXCEPT ![t].progress[n] = Advance(k.op, @)]
    /\ UNCHANGED <<lockVars, rowVars, dhcp, zombies, apiVars>>

WorkerFails(t, n) ==
    LET k == task[t] IN
    /\ n \in Running(t)
    /\ \/ "workerfail" \in Faults /\ CanFail(k.op, k.progress[n])
       \/ ~CanWrite(k.op, k.host, n, k.progress[n])
    /\ task' = [task EXCEPT ![t].dead = @ \union {n}]
    /\ UNCHANGED <<lockVars, rowVars, dhcp, fileVars, zombies, apiVars>>

\* MUTANT: a greenthread that has finished is kept.
KeepZombie(z) ==
    /\ z \in zombies
    /\ WriteFiles(z.op, z.host, z.node, z.progress)
    /\ zombies' = (zombies \ {z}) \union {[z EXCEPT !.progress = Advance(z.op, @)]}
    /\ UNCHANGED <<lockVars, rowVars, dhcp, task, apiVars>>

\* A greenthread whose handler no longer waits for it.
ZombieStep(z) ==
    /\ z \in zombies
    /\ WriteFiles(z.op, z.host, z.node, z.progress)
    /\ zombies' = (zombies \ {z}) \union
                  {y \in {[z EXCEPT !.progress = Advance(z.op, @)]} : y.progress # "done"}
    /\ UNCHANGED <<lockVars, rowVars, dhcp, task, apiVars>>

-----------------------------------------------------------------------------
(* The handlers.                                                           *)

\* The handler gets the lock.  destroy_nodes goes on only if one of its nodes
\* is not being deployed.
Start(t) ==
    LET k == task[t] IN
    /\ k.phase = "queued"
    /\ \A n \in k.names : state[n] # "gone"
    /\ Acquire(t, k.names)
    /\ task' = [task EXCEPT ![t].phase =
         IF k.op # "destroy" THEN "running"
         ELSE IF \A n \in k.names : state[n] = "deploying" THEN "exit" ELSE "recording"]
    /\ UNCHANGED <<rowVars, dhcp, fileVars, zombies, apiVars>>

\* NodeLocked after the last attempt, or NodeNotFound.  A call answers with the
\* error; a callback is a cast, and is gone.
Refuse(t) ==
    /\ task[t].phase = "queued"
    /\ \E n \in task[t].names : n \in locked \/ state[n] = "gone"
    /\ task' = [task EXCEPT ![t] = Idle]
    /\ UNCHANGED <<lockVars, rowVars, dhcp, fileVars, zombies, apiVars>>

\* The worker pool is full half way through the spawning: NoFreeServiceWorker
\* ends the handler, and the greenthreads already submitted run on.
PoolFull(t) ==
    LET k == task[t] IN
    /\ "poolfull" \in Faults
    /\ k.phase = "running" /\ k.op # "callback"
    /\ k.dead = {} /\ \A n \in k.names : k.progress[n] = "start"
    /\ \E D \in (SUBSET k.names) \ {{}} :
         task' = [task EXCEPT ![t].dead = D, ![t].phase = "exit"]
    /\ UNCHANGED <<lockVars, rowVars, dhcp, fileVars, zombies, apiVars>>

\* What a handler does after its greenthreads: only provision keeps dhcp records.
AfterWait(t) ==
    CASE task[t].op \in {"provision", "dhcp"}               -> "recording"
      [] task[t].op = "clean"                               -> "saving"
      [] task[t].op = "callback" /\ task[t].dead = {}       -> "saving"
      [] OTHER                                              -> "exit"

\* _process_nodes_worker returns: all greenthreads are done, or the timeout is
\* over.  The callback works in the handler itself, without timeout.
WaitWorkers(t) ==
    /\ task[t].phase = "running"
    /\ Running(t) = {} \/ ("timeout" \in Faults /\ task[t].op # "callback")
    /\ task' = [task EXCEPT ![t].late = Running(t), ![t].phase = AfterWait(t)]
    /\ UNCHANGED <<lockVars, rowVars, dhcp, fileVars, zombies, apiVars>>

\* MUTANT: _filter_result lets every node pass.
AllNodes(t) == task[t].names

\* The nodes _filter_result leaves: their greenthread returned in time.
Succeeded(t) == task[t].names \ (task[t].dead \union task[t].late)

\* MUTANT: when there was a record to update, no record is inserted.
UpdateOnly(t) ==
    LET k == task[t]
        known == {n \in Succeeded(t) : dhcp[n] # NoHost}
    IN  /\ k.phase = "recording" /\ k.op \in {"provision", "dhcp"}
        /\ dhcp' = [n \in Node |-> IF n \in known THEN k.host ELSE dhcp[n]]
        /\ task' = [task EXCEPT ![t].phase = "inserting",
                                ![t].fresh = IF known = {} THEN Succeeded(t) ELSE {}]
        /\ UNCHANGED <<lockVars, rowVars, fileVars, zombies, apiVars>>

\* save_or_update_dhcp, first transaction: the records that are there.
UpdateDhcp(t) ==
    LET k == task[t]
        known == {n \in Succeeded(t) : dhcp[n] # NoHost}
    IN  /\ k.phase = "recording" /\ k.op \in {"provision", "dhcp"}
        /\ dhcp' = [n \in Node |-> IF n \in known THEN k.host ELSE dhcp[n]]
        /\ task' = [task EXCEPT ![t].phase = "inserting", ![t].fresh = Succeeded(t) \ known]
        /\ UNCHANGED <<lockVars, rowVars, fileVars, zombies, apiVars>>

\* Its second transaction: the records that were not.
InsertDhcp(t) ==
    LET k == task[t] IN
    /\ k.phase = "inserting"
    /\ dhcp' = [n \in Node |-> IF n \in k.fresh THEN k.host ELSE dhcp[n]]
    /\ task' = [task EXCEPT ![t].phase = "saving", ![t].fresh = {}]
    /\ UNCHANGED <<lockVars, rowVars, fileVars, zombies, apiVars>>

\* destroy_nodes removes the records of all its names, deploying or not.
RemoveDhcp(t) ==
    LET k == task[t] IN
    /\ k.phase = "recording" /\ k.op = "destroy"
    /\ dhcp' = [n \in Node |-> IF n \in k.names THEN NoHost ELSE dhcp[n]]
    /\ task' = [task EXCEPT ![t].phase = "saving"]
    /\ UNCHANGED <<lockVars, rowVars, fileVars, zombies, apiVars>>

\* Node.save_nodes of provision.  A new installation has not called back yet.
SaveProvision(t) ==
    LET k == task[t]
        saved == Succeeded(t)
    IN  /\ k.phase = "saving" /\ k.op = "provision"
        /\ state' = [n \in Node |-> IF n \in saved THEN "deploying" ELSE state[n]]
        /\ affinity' = [n \in Node |-> IF n \in saved THEN k.host ELSE affinity[n]]
        /\ reported' = reported \ saved
        /\ task' = [task EXCEPT ![t].phase = "exit"]
        /\ UNCHANGED <<lockVars, dhcp, fileVars, zombies, casts>>

\* The same with the target "dhcp": nobody is put in charge of the node.
SaveDhcp(t) ==
    LET k == task[t] IN
    /\ k.phase = "saving" /\ k.op = "dhcp"
    /\ state' = [n \in Node |-> IF n \in Succeeded(t) THEN "dhcp" ELSE state[n]]
    /\ task' = [task EXCEPT ![t].phase = "exit"]
    /\ UNCHANGED <<lockVars, affinity, dhcp, fileVars, zombies, apiVars>>

\* MUTANT: _clean takes the conductor off the node before it sets the state.
SaveCleanAffinityFirst(t) ==
    LET k == task[t] IN
    /\ k.phase = "saving" /\ k.op = "clean"
    /\ state' = [n \in Node |-> IF n \in k.names /\ k.progress[n] = "done"
                                THEN "none" ELSE state[n]]
    /\ affinity' = [n \in Node |-> IF n \in k.names /\ k.progress[n] # "start"
                                   THEN NoHost ELSE affinity[n]]
    /\ task' = [task EXCEPT ![t].phase = "exit"]
    /\ UNCHANGED <<lockVars, dhcp, fileVars, zombies, apiVars>>

\* clean saves all its nodes, with what _clean has set in them so far: the
\* state after the boot plugin's clean, the affinity at the very end.
SaveClean(t) ==
    LET k == task[t] IN
    /\ k.phase = "saving" /\ k.op = "clean"
    /\ state' = [n \in Node |-> IF n \in k.names /\ k.progress[n] # "start"
                                THEN "none" ELSE state[n]]
    /\ affinity' = [n \in Node |-> IF n \in k.names /\ k.progress[n] = "done"
                                   THEN NoHost ELSE affinity[n]]
    /\ task' = [task EXCEPT ![t].phase = "exit"]
    /\ UNCHANGED <<lockVars, dhcp, fileVars, zombies, apiVars>>

\* provision_callback saves its node, whatever its state has become.
SaveCallback(t) ==
    LET k == task[t] IN
    /\ k.phase = "saving" /\ k.op = "callback"
    /\ state' = [n \in Node |-> IF n \in k.names THEN "deployed" ELSE state[n]]
    /\ affinity' = [n \in Node |-> IF n \in k.names THEN NoHost ELSE affinity[n]]
    /\ task' = [task EXCEPT ![t].phase = "exit"]
    /\ UNCHANGED <<lockVars, dhcp, fileVars, zombies, apiVars>>

\* Node.destroy_nodes: the rows that are not deploying go, lock and all.
DeleteRows(t) ==
    LET k == task[t]
        D == {n \in k.names : state[n] # "deploying"}
    IN  /\ k.phase = "saving" /\ k.op = "destroy"
        /\ Remove(t, D)
        /\ state' = [n \in Node |-> IF n \in D THEN "gone" ELSE state[n]]
        /\ affinity' = [n \in Node |-> IF n \in D THEN NoHost ELSE affinity[n]]
        /\ task' = [task EXCEPT ![t].phase = "exit"]
        /\ UNCHANGED <<dhcp, fileVars, zombies, apiVars>>

\* A transaction of the handler fails: what came before it stays.
DbFails(t) ==
    /\ "dberror" \in Faults
    /\ task[t].phase \in {"recording", "inserting", "saving"}
    /\ task' = [task EXCEPT ![t].phase = "exit"]
    /\ UNCHANGED <<lockVars, rowVars, dhcp, fileVars, zombies, apiVars>>

\* The handler ends and unlocks its nodes; nobody stops its greenthreads.
Exit(t) ==
    LET k == task[t] IN
    /\ k.phase = "exit"
    /\ Release(t)
    /\ zombies' = zombies \union
         {[op |-> k.op, host |-> k.host, node |-> n, progress |-> k.progress[n]] :
             n \in Running(t)}
    /\ task' = [task EXCEPT ![t] = Idle]
    /\ UNCHANGED <<rowVars, dhcp, fileVars, apiVars>>

\* A conductor host goes down with all it runs, and comes back.
Crash(h) ==
    LET T == {t \in Task : task[t].host = h} IN
    /\ "crash" \in Faults
    /\ T # {} \/ \E z \in zombies : z.host = h
    /\ Abandon(T)
    /\ task' = [t \in Task |-> IF t \in T THEN Idle ELSE task[t]]
    /\ zombies' = {z \in zombies : z.host # h}
    /\ UNCHANGED <<rowVars, dhcp, fileVars, apiVars>>

-----------------------------------------------------------------------------
\* What the threads of the API and of the conductors do by themselves.
HandlerStep(t) ==
    \/ \E h \in Host : Send(t, h)
    \/ Start(t) \/ Refuse(t) \/ WaitWorkers(t)
    \/ UpdateDhcp(t) \/ InsertDhcp(t) \/ RemoveDhcp(t)
    \/ SaveProvision(t) \/ SaveDhcp(t) \/ SaveClean(t) \/ SaveCallback(t) \/ DeleteRows(t)
    \/ Exit(t)

Deliver == \E t \in Task, n \in Node, h \in Host : DeliverCallback(t, n, h)

Next ==
    \/ \E t \in Task :
         \/ \E op \in Ops, S \in SUBSET Node : Request(t, op, S)
         \/ HandlerStep(t)
         \/ \E n \in Node : WorkerStep(t, n) \/ WorkerFails(t, n)
         \/ PoolFull(t) \/ DbFails(t)
    \/ \E n \in Node : Callback(n)
    \/ Deliver
    \/ \E z \in zombies : ZombieStep(z)
    \/ \E h \in Host : Crash(h)

Spec == Init /\ [][Next]_vars

-----------------------------------------------------------------------------
Unlocked(n) == n \notin locked

\* A clean request has deleted the dhcp record and is not over.
BeingCleaned(n) == \E t \in Task : task[t].op = "clean" /\ n \in task[t].names

(* A boot configuration that starts an installation never points to a      *)
(* template that is not there: the order of the writes in _provision and   *)
(* _clean, and the lock, keep the two files of a host together.  Needs     *)
(* that no greenthread outlives its handler.                               *)
InstallHasTemplate ==
    \A h \in Host, n \in Node : bootconf[h][n] = "install" => n \in template[h]

(* A node being deployed, until its installer calls back, is served: the   *)
(* conductor in charge is the one its dhcp record sends it to, and that    *)
(* host has the configuration and the template.  These are written by      *)
(* greenthreads and three transactions, and only the lock keeps them       *)
(* together (manager.py: provision).                                       *)
DeployingIsServed ==
    \A n \in Node :
        (state[n] = "deploying" /\ Unlocked(n) /\ n \notin reported /\ ~BeingCleaned(n)) =>
            \E h \in Host : /\ affinity[n] = h /\ dhcp[n] = h
                            /\ bootconf[h][n] = "install" /\ n \in template[h]

(* A node being deployed has a conductor in charge of it: else neither the *)
(* callback nor clean could reach the files.  Holds under every fault,     *)
(* because of the order in which _clean sets the two columns.              *)
DeployingHasConductor ==
    \A n \in Node : state[n] = "deploying" => affinity[n] # NoHost

(* A node that is deployed is not installed again when it boots            *)
(* (plugins/osimage/scripts/post.py:213): no host it is sent to serves it  *)
(* an install configuration.  Only with a single conductor host.           *)
DeployedBootsDisk ==
    \A n \in Node, h \in Host :
        (state[n] = "deployed" /\ Unlocked(n) /\ dhcp[n] = h) => bootconf[h][n] # "install"

(* clean takes away what provision wrote, on whatever host                 *)
(* (ConductorAPI.clean: "Clean up the files and configuration").  Only     *)
(* with a single conductor host.                                           *)
CleanRemovesFiles ==
    \A n \in Node, h \in Host :
        (state[n] = "none" /\ Unlocked(n)) => bootconf[h][n] # "install" /\ n \notin template[h]
=============================================================================
