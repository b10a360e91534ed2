-------------------------- MODULE Deployment_proofs --------------------------
(***************************************************************************)
(* Theorems about the provisioning handlers, for any number of hosts,      *)
(* nodes and requests at a time.                                           *)
(***************************************************************************)
EXTENDS Deployment, TLAPS

-----------------------------------------------------------------------------
(* Types.  A handler that is queued or runs does so on a conductor host.   *)
TypeInv ==
    /\ TypeOK
    /\ \A t \in Task : task[t].phase \notin {"idle", "checked"} => task[t].host \in Host

\* An empty slot is typed.
LEMMA IdleTyped == Idle \in Handler
  BY DEF Idle, Handler, Phase, Progress

\* A slot gets a typed content; one that is on its way to work names a host.
LEMMA SlotTyped ==
  ASSUME TypeInv, NEW t \in Task, NEW r \in Handler,
         r.phase \notin {"idle", "checked"} => r.host \in Host,
         task' = [task EXCEPT ![t] = r]
  PROVE  /\ task' \in [Task -> Handler]
         /\ \A u \in Task : task'[u].phase \notin {"idle", "checked"} => task'[u].host \in Host
  BY DEF TypeInv, TypeOK

\* A handler that works goes on to another phase.
LEMMA PhaseTyped ==
  ASSUME TypeInv, NEW t \in Task, NEW p \in Phase, task[t].phase \notin {"idle", "checked"},
         task' = [task EXCEPT ![t].phase = p]
  PROVE  /\ task' \in [Task -> Handler]
         /\ \A u \in Task : task'[u].phase \notin {"idle", "checked"} => task'[u].host \in Host
<1>1. task[t] \in Handler /\ task[t].host \in Host
  BY DEF TypeInv, TypeOK
<1>2. [task[t] EXCEPT !.phase = p] \in Handler
  BY <1>1 DEF Handler
<1>3. task' = [task EXCEPT ![t] = [task[t] EXCEPT !.phase = p]]
  OBVIOUS
<1>4. [task[t] EXCEPT !.phase = p].host \in Host
  BY <1>1 DEF Handler
<1> QED BY <1>2, <1>3, <1>4, SlotTyped

\* The slot becomes free.
LEMMA FreedTyped ==
  ASSUME TypeInv, NEW t \in Task, task' = [task EXCEPT ![t] = Idle]
  PROVE  /\ task' \in [Task -> Handler]
         /\ \A u \in Task : task'[u].phase \notin {"idle", "checked"} => task'[u].host \in Host
  BY IdleTyped, SlotTyped DEF Idle

\* What one step of a greenthread writes is typed.
LEMMA FilesTyped ==
  ASSUME TypeOK, NEW op, NEW h \in Host, NEW n \in Node, NEW p, WriteFiles(op, h, n, p)
  PROVE  /\ bootconf' \in [Host -> [Node -> {"none", "install", "disk"}]]
         /\ template' \in [Host -> SUBSET Node]
  BY DEF TypeOK, WriteFiles

\* The API's steps keep the types.
LEMMA RequestTyped ==
  ASSUME TypeInv, NEW t \in Task, NEW op \in Ops, NEW S \in SUBSET Node, Request(t, op, S)
  PROVE  TypeInv'
<1>1. [Idle EXCEPT !.op = op, !.phase = "checked", !.names = S] \in Handler
  BY IdleTyped, DeploymentAssumption DEF Handler, Phase, DeploymentAssumption, Idle
<1> QED BY <1>1, SlotTyped DEF Request, TypeInv, TypeOK, Idle, lockVars, rowVars, fileVars, apiVars

\* Send: the slot is queued at a host.
LEMMA SendTyped ==
  ASSUME TypeInv, NEW t \in Task, NEW h \in Host, Send(t, h)
  PROVE  TypeInv'
<1> DEFINE mine == {n \in task[t].names : task[t].op = "clean" => affinity[n] \in {h, NoHost}}
<1>1. task[t] \in Handler
  BY DEF TypeInv, TypeOK
<1>2. [task[t] EXCEPT !.host = h, !.phase = "queued", !.names = mine] \in Handler
  BY <1>1 DEF Handler, Phase
<1>3. task' = [task EXCEPT ![t] = [task[t] EXCEPT !.host = h, !.phase = "queued", !.names = mine]]
  BY DEF Send
<1>4. dhcp' \in [Node -> Host \union {NoHost}]
  BY DEF Send, TypeInv, TypeOK
<1>5. /\ task' \in [Task -> Handler]
      /\ \A u \in Task : task'[u].phase \notin {"idle", "checked"} => task'[u].host \in Host
  <2> HIDE DEF mine
  <2> QED BY <1>1, <1>2, <1>3, SlotTyped DEF Handler
<1> QED BY <1>4, <1>5 DEF Send, TypeInv, TypeOK, lockVars, rowVars, fileVars, apiVars

\* Callback: the message names a node and a host.
LEMMA CallbackTyped ==
  ASSUME TypeInv, NEW n \in Node, Callback(n)
  PROVE  TypeInv'
<1>1. affinity[n] \in Host
  BY DEF Callback, TypeInv, TypeOK
<1> QED BY <1>1 DEF Callback, TypeInv, TypeOK, lockVars, rowVars, fileVars

\* DeliverCallback: the slot is queued at the host of the message.
LEMMA DeliverTyped ==
  ASSUME TypeInv, NEW t \in Task, NEW n \in Node, NEW h \in Host, DeliverCallback(t, n, h)
  PROVE  TypeInv'
<1>1. [Idle EXCEPT !.op = "callback", !.host = h, !.phase = "queued", !.names = {n}] \in Handler
  BY IdleTyped DEF Handler, Phase, Idle
<1>2. casts' \subseteq Node \X Host
  BY DEF DeliverCallback, TypeInv, TypeOK
<1> QED BY <1>1, <1>2, SlotTyped
        DEF DeliverCallback, TypeInv, TypeOK, Idle, lockVars, rowVars, fileVars

\* The steps of the greenthreads keep the types.
LEMMA AdvanceTyped ==
  ASSUME NEW op, NEW p
  PROVE  Advance(op, p) \in Progress /\ Advance(op, p) # "start"
  BY DEF Advance, Progress

\* WorkerStep and WorkerFails: the host of a running handler is a host.
LEMMA WorkerTyped ==
  ASSUME TypeInv, NEW t \in Task, NEW n \in Node, WorkerStep(t, n) \/ WorkerFails(t, n)
  PROVE  TypeInv'
<1>0. task[t] \in Handler /\ n \in Running(t) /\ task[t].host \in Host
  BY DEF TypeInv, TypeOK, WorkerStep, WorkerFails, Running, Started
<1>1. CASE WorkerStep(t, n)
  <2> DEFINE p == Advance(task[t].op, task[t].progress[n])
             r == [task[t] EXCEPT !.progress = [task[t].progress EXCEPT ![n] = p]]
  <2>1. p \in Progress
    BY AdvanceTyped
  <2> HIDE DEF p
  <2>2. r \in Handler /\ r.host \in Host
    BY <1>0, <2>1 DEF Handler
  <2>3. task' = [task EXCEPT ![t] = r]
    BY <1>0, <1>1 DEF WorkerStep, Handler, p
  <2> HIDE DEF r
  <2>4. /\ task' \in [Task -> Handler]
        /\ \A u \in Task : task'[u].phase \notin {"idle", "checked"} => task'[u].host \in Host
    BY <2>2, <2>3, SlotTyped
  <2>5. /\ bootconf' \in [Host -> [Node -> {"none", "install", "disk"}]]
        /\ template' \in [Host -> SUBSET Node]
    BY <1>0, <1>1, FilesTyped DEF WorkerStep, TypeInv
  <2> QED BY <1>1, <2>4, <2>5 DEF WorkerStep, TypeInv, TypeOK, lockVars, rowVars, apiVars
<1>2. CASE WorkerFails(t, n)
  <2> DEFINE r == [task[t] EXCEPT !.dead = @ \union {n}]
  <2>1. r \in Handler /\ r.host \in Host
    BY <1>0 DEF Handler
  <2>2. task' = [task EXCEPT ![t] = r]
    BY <1>2 DEF WorkerFails
  <2> HIDE DEF r
  <2>3. /\ task' \in [Task -> Handler]
        /\ \A u \in Task : task'[u].phase \notin {"idle", "checked"} => task'[u].host \in Host
    BY <2>1, <2>2, SlotTyped
  <2> QED BY <1>2, <2>3 DEF WorkerFails, TypeInv, TypeOK, lockVars, rowVars, fileVars, apiVars
<1> QED BY <1>1, <1>2

\* ZombieStep: what is left of the greenthread still has work to do.
LEMMA ZombieTyped ==
  ASSUME TypeInv, NEW z \in zombies, ZombieStep(z)
  PROVE  TypeInv'
<1>0. z \in Greenthread
  BY DEF TypeInv, TypeOK
<1> DEFINE p == Advance(z.op, z.progress)
           y == [z EXCEPT !.progress = p]
<1>1. p \in Progress /\ p # "start"
  BY AdvanceTyped
<1> HIDE DEF p
<1>2. y.progress # "done" => y \in Greenthread
  BY <1>0, <1>1 DEF Greenthread, Progress
<1>3. zombies' \subseteq zombies \union {x \in {y} : x.progress # "done"}
  BY DEF ZombieStep, p
<1> HIDE DEF y
<1>4. zombies' \subseteq Greenthread
  BY <1>2, <1>3 DEF TypeInv, TypeOK
<1>5. /\ bootconf' \in [Host -> [Node -> {"none", "install", "disk"}]]
      /\ template' \in [Host -> SUBSET Node]
  BY <1>0, FilesTyped DEF ZombieStep, TypeInv, Greenthread
<1> QED BY <1>4, <1>5 DEF ZombieStep, TypeInv, TypeOK, lockVars, rowVars, apiVars

\* The steps of a handler keep the types, those that only change its slot first.
LEMMA SlotStepTyped ==
  ASSUME TypeInv, NEW t \in Task, Refuse(t) \/ PoolFull(t) \/ WaitWorkers(t) \/ DbFails(t)
  PROVE  TypeInv'
<1> USE DEF lockVars, rowVars, fileVars, apiVars
<1>0. task[t] \in Handler /\ Running(t) \subseteq Node /\ AfterWait(t) \in Phase
  BY DEF TypeInv, TypeOK, Running, AfterWait, Handler, Phase
<1>1. CASE Refuse(t)
  BY <1>1, FreedTyped DEF Refuse, TypeInv, TypeOK
<1>2. CASE PoolFull(t)
  <2>0. PICK D \in SUBSET task[t].names :
          task' = [task EXCEPT ![t].dead = D, ![t].phase = "exit"]
    BY <1>2 DEF PoolFull
  <2>1. task' = [task EXCEPT ![t] = [task[t] EXCEPT !.dead = D, !.phase = "exit"]]
    BY <2>0
  <2>2. [task[t] EXCEPT !.dead = D, !.phase = "exit"] \in Handler
    BY <1>0 DEF Handler, Phase
  <2>3. [task[t] EXCEPT !.dead = D, !.phase = "exit"].host \in Host
    BY <1>0, <1>2 DEF PoolFull, TypeInv, Handler
  <2> QED BY <1>2, <2>1, <2>2, <2>3, SlotTyped DEF PoolFull, TypeInv, TypeOK
<1>3. CASE WaitWorkers(t)
  <2> DEFINE r == [task[t] EXCEPT !.late = Running(t), !.phase = AfterWait(t)]
  <2>1. task' = [task EXCEPT ![t] = r]
    BY <1>3 DEF WaitWorkers
  <2>2. r \in Handler
    BY <1>0 DEF Handler
  <2>3. r.host \in Host
    BY <1>0, <1>3 DEF WaitWorkers, TypeInv, Handler
  <2> HIDE DEF r
  <2> QED BY <1>3, <2>1, <2>2, <2>3, SlotTyped DEF WaitWorkers, TypeInv, TypeOK
<1>4. CASE DbFails(t)
  BY <1>4, PhaseTyped DEF DbFails, TypeInv, TypeOK, Phase
<1> QED BY <1>1, <1>2, <1>3, <1>4

\* Start, Exit and DeleteRows, the steps that change the lock.
LEMMA LockStepTyped ==
  ASSUME TypeInv, NEW t \in Task, Start(t) \/ DeleteRows(t) \/ Exit(t)
  PROVE  TypeInv'
<1> USE DEF lockVars, rowVars, fileVars, apiVars
<1>0. task[t] \in Handler
  BY DEF TypeInv, TypeOK
<1>1. CASE Start(t)
  <2> DEFINE p == IF task[t].op # "destroy" THEN "running"
                  ELSE IF \A n \in task[t].names : state[n] = "deploying"
                       THEN "exit" ELSE "recording"
  <2>1. task' = [task EXCEPT ![t].phase = p] /\ p \in Phase
    BY <1>1 DEF Start, Phase
  <2> HIDE DEF p
  <2>2. /\ task' \in [Task -> Handler]
        /\ \A u \in Task : task'[u].phase \notin {"idle", "checked"} => task'[u].host \in Host
    BY <1>1, <2>1, PhaseTyped DEF Start
  <2>3. holds' \in [Task -> SUBSET Node] /\ locked' \subseteq Node
    BY <1>0, <1>1 DEF Start, Acquire, TypeInv, TypeOK, Handler, Node
  <2> QED BY <1>1, <2>2, <2>3 DEF Start, TypeInv, TypeOK
<1>2. CASE DeleteRows(t)
  <2>1. /\ task' \in [Task -> Handler]
        /\ \A u \in Task : task'[u].phase \notin {"idle", "checked"} => task'[u].host \in Host
    BY <1>2, PhaseTyped DEF DeleteRows, Phase
  <2>2. holds' \in [Task -> SUBSET Node] /\ locked' \subseteq Node
    BY <1>2 DEF DeleteRows, Remove, TypeInv, TypeOK, Node
  <2>3. /\ state' \in [Node -> DeployState \union {"gone"}]
        /\ affinity' \in [Node -> Host \union {NoHost}]
    BY <1>2 DEF DeleteRows, TypeInv, TypeOK
  <2> QED BY <1>2, <2>1, <2>2, <2>3 DEF DeleteRows, TypeInv, TypeOK
<1>3. CASE Exit(t)
  <2>1. /\ task' \in [Task -> Handler]
        /\ \A u \in Task : task'[u].phase \notin {"idle", "checked"} => task'[u].host \in Host
    BY <1>3, FreedTyped DEF Exit
  <2>2. holds' \in [Task -> SUBSET Node] /\ locked' \subseteq Node
    BY <1>3 DEF Exit, Release, TypeInv, TypeOK, Node
  <2>3. ASSUME NEW n \in Running(t)
        PROVE  [op |-> task[t].op, host |-> task[t].host, node |-> n,
                progress |-> task[t].progress[n]] \in Greenthread
    <3>1. task[t].host \in Host /\ n \in Node
      BY <1>0, <1>3, <2>3 DEF Exit, Running, TypeInv, Handler
    <3>2. task[t].op \in Operations \union {"callback"}
      BY <2>3 DEF Running, Threaded, Operations
    <3>3. task[t].progress[n] \in {"start", "mid"}
      BY <1>0, <2>3, <3>1 DEF Running, Handler, Progress
    <3> QED BY <3>1, <3>2, <3>3 DEF Greenthread
  <2>4. zombies' \subseteq Greenthread
    BY <1>3, <2>3 DEF Exit, TypeInv, TypeOK
  <2> QED BY <1>3, <2>1, <2>2, <2>4 DEF Exit, TypeInv, TypeOK
<1> QED BY <1>1, <1>2, <1>3

\* UpdateDhcp, InsertDhcp and RemoveDhcp: a record names a host or none.
LEMMA DhcpStepTyped ==
  ASSUME TypeInv, NEW t \in Task, UpdateDhcp(t) \/ InsertDhcp(t) \/ RemoveDhcp(t)
  PROVE  TypeInv'
<1> USE DEF lockVars, rowVars, fileVars, apiVars
<1>0. task[t] \in Handler /\ task[t].host \in Host
  BY DEF TypeInv, TypeOK, UpdateDhcp, InsertDhcp, RemoveDhcp
<1>1. dhcp' \in [Node -> Host \union {NoHost}]
  BY <1>0 DEF TypeInv, TypeOK, UpdateDhcp, InsertDhcp, RemoveDhcp
<1>2. CASE UpdateDhcp(t)
  <2> DEFINE known == {n \in Succeeded(t) : dhcp[n] # NoHost}
             r == [task[t] EXCEPT !.phase = "inserting", !.fresh = Succeeded(t) \ known]
  <2>1. task' = [task EXCEPT ![t] = r]
    BY <1>2 DEF UpdateDhcp
  <2>2. Succeeded(t) \ known \in SUBSET Node
    BY <1>0 DEF Succeeded, Handler
  <2> HIDE DEF known
  <2>3. r \in Handler /\ r.host \in Host
    BY <1>0, <2>2 DEF Handler, Phase
  <2> HIDE DEF r
  <2> QED BY <1>1, <1>2, <2>1, <2>3, SlotTyped DEF UpdateDhcp, TypeInv, TypeOK
<1>3. CASE InsertDhcp(t)
  <2> DEFINE r == [task[t] EXCEPT !.phase = "saving", !.fresh = {}]
  <2>1. task' = [task EXCEPT ![t] = r]
    BY <1>3 DEF InsertDhcp
  <2>2. r \in Handler /\ r.host \in Host
    BY <1>0 DEF Handler, Phase
  <2> HIDE DEF r
  <2> QED BY <1>1, <1>3, <2>1, <2>2, SlotTyped DEF InsertDhcp, TypeInv, TypeOK
<1>4. CASE RemoveDhcp(t)
  BY <1>1, <1>4, PhaseTyped DEF RemoveDhcp, TypeInv, TypeOK, Phase
<1> QED BY <1>2, <1>3, <1>4

\* The saves of provision, dhcp, clean and the callback.
LEMMA SaveStepTyped ==
  ASSUME TypeInv, NEW t \in Task,
         SaveProvision(t) \/ SaveDhcp(t) \/ SaveClean(t) \/ SaveCallback(t)
  PROVE  TypeInv'
<1> USE DEF lockVars, rowVars, fileVars, apiVars
<1>0. task[t] \in Handler /\ task[t].host \in Host
  BY DEF TypeInv, TypeOK, SaveProvision, SaveDhcp, SaveClean, SaveCallback
<1>1. /\ task' \in [Task -> Handler]
      /\ \A u \in Task : task'[u].phase \notin {"idle", "checked"} => task'[u].host \in Host
  BY PhaseTyped DEF SaveProvision, SaveDhcp, SaveClean, SaveCallback, Phase
<1>2. state' \in [Node -> DeployState \union {"gone"}]
  BY DEF TypeInv, TypeOK, SaveProvision, SaveDhcp, SaveClean, SaveCallback, DeployState
<1>3. affinity' \in [Node -> Host \union {NoHost}]
  BY <1>0 DEF TypeInv, TypeOK, SaveProvision, SaveDhcp, SaveClean, SaveCallback
<1>4. reported' \subseteq Node /\ casts' = casts
  BY DEF TypeInv, TypeOK, SaveProvision, SaveDhcp, SaveClean, SaveCallback
<1> QED BY <1>1, <1>2, <1>3, <1>4
        DEF SaveProvision, SaveDhcp, SaveClean, SaveCallback, TypeInv, TypeOK

\* Crash: slots become empty, greenthreads disappear.
LEMMA CrashTyped ==
  ASSUME TypeInv, NEW h \in Host, Crash(h)
  PROVE  TypeInv'
<1> USE DEF lockVars, rowVars, fileVars, apiVars
<1>1. /\ task' \in [Task -> Handler]
      /\ \A u \in Task : task'[u].phase \notin {"idle", "checked"} => task'[u].host \in Host
  BY IdleTyped DEF Crash, TypeInv, TypeOK, Idle
<1>2. holds' \in [Task -> SUBSET Node] /\ locked' = locked /\ zombies' \subseteq Greenthread
  BY DEF Crash, Abandon, TypeInv, TypeOK, Node
<1> QED BY <1>1, <1>2 DEF Crash, TypeInv, TypeOK

\* The type invariant is inductive.
LEMMA TypeStep == TypeInv /\ [Next]_vars => TypeInv'
<1> SUFFICES ASSUME TypeInv, [Next]_vars PROVE TypeInv'
  OBVIOUS
<1>1. CASE UNCHANGED vars
  BY <1>1 DEF vars, lockVars, rowVars, fileVars, apiVars, TypeInv, TypeOK
<1>2. ASSUME NEW t \in Task, HandlerStep(t) PROVE TypeInv'
  BY <1>2, SendTyped, SlotStepTyped, LockStepTyped, DhcpStepTyped, SaveStepTyped DEF HandlerStep
<1> QED BY <1>1, <1>2, RequestTyped, CallbackTyped, DeliverTyped, WorkerTyped, ZombieTyped,
           SlotStepTyped, CrashTyped DEF Next, Deliver

\* The type invariant with the hosts of the handlers holds everywhere.
LEMMA TypeInvariant == Spec => []TypeInv
<1>1. Init => TypeInv
  BY IdleTyped DEF Init, LockInit, TypeInv, TypeOK, Idle, DeployState, Node
<1> QED BY <1>1, TypeStep, PTL DEF Spec

(* Every reachable state is well typed: in particular a greenthread that   *)
(* has finished is never among those still running, and a handler that is  *)
(* queued or runs has a conductor host.                                    *)
THEOREM TypeCorrect == Spec => []TypeOK
<1>1. TypeInv => TypeOK
  BY DEF TypeInv
<1> QED BY <1>1, TypeInvariant, PTL

-----------------------------------------------------------------------------
(* A node that is being deployed has a conductor in charge of it, under    *)
(* every fault: whatever clean has saved of a node whose greenthread       *)
(* failed or was too late, the state is reset before the affinity.         *)
THEOREM DeployingIsInCharge == Spec => []DeployingHasConductor
<1>1. Init => DeployingHasConductor
  BY DEF Init, DeployingHasConductor
<1>2. TypeInv /\ DeployingHasConductor /\ [Next]_vars => DeployingHasConductor'
  <2> SUFFICES ASSUME TypeInv, DeployingHasConductor, [Next]_vars,
                      NEW n \in Node, state'[n] = "deploying"
               PROVE  affinity'[n] # NoHost
    BY DEF DeployingHasConductor
  <2> USE DEF TypeInv, TypeOK, DeployingHasConductor
  <2>1. ASSUME NEW t \in Task, SaveProvision(t) PROVE affinity'[n] # NoHost
    <3>1. task[t].host # NoHost
      BY <2>1, DeploymentAssumption DEF SaveProvision, DeploymentAssumption
    <3> QED BY <2>1, <3>1 DEF SaveProvision
  <2>2. ASSUME NEW t \in Task,
               SaveDhcp(t) \/ SaveClean(t) \/ SaveCallback(t) \/ DeleteRows(t)
        PROVE  affinity'[n] # NoHost
    BY <2>2 DEF SaveDhcp, SaveClean, SaveCallback, DeleteRows, Handler
  <2>3. CASE UNCHANGED rowVars
    BY <2>3 DEF rowVars
  <2>4. ASSUME NEW t \in Task, HandlerStep(t) PROVE affinity'[n] # NoHost
    BY <2>1, <2>2, <2>3, <2>4
       DEF HandlerStep, Send, Start, Refuse, WaitWorkers, UpdateDhcp, InsertDhcp, RemoveDhcp, Exit
  <2> QED
    BY <2>3, <2>4 DEF Next, Request, WorkerStep, WorkerFails, PoolFull, DbFails, Callback,
                      Deliver, DeliverCallback, ZombieStep, Crash, vars, rowVars
<1> QED BY <1>1, <1>2, TypeInvariant, PTL DEF Spec

-----------------------------------------------------------------------------
(* The files of a host.  No greenthread outlives its handler, so the lock  *)
(* covers everything a greenthread writes; then the order of its two       *)
(* writes is enough for an install configuration to have its template.     *)
NoOverrun == "timeout" \notin Faults /\ "poolfull" \notin Faults

\* The lock: a handler's nodes are locked, and nobody else's.
LockInv ==
    /\ \A t \in Task : holds[t] \subseteq locked
    /\ \A t, u \in Task : t # u => holds[t] \intersect holds[u] = {}

\* A slot: nothing has run before the lock is there, what runs has the lock,
\* all is over when the handler goes on, and a greenthread between its writes
\* has a template (provision) or no install configuration (clean, callback).
SlotInv(t) ==
    /\ ~Started(t) => \A n \in Node : task[t].progress[n] = "start"
    /\ task[t].phase \in {"recording", "inserting", "saving", "exit"} => Running(t) = {}
    /\ Running(t) \subseteq holds[t]
    /\ \A n \in Running(t) : task[t].progress[n] = "mid" =>
         /\ task[t].op = "provision" => n \in template[task[t].host]
         /\ task[t].op # "provision" => bootconf[task[t].host][n] # "install"

FilesInv ==
    /\ LockInv
    /\ \A t \in Task : SlotInv(t)
    /\ zombies = {}
    /\ InstallHasTemplate

\* A slot that a step does not touch, files included, is as good as before.
LEMMA OtherSlot ==
  ASSUME NEW u \in Task, SlotInv(u), task'[u] = task[u], holds'[u] = holds[u],
         UNCHANGED fileVars
  PROVE  SlotInv(u)'
  BY DEF SlotInv, Running, Started, fileVars

\* A slot where nothing runs needs only to be fresh before it starts.
LEMMA QuietSlot ==
  ASSUME NEW t \in Task, Running(t)' = {},
         ~Started(t)' => \A n \in Node : task'[t].progress[n] = "start"
  PROVE  SlotInv(t)'
  BY DEF SlotInv

\* An empty slot is a quiet one.
LEMMA IdleSlot ==
  ASSUME NEW t \in Task, task'[t] = Idle
  PROVE  SlotInv(t)'
<1>1. ~Started(t)' /\ Running(t)' = {}
  BY DEF Idle, Started, Running
<1> QED BY <1>1, QuietSlot DEF Idle

\* A step of slot t that leaves the files alone.
LEMMA SlotStep ==
  ASSUME TypeInv, FilesInv, NEW t \in Task, SlotInv(t)', LockInv',
         \A u \in Task : u # t => task'[u] = task[u] /\ holds'[u] = holds[u],
         UNCHANGED fileVars, zombies' = {}
  PROVE  FilesInv'
<1>1. \A u \in Task : SlotInv(u)'
  BY OtherSlot DEF FilesInv
<1> QED BY <1>1 DEF FilesInv, InstallHasTemplate, fileVars

\* A handler that runs, or is over, goes on with no greenthread at work.
LEMMA DoneStep ==
  ASSUME TypeInv, FilesInv, NEW t \in Task, NEW p \in {"recording", "inserting", "saving", "exit"},
         Running(t) = {}, Started(t), task'[t].phase = p, task'[t].op = task[t].op,
         task'[t].names = task[t].names, task'[t].dead = task[t].dead,
         task'[t].progress = task[t].progress
  PROVE  SlotInv(t)'
<1>1. Started(t)' /\ Running(t)' = {}
  BY DEF Started, Running
<1> QED BY <1>1, QuietSlot

\* Every step keeps the files and the greenthreads at work on them together.
LEMMA FilesStep == ASSUME NoOverrun PROVE TypeInv /\ FilesInv /\ [Next]_vars => FilesInv'
<1> SUFFICES ASSUME TypeInv, FilesInv, [Next]_vars PROVE FilesInv'
  OBVIOUS
<1> USE DEF lockVars, rowVars, apiVars
<1>0. /\ task \in [Task -> Handler] /\ LockInv /\ zombies = {} /\ \A t \in Task : SlotInv(t)
      /\ holds \in [Task -> SUBSET Node]
  BY DEF TypeInv, TypeOK, FilesInv
<1>1. UNCHANGED lockVars => LockInv'
  BY <1>0 DEF LockInv
<1>2. ASSUME NEW t \in Task, NEW op \in Ops, NEW S \in SUBSET Node, Request(t, op, S)
      PROVE  FilesInv'
  <2>1. ~Started(t)' /\ Running(t)' = {} /\ \A n \in Node : task'[t].progress[n] = "start"
    BY <1>0, <1>2 DEF Request, Started, Running, Idle
  <2>2. SlotInv(t)'
    BY <2>1, QuietSlot
  <2> QED BY <1>0, <1>1, <1>2, <2>2, SlotStep DEF Request
<1>3. ASSUME NEW t \in Task, NEW h \in Host, Send(t, h) PROVE FilesInv'
  <2>1. ~Started(t) /\ task'[t].phase = "queued" /\ task'[t].progress = task[t].progress
    BY <1>0, <1>3 DEF Send, Started, Handler
  <2>2. ~Started(t)' /\ Running(t)' = {}
    BY <2>1 DEF Started, Running
  <2>3. SlotInv(t)'
    BY <1>0, <2>1, <2>2, QuietSlot DEF SlotInv
  <2> QED BY <1>0, <1>1, <1>3, <2>3, SlotStep DEF Send
<1>4. ASSUME NEW t \in Task, NEW n \in Node, NEW h \in Host, DeliverCallback(t, n, h)
      PROVE  FilesInv'
  <2>1. ~Started(t)' /\ Running(t)' = {} /\ \A m \in Node : task'[t].progress[m] = "start"
    BY <1>0, <1>4 DEF DeliverCallback, Started, Running, Idle
  <2>2. SlotInv(t)'
    BY <2>1, QuietSlot
  <2> QED BY <1>0, <1>1, <1>4, <2>2, SlotStep DEF DeliverCallback
<1>5. ASSUME NEW t \in Task, Start(t) PROVE FilesInv'
  <2>1. LockInv'
    BY <1>0, <1>5 DEF Start, Acquire, LockInv
  <2>2. ~Started(t) /\ holds'[t] = task[t].names
    BY <1>0, <1>5 DEF Start, Acquire, Started
  <2>3. /\ task'[t].op = task[t].op /\ task'[t].names = task[t].names
        /\ task'[t].progress = task[t].progress
        /\ task'[t].phase \in {"running", "recording", "exit"}
        /\ task'[t].phase # "running" => task[t].op = "destroy"
    BY <1>0, <1>5 DEF Start, Handler
  <2>4. \A n \in Node : task'[t].progress[n] = "start"
    BY <1>0, <2>2, <2>3 DEF SlotInv
  <2>5. Running(t)' \subseteq task[t].names /\ (task[t].op = "destroy" => Running(t)' = {})
    BY <2>3 DEF Running, Threaded
  <2>6. task[t].names \subseteq Node
    BY <1>0 DEF Handler
  <2>7. SlotInv(t)'
    BY <2>2, <2>3, <2>4, <2>5, <2>6 DEF SlotInv
  <2> QED BY <1>0, <1>5, <2>1, <2>7, SlotStep DEF Start, Acquire
<1>6. ASSUME NEW t \in Task, Refuse(t) PROVE FilesInv'
  <2>1. SlotInv(t)'
    BY <1>0, <1>6, IdleSlot DEF Refuse
  <2> QED BY <1>0, <1>1, <1>6, <2>1, SlotStep DEF Refuse
<1>7. ASSUME NEW t \in Task, WaitWorkers(t) PROVE FilesInv'
  <2>1. Running(t) = {} /\ Started(t)
    BY <1>7, NoOverrun DEF WaitWorkers, NoOverrun, Started
  <2>2. AfterWait(t) \in {"recording", "inserting", "saving", "exit"}
    BY DEF AfterWait
  <2>3. SlotInv(t)'
    BY <1>0, <1>7, <2>1, <2>2, DoneStep DEF WaitWorkers, Handler
  <2> QED BY <1>0, <1>1, <1>7, <2>3, SlotStep DEF WaitWorkers
<1>8. ASSUME NEW t \in Task,
             \/ UpdateDhcp(t) \/ InsertDhcp(t) \/ RemoveDhcp(t) \/ DbFails(t)
             \/ SaveProvision(t) \/ SaveDhcp(t) \/ SaveClean(t) \/ SaveCallback(t)
      PROVE  FilesInv'
  <2> USE DEF UpdateDhcp, InsertDhcp, RemoveDhcp, DbFails, SaveProvision, SaveDhcp, SaveClean,
              SaveCallback
  <2>1. Running(t) = {} /\ Started(t)
    BY <1>0, <1>8 DEF SlotInv, Started
  <2>2. task'[t].phase \in {"recording", "inserting", "saving", "exit"}
    BY <1>0, <1>8 DEF Handler
  <2>3. /\ task'[t].op = task[t].op /\ task'[t].names = task[t].names
        /\ task'[t].dead = task[t].dead /\ task'[t].progress = task[t].progress
    BY <1>0, <1>8 DEF Handler
  <2>4. SlotInv(t)'
    BY <2>1, <2>2, <2>3, DoneStep
  <2>5. /\ \A u \in Task : u # t => task'[u] = task[u] /\ holds'[u] = holds[u]
        /\ UNCHANGED <<lockVars, fileVars, zombies>>
    BY <1>0, <1>8
  <2> QED BY <1>0, <1>1, <2>4, <2>5, SlotStep
<1>9. ASSUME NEW t \in Task, DeleteRows(t) PROVE FilesInv'
  <2>1. Running(t) = {} /\ Started(t)
    BY <1>0, <1>9 DEF DeleteRows, SlotInv, Started
  <2>2. SlotInv(t)'
    BY <1>0, <1>9, <2>1, DoneStep DEF DeleteRows, Handler
  <2>3. LockInv'
    BY <1>0, <1>9 DEF DeleteRows, Remove, LockInv
  <2> QED BY <1>0, <1>9, <2>2, <2>3, SlotStep DEF DeleteRows, Remove
<1>10. ASSUME NEW t \in Task, Exit(t) PROVE FilesInv'
  <2>1. Running(t) = {} /\ SlotInv(t)'
    BY <1>0, <1>10, IdleSlot DEF Exit, SlotInv
  <2>2. LockInv'
    BY <1>0, <1>10 DEF Exit, Release, LockInv
  <2>3. zombies' = {}
    BY <1>0, <1>10, <2>1 DEF Exit
  <2> QED BY <1>0, <1>10, <2>1, <2>2, <2>3, SlotStep DEF Exit, Release
<1>11. ASSUME NEW h \in Host, Crash(h) PROVE FilesInv'
  <2>1. ASSUME NEW t \in Task PROVE SlotInv(t)'
    <3>1. CASE task[t].host = h
      BY <1>0, <1>11, <3>1, IdleSlot DEF Crash
    <3>2. CASE task[t].host # h
      BY <1>0, <1>11, <3>2, OtherSlot DEF Crash, Abandon
    <3> QED BY <3>1, <3>2
  <2>2. LockInv'
    BY <1>0, <1>11 DEF Crash, Abandon, LockInv
  <2> QED BY <1>0, <1>11, <2>1, <2>2 DEF Crash, FilesInv, InstallHasTemplate, fileVars
<1>12. ASSUME NEW t \in Task, NEW n \in Node, WorkerFails(t, n) PROVE FilesInv'
  <2>1. /\ task'[t].op = task[t].op /\ task'[t].names = task[t].names
        /\ task'[t].host = task[t].host /\ task'[t].phase = task[t].phase
        /\ task'[t].progress = task[t].progress /\ task[t].dead \subseteq task'[t].dead
    BY <1>0, <1>12 DEF WorkerFails, Handler
  <2>2. Running(t)' \subseteq Running(t) /\ Started(t)' = Started(t)
    BY <2>1 DEF Running, Started
  <2>3. SlotInv(t)'
    BY <1>0, <1>12, <2>1, <2>2 DEF WorkerFails, SlotInv, fileVars
  <2> QED BY <1>0, <1>1, <1>12, <2>3, SlotStep DEF WorkerFails
<1>13. ASSUME NEW t \in Task, NEW n \in Node, WorkerStep(t, n) PROVE FilesInv'
  <2> DEFINE k == task[t]
  <2>1. /\ n \in Running(t) /\ k \in Handler /\ Started(t) /\ n \in holds[t] /\ n \in Node
        /\ k.host \in Host /\ k.op \in Threaded
    BY <1>0, <1>13 DEF WorkerStep, Running, Started, SlotInv, TypeInv, Handler
  <2>2. /\ task'[t].op = k.op /\ task'[t].names = k.names /\ task'[t].host = k.host
        /\ task'[t].phase = k.phase /\ task'[t].dead = k.dead
        /\ task'[t].progress = [k.progress EXCEPT ![n] = Advance(k.op, @)]
    BY <1>0, <1>13 DEF WorkerStep, Handler
  <2>3. \A h \in Host, m \in Node :
          (h # k.host \/ m # n) => /\ bootconf'[h][m] = bootconf[h][m]
                                   /\ m \in template'[h] <=> m \in template[h]
    BY <1>13 DEF WorkerStep, WriteFiles, TypeInv, TypeOK
  <2>4. /\ k.op = "provision" /\ k.progress[n] = "start" => n \in template'[k.host]
        /\ k.op = "provision" => template[k.host] \subseteq template'[k.host]
        /\ k.op # "provision" /\ k.progress[n] = "start" /\ k.op \in {"clean", "callback"}
             => bootconf'[k.host][n] # "install"
        /\ bootconf'[k.host][n] = "install" => n \in template'[k.host]
    <3>1. /\ k.progress[n] \in {"start", "mid"}
          /\ k.progress[n] = "mid" => /\ k.op = "provision" => n \in template[k.host]
                                      /\ k.op # "provision" => bootconf[k.host][n] # "install"
      BY <1>0, <2>1 DEF Running, Handler, Progress, SlotInv
    <3>2. bootconf[k.host][n] = "install" => n \in template[k.host]
      BY <2>1 DEF FilesInv, InstallHasTemplate
    <3>3. /\ template'[k.host] =
               CASE k.op = "provision" /\ k.progress[n] = "start" -> template[k.host] \union {n}
                 [] k.op \in {"clean", "callback"} /\ k.progress[n] = "mid" ->
                      template[k.host] \ {n}
                 [] OTHER -> template[k.host]
          /\ bootconf'[k.host][n] =
               CASE k.op = "provision" /\ k.progress[n] = "mid"  -> "install"
                 [] k.op = "clean" /\ k.progress[n] = "start"    -> "none"
                 [] k.op = "callback" /\ k.progress[n] = "start" -> "disk"
                 [] OTHER -> bootconf[k.host][n]
      BY <1>13, <2>1 DEF WorkerStep, WriteFiles, TypeInv, TypeOK
    <3> HIDE DEF k
    <3> QED BY <3>1, <3>2, <3>3
  <2>5. ASSUME NEW u \in Task, u # t PROVE SlotInv(u)'
    <3>1. task'[u] = task[u] /\ holds'[u] = holds[u] /\ n \notin Running(u)
      BY <1>0, <1>13, <2>1, <2>5 DEF WorkerStep, LockInv, SlotInv
    <3>2. Running(u)' = Running(u) /\ Started(u)' = Started(u)
      BY <3>1 DEF Running, Started
    <3>3. \A m \in Running(u) : m \in Node /\ m # n /\ task[u].host \in Host
      BY <1>0, <3>1 DEF Running, Started, Handler, TypeInv
    <3> QED BY <1>0, <2>3, <3>1, <3>2, <3>3 DEF SlotInv
  <2>6. SlotInv(t)'
    <3>1. Started(t)' /\ Running(t)' \subseteq Running(t) /\ k.phase = "running"
      BY <1>0, <2>1, <2>2 DEF Running, Started, SlotInv
    <3>2. ASSUME NEW m \in Running(t)', task'[t].progress[m] = "mid"
          PROVE  /\ k.op = "provision" => m \in template'[k.host]
                 /\ k.op # "provision" => bootconf'[k.host][m] # "install"
      <4>1. CASE m = n
        <5>1. k.progress[n] = "start" /\ k.op \in {"provision", "clean", "callback"}
          BY <2>1, <2>2, <3>2, <4>1 DEF Advance, Handler
        <5> QED BY <2>4, <4>1, <5>1
      <4>2. CASE m # n
        <5>1. m \in Node /\ m \in Running(t) /\ k.progress[m] = "mid"
          BY <2>1, <2>2, <3>1, <3>2, <4>2 DEF Running, Handler
        <5> QED BY <1>0, <2>1, <2>3, <4>2, <5>1 DEF SlotInv
      <4> QED BY <4>1, <4>2
    <3>3. holds' = holds
      BY <1>13 DEF WorkerStep
    <3> QED BY <1>0, <2>2, <3>1, <3>2, <3>3 DEF SlotInv
  <2>7. InstallHasTemplate'
    BY <2>1, <2>3, <2>4 DEF FilesInv, InstallHasTemplate
  <2> QED BY <1>0, <1>1, <1>13, <2>5, <2>6, <2>7 DEF WorkerStep, FilesInv
<1>14. ASSUME UNCHANGED <<lockVars, task, zombies, fileVars>> PROVE FilesInv'
  BY <1>0, <1>1, <1>14, OtherSlot DEF FilesInv, InstallHasTemplate, fileVars
<1>15. ASSUME NEW t \in Task, HandlerStep(t) PROVE FilesInv'
  BY <1>3, <1>5, <1>6, <1>7, <1>8, <1>9, <1>10, <1>15 DEF HandlerStep
<1>16. ASSUME NEW t \in Task PROVE ~PoolFull(t)
  BY NoOverrun DEF PoolFull, NoOverrun
<1>17. ASSUME NEW n \in Node, Callback(n) PROVE FilesInv'
  BY <1>14, <1>17 DEF Callback
<1>18. CASE UNCHANGED vars
  BY <1>14, <1>18 DEF vars, fileVars
<1> QED BY <1>0, <1>2, <1>4, <1>8, <1>11, <1>12, <1>13, <1>15, <1>16, <1>17, <1>18
        DEF Next, Deliver

(* As long as the waits of the handlers end because the greenthreads do,   *)
(* an install configuration always finds its template: greenthreads that   *)
(* fail, transactions that fail and conductors that die do not break it.   *)
THEOREM InstallFindsTemplate == ASSUME NoOverrun PROVE Spec => []InstallHasTemplate
<1>1. Init => FilesInv
  <2> SUFFICES ASSUME Init PROVE FilesInv
    OBVIOUS
  <2>1. \A t \in Task : Running(t) = {} /\ SlotInv(t)
    BY DEF Init, Idle, Running, Started, SlotInv
  <2> QED BY <2>1 DEF Init, LockInit, LockInv, FilesInv, InstallHasTemplate
<1>2. TypeInv /\ FilesInv /\ [Next]_vars => FilesInv'
  BY FilesStep
<1>3. FilesInv => InstallHasTemplate
  BY DEF FilesInv
<1> QED BY <1>1, <1>2, <1>3, TypeInvariant, PTL DEF Spec

-----------------------------------------------------------------------------
(* What a handler has done.  Its greenthreads write, and its transactions   *)
(* save, in the order of the code and under the lock, so that at each phase *)
(* the files of its nodes are known.                                        *)

\* A callback cannot fail half way: pxe has one write, after which nothing raises.
CallbackIsWhole == Boot = "pxe" \/ "workerfail" \notin Faults

\* What the progress of a greenthread says of the files of its node.
Written(t, n) ==
    LET k == task[t]
        done == k.progress[n] = "done"
        begun == k.progress[n] # "start"
    IN  /\ k.op = "provision" /\ done => bootconf[k.host][n] = "install" /\ n \notin k.dead
        /\ k.op \in {"clean", "callback"} /\ begun => bootconf[k.host][n] # "install"
        /\ k.op = "clean" /\ done => n \notin template[k.host]
        /\ k.op = "callback" /\ begun /\ CallbackIsWhole => n \notin k.dead

\* A handler that has started has its nodes locked; it has failed for no others,
\* it waits for all, and a callback is about one node.
Work(t) ==
    LET k == task[t]
    IN  /\ k.late = {} /\ k.dead \subseteq k.names
        /\ ~ Started(t) => holds[t] = {} /\ k.dead = {}
        /\ holds[t] \subseteq k.names
        /\ Started(t) /\ k.op # "destroy" => holds[t] = k.names
        /\ k.op = "callback" => \E n \in Node : k.names = {n}
        /\ \A n \in k.names : Written(t, n)

WorkInv == \A t \in Task : Work(t)

\* The invariant that all that follows rests on.
BaseInv == TypeInv /\ FilesInv /\ WorkInv

\* A slot that a step does not touch, files included, is as good as before.
LEMMA OtherWork ==
  ASSUME NEW u \in Task, Work(u), task'[u] = task[u], holds'[u] = holds[u], UNCHANGED fileVars
  PROVE  Work(u)'
  BY DEF Work, Written, Started, fileVars

\* A step of slot t that leaves the files alone.
LEMMA OneWorks ==
  ASSUME WorkInv, NEW t \in Task, Work(t)',
         \A u \in Task : u # t => task'[u] = task[u] /\ holds'[u] = holds[u],
         UNCHANGED fileVars
  PROVE  WorkInv'
  BY OtherWork DEF WorkInv

\* An empty slot.
LEMMA IdleWork ==
  ASSUME NEW t \in Task, task'[t] = Idle, holds'[t] = {}
  PROVE  Work(t)'
<1>1. ~ Started(t)'
  BY DEF Idle, Started
<1> QED BY <1>1 DEF Work, Idle

\* A handler that goes on to another phase.
LEMMA GoesOn ==
  ASSUME NEW t \in Task, Work(t), Started(t), Started(t)', UNCHANGED fileVars,
         holds'[t] = holds[t], task'[t].op = task[t].op, task'[t].host = task[t].host,
         task'[t].names = task[t].names, task'[t].dead = task[t].dead,
         task'[t].progress = task[t].progress, task'[t].late = {}
  PROVE  Work(t)'
  BY DEF Work, Written, fileVars

\* Before a handler has started, nothing is written and nothing has failed.
LEMMA FreshWork ==
  ASSUME NEW t \in Task, task'[t].late = {}, task'[t].dead = {}, holds'[t] \subseteq task'[t].names,
         \A n \in task'[t].names : task'[t].progress[n] = "start",
         task'[t].op = "callback" => \E n \in Node : task'[t].names = {n},
         ~ Started(t)' => holds'[t] = {},
         Started(t)' /\ task'[t].op # "destroy" => holds'[t] = task'[t].names
  PROVE  Work(t)'
<1>1. \A n \in task'[t].names : Written(t, n)'
  BY DEF Written
<1> QED BY <1>1 DEF Work

\* What a step of a greenthread changes: its own progress, and the files of its
\* node on its host.
LEMMA WorkerChanges ==
  ASSUME TypeInv, FilesInv, NEW t \in Task, NEW n \in Node, WorkerStep(t, n)
  PROVE  LET k == task[t]
         IN  /\ n \in Running(t) /\ n \in holds[t] /\ n \in k.names /\ n \notin k.dead
             /\ k.host \in Host /\ k.phase = "running" /\ k.op \in Threaded
             /\ k.progress[n] \in {"start", "mid"}
             /\ task'[t].op = k.op /\ task'[t].names = k.names /\ task'[t].host = k.host
             /\ task'[t].phase = k.phase /\ task'[t].dead = k.dead /\ task'[t].late = k.late
             /\ task'[t].fresh = k.fresh
             /\ task'[t].progress[n] = Advance(k.op, k.progress[n])
             /\ \A m \in Node : m # n => task'[t].progress[m] = k.progress[m]
             /\ \A u \in Task : u # t => task'[u] = task[u]
             /\ \A h \in Host, m \in Node : h # k.host \/ m # n =>
                    /\ bootconf'[h][m] = bootconf[h][m]
                    /\ m \in template'[h] <=> m \in template[h]
             /\ bootconf'[k.host][n] =
                    CASE k.op = "provision" /\ k.progress[n] = "mid"  -> "install"
                      [] k.op = "clean" /\ k.progress[n] = "start"    -> "none"
                      [] k.op = "callback" /\ k.progress[n] = "start" -> "disk"
                      [] OTHER -> bootconf[k.host][n]
             /\ n \in template'[k.host] <=>
                    CASE k.op = "provision" /\ k.progress[n] = "start" -> TRUE
                      [] k.op \in {"clean", "callback"} /\ k.progress[n] = "mid" -> FALSE
                      [] OTHER -> n \in template[k.host]
<1> DEFINE k == task[t]
<1>0. task \in [Task -> Handler] /\ SlotInv(t)
  BY DEF TypeInv, TypeOK, FilesInv
<1>1. /\ n \in Running(t) /\ k \in Handler /\ Started(t) /\ n \in holds[t]
      /\ k.host \in Host /\ k.op \in Threaded /\ n \in k.names /\ n \notin k.dead
  BY <1>0 DEF WorkerStep, Running, Started, SlotInv, TypeInv, Handler
<1>2. k.phase = "running" /\ k.progress[n] \in {"start", "mid"}
  BY <1>0, <1>1 DEF SlotInv, Started, Running, Handler, Progress
<1>3. /\ task'[t].op = k.op /\ task'[t].names = k.names /\ task'[t].host = k.host
      /\ task'[t].phase = k.phase /\ task'[t].dead = k.dead /\ task'[t].late = k.late
      /\ task'[t].fresh = k.fresh
      /\ task'[t].progress = [k.progress EXCEPT ![n] = Advance(k.op, @)]
      /\ \A u \in Task : u # t => task'[u] = task[u]
  BY <1>0 DEF WorkerStep, Handler
<1>4. k.progress \in [Node -> Progress]
  BY <1>1 DEF Handler
<1>5. /\ task'[t].progress[n] = Advance(k.op, k.progress[n])
      /\ \A m \in Node : m # n => task'[t].progress[m] = k.progress[m]
  BY <1>3, <1>4
<1>6. \A h \in Host, m \in Node : h # k.host \/ m # n =>
          /\ bootconf'[h][m] = bootconf[h][m]
          /\ m \in template'[h] <=> m \in template[h]
  BY DEF WorkerStep, WriteFiles, TypeInv, TypeOK
<1>7. /\ template'[k.host] =
             CASE k.op = "provision" /\ k.progress[n] = "start" -> template[k.host] \union {n}
               [] k.op \in {"clean", "callback"} /\ k.progress[n] = "mid" -> template[k.host] \ {n}
               [] OTHER -> template[k.host]
      /\ bootconf'[k.host][n] =
             CASE k.op = "provision" /\ k.progress[n] = "mid"  -> "install"
               [] k.op = "clean" /\ k.progress[n] = "start"    -> "none"
               [] k.op = "callback" /\ k.progress[n] = "start" -> "disk"
               [] OTHER -> bootconf[k.host][n]
  BY <1>1 DEF WorkerStep, WriteFiles, TypeInv, TypeOK
<1> HIDE DEF k
<1>8. n \in template'[k.host] <=>
          CASE k.op = "provision" /\ k.progress[n] = "start" -> TRUE
            [] k.op \in {"clean", "callback"} /\ k.progress[n] = "mid" -> FALSE
            [] OTHER -> n \in template[k.host]
  BY <1>7
<1> QED BY <1>1, <1>2, <1>3, <1>5, <1>6, <1>7, <1>8 DEF k

\* A step of a greenthread: what it has written is what its progress says.
LEMMA WorkerWorks ==
  ASSUME BaseInv, NEW t \in Task, NEW n \in Node, WorkerStep(t, n)
  PROVE  WorkInv'
<1> DEFINE k == task[t]
<1>0. TypeInv /\ FilesInv /\ WorkInv /\ holds' = holds /\ task \in [Task -> Handler]
  BY DEF BaseInv, WorkerStep, lockVars, TypeInv, TypeOK
<1>1. /\ n \in Running(t) /\ n \in holds[t] /\ n \in k.names /\ n \notin k.dead
      /\ k.host \in Host /\ k.phase = "running" /\ k.op \in Threaded
      /\ k.progress[n] \in {"start", "mid"}
      /\ task'[t].op = k.op /\ task'[t].names = k.names /\ task'[t].host = k.host
      /\ task'[t].phase = k.phase /\ task'[t].dead = k.dead /\ task'[t].late = k.late
      /\ task'[t].progress[n] = Advance(k.op, k.progress[n])
      /\ \A m \in Node : m # n => task'[t].progress[m] = k.progress[m]
      /\ \A u \in Task : u # t => task'[u] = task[u]
  BY <1>0, WorkerChanges
<1>2. \A h \in Host, m \in Node : h # k.host \/ m # n =>
          /\ bootconf'[h][m] = bootconf[h][m]
          /\ m \in template'[h] <=> m \in template[h]
  BY <1>0, WorkerChanges
<1>3. bootconf'[k.host][n] =
          CASE k.op = "provision" /\ k.progress[n] = "mid"  -> "install"
            [] k.op = "clean" /\ k.progress[n] = "start"    -> "none"
            [] k.op = "callback" /\ k.progress[n] = "start" -> "disk"
            [] OTHER -> bootconf[k.host][n]
  BY <1>0, WorkerChanges
<1>4. n \in template'[k.host] <=>
          CASE k.op = "provision" /\ k.progress[n] = "start" -> TRUE
            [] k.op \in {"clean", "callback"} /\ k.progress[n] = "mid" -> FALSE
            [] OTHER -> n \in template[k.host]
  BY <1>0, WorkerChanges
<1>5. /\ k.op \in {"provision", "clean", "callback"} /\ k.progress[n] = "start" =>
             task'[t].progress[n] = "mid"
      /\ k.progress[n] = "mid" => task'[t].progress[n] = "done"
      /\ task'[t].progress[n] # "start"
  BY <1>1 DEF Advance
<1>6. Work(t) /\ k.names \subseteq Node
  BY <1>0 DEF WorkInv, Handler
<1>7. Written(t, n)'
  <2>1. k.op = "callback" /\ k.progress[n] = "mid" => bootconf[k.host][n] # "install"
    BY <1>1, <1>6 DEF Work, Written
  <2>2. k.op = "clean" /\ k.progress[n] = "mid" => bootconf[k.host][n] # "install"
    BY <1>1, <1>6 DEF Work, Written
  <2>3. CASE k.op = "provision"
    BY <1>1, <1>3, <1>5, <2>3 DEF Written
  <2>4. CASE k.op = "clean"
    BY <1>1, <1>3, <1>4, <1>5, <2>2, <2>4 DEF Written
  <2>5. CASE k.op = "callback"
    BY <1>1, <1>3, <1>5, <2>1, <2>5 DEF Written
  <2>6. CASE k.op \notin {"provision", "clean", "callback"}
    BY <1>1, <2>6 DEF Written
  <2> QED BY <2>3, <2>4, <2>5, <2>6
<1>8. ASSUME NEW m \in k.names, m # n PROVE Written(t, m)'
  BY <1>1, <1>2, <1>6, <1>8 DEF Work, Written
<1>9. Work(t)'
  <2>1. \A m \in task'[t].names : Written(t, m)'
    BY <1>1, <1>7, <1>8
  <2>2. Started(t)' <=> Started(t)
    BY <1>1 DEF Started
  <2> QED BY <1>0, <1>1, <1>6, <2>1, <2>2 DEF Work
<1>10. ASSUME NEW u \in Task, u # t PROVE Work(u)'
  <2>1. Work(u) /\ SlotInv(u) /\ task'[u] = task[u] /\ task[u] \in Handler
    BY <1>0, <1>1, <1>10 DEF WorkInv, FilesInv
  <2>2. n \notin holds[u]
    BY <1>0, <1>1, <1>10 DEF FilesInv, LockInv
  <2>3. ASSUME NEW m \in task[u].names PROVE Written(u, m)'
    <3>1. m \in Node /\ Written(u, m)
      BY <2>1, <2>3 DEF Handler, Work
    <3>2. CASE ~ Started(u)
      <4>1. task[u].progress[m] = "start"
        BY <2>1, <3>1, <3>2 DEF SlotInv
      <4> QED BY <2>1, <4>1 DEF Written
    <3>3. CASE Started(u) /\ task[u].op = "destroy"
      BY <2>1, <3>3 DEF Written
    <3>4. CASE Started(u) /\ task[u].op # "destroy"
      <4>1. m # n /\ task[u].host \in Host
        BY <1>0, <2>1, <2>2, <2>3, <3>4 DEF Work, TypeInv, Started
      <4> QED BY <1>2, <2>1, <3>1, <4>1 DEF Written
    <3> QED BY <3>2, <3>3, <3>4
  <2>4. Started(u)' <=> Started(u)
    BY <2>1 DEF Started
  <2> QED BY <1>0, <2>1, <2>3, <2>4 DEF Work
<1> QED BY <1>9, <1>10 DEF WorkInv

\* A greenthread that raises has not finished, and in a callback that is whole
\* it has not begun.
LEMMA FailedWorks ==
  ASSUME BaseInv, NEW t \in Task, NEW n \in Node, WorkerFails(t, n)
  PROVE  WorkInv'
<1> DEFINE k == task[t]
<1>0. TypeInv /\ FilesInv /\ WorkInv /\ UNCHANGED <<lockVars, fileVars>> /\ task \in [Task -> Handler]
  BY DEF BaseInv, WorkerFails, TypeInv, TypeOK
<1>1. /\ n \in Running(t) /\ n \in k.names /\ k.op \in Threaded /\ k.progress[n] # "done" /\ Started(t)
      /\ task'[t].op = k.op /\ task'[t].names = k.names /\ task'[t].host = k.host
      /\ task'[t].phase = k.phase /\ task'[t].dead = k.dead \union {n} /\ task'[t].late = k.late
      /\ task'[t].progress = k.progress
      /\ \A u \in Task : u # t => task'[u] = task[u]
  BY <1>0 DEF WorkerFails, Running, Handler
<1>2. k.op = "callback" /\ CallbackIsWhole => k.progress[n] = "start"
  BY DEF WorkerFails, CanFail, CanWrite, CallbackIsWhole
<1>3. Work(t)
  BY <1>0 DEF WorkInv
<1>4. \A m \in k.names : Written(t, m)'
  <2> SUFFICES ASSUME NEW m \in k.names PROVE Written(t, m)'
    OBVIOUS
  <2>1. Written(t, m)
    BY <1>3 DEF Work
  <2> QED BY <1>0, <1>1, <1>2, <2>1 DEF Written, fileVars
<1>5. Started(t)' <=> Started(t)
  BY <1>1 DEF Started
<1>6. Work(t)'
  BY <1>0, <1>1, <1>3, <1>4, <1>5 DEF Work, lockVars
<1> QED BY <1>0, <1>1, <1>6, OneWorks DEF lockVars

\* The greenthreads of a handler have all ended when it goes on.
LEMMA WaitedWorks ==
  ASSUME NoOverrun, BaseInv, NEW t \in Task, WaitWorkers(t)
  PROVE  WorkInv'
<1>0. WorkInv /\ task \in [Task -> Handler] /\ UNCHANGED <<lockVars, fileVars>>
  BY DEF BaseInv, WaitWorkers, TypeInv, TypeOK
<1>1. Running(t) = {} /\ Started(t) /\ Work(t)
  BY <1>0 DEF WaitWorkers, NoOverrun, Started, WorkInv
<1>2. AfterWait(t) \in {"recording", "saving", "exit"}
  BY DEF AfterWait
<1>3. /\ task'[t].op = task[t].op /\ task'[t].host = task[t].host /\ task'[t].names = task[t].names
      /\ task'[t].dead = task[t].dead /\ task'[t].progress = task[t].progress /\ task'[t].late = {}
      /\ task'[t].phase = AfterWait(t) /\ \A u \in Task : u # t => task'[u] = task[u]
  BY <1>0, <1>1 DEF WaitWorkers, Handler
<1>4. Started(t)'
  BY <1>2, <1>3 DEF Started
<1> QED BY <1>0, <1>1, <1>3, <1>4, GoesOn, OneWorks DEF lockVars

\* The transactions of a handler.
LEMMA SaverWorks ==
  ASSUME BaseInv, NEW t \in Task,
         \/ UpdateDhcp(t) \/ InsertDhcp(t) \/ RemoveDhcp(t) \/ DbFails(t)
         \/ SaveProvision(t) \/ SaveDhcp(t) \/ SaveClean(t) \/ SaveCallback(t)
  PROVE  WorkInv'
<1> USE DEF UpdateDhcp, InsertDhcp, RemoveDhcp, DbFails, SaveProvision, SaveDhcp, SaveClean, SaveCallback
<1>0. WorkInv /\ task \in [Task -> Handler] /\ UNCHANGED <<lockVars, fileVars>>
  BY DEF BaseInv, TypeInv, TypeOK
<1>1. Started(t) /\ Work(t)
  BY <1>0 DEF Started, WorkInv
<1>2. /\ task'[t].op = task[t].op /\ task'[t].host = task[t].host /\ task'[t].names = task[t].names
      /\ task'[t].dead = task[t].dead /\ task'[t].progress = task[t].progress
      /\ task'[t].late = task[t].late /\ task'[t].phase \in {"inserting", "saving", "exit"}
      /\ \A u \in Task : u # t => task'[u] = task[u]
  BY <1>0 DEF Handler
<1>3. Started(t)' /\ task'[t].late = {}
  BY <1>1, <1>2 DEF Started, Work
<1> QED BY <1>0, <1>1, <1>2, <1>3, GoesOn, OneWorks DEF lockVars

\* The steps that take the lock or give it back.
LEMMA LockerWorks ==
  ASSUME BaseInv, NEW t \in Task, Start(t) \/ DeleteRows(t) \/ Exit(t)
  PROVE  WorkInv'
<1>0. WorkInv /\ task \in [Task -> Handler] /\ holds \in [Task -> SUBSET Node] /\ UNCHANGED fileVars
      /\ SlotInv(t) /\ Work(t)
  BY DEF BaseInv, TypeInv, TypeOK, Start, DeleteRows, Exit, FilesInv, WorkInv
<1>1. CASE Start(t)
  <2>1. /\ task'[t].op = task[t].op /\ task'[t].names = task[t].names /\ task'[t].dead = task[t].dead
        /\ task'[t].late = task[t].late /\ task'[t].progress = task[t].progress
        /\ task'[t].phase \in {"running", "recording", "exit"}
        /\ \A u \in Task : u # t => task'[u] = task[u] /\ holds'[u] = holds[u]
        /\ holds'[t] = task[t].names /\ task[t].phase = "queued"
    BY <1>0, <1>1 DEF Start, Acquire, Handler
  <2>2. ~ Started(t) /\ Started(t)'
    BY <2>1 DEF Started
  <2>3. task'[t].late = {} /\ task'[t].dead = {} /\ task[t].names \subseteq Node
    BY <1>0, <2>1, <2>2 DEF Work, Handler
  <2>4. \A n \in task'[t].names : task'[t].progress[n] = "start"
    BY <1>0, <2>1, <2>2, <2>3 DEF SlotInv
  <2>5. task'[t].op = "callback" => \E n \in Node : task'[t].names = {n}
    BY <1>0, <2>1 DEF Work
  <2>6. Work(t)'
    BY <2>1, <2>2, <2>3, <2>4, <2>5, FreshWork
  <2> QED BY <1>0, <2>1, <2>6, OneWorks
<1>2. CASE DeleteRows(t)
  <2>1. /\ task'[t].op = task[t].op /\ task'[t].names = task[t].names /\ task'[t].dead = task[t].dead
        /\ task'[t].late = task[t].late /\ task'[t].progress = task[t].progress
        /\ task'[t].phase = "exit" /\ task[t].op = "destroy"
        /\ \A u \in Task : u # t => task'[u] = task[u] /\ holds'[u] = holds[u]
        /\ holds'[t] \subseteq holds[t]
    BY <1>0, <1>2 DEF DeleteRows, Remove, Handler
  <2>2. Started(t)' /\ \A n \in task'[t].names : Written(t, n)'
    BY <2>1 DEF Started, Written
  <2>3. Work(t)'
    BY <1>0, <2>1, <2>2 DEF Work
  <2> QED BY <1>0, <2>1, <2>3, OneWorks
<1>3. CASE Exit(t)
  <2>1. task'[t] = Idle /\ holds'[t] = {}
        /\ \A u \in Task : u # t => task'[u] = task[u] /\ holds'[u] = holds[u]
    BY <1>0, <1>3 DEF Exit, Release
  <2> QED BY <1>0, <2>1, IdleWork, OneWorks
<1> QED BY <1>1, <1>2, <1>3

\* Requests and messages that come, and conductors that go down.
LEMMA OutsideWorks ==
  ASSUME BaseInv
  PROVE  /\ \A t \in Task, op \in Ops, S \in SUBSET Node : Request(t, op, S) => WorkInv'
         /\ \A t \in Task, h \in Host : Send(t, h) => WorkInv'
         /\ \A t \in Task, n \in Node, h \in Host : DeliverCallback(t, n, h) => WorkInv'
         /\ \A t \in Task : Refuse(t) => WorkInv'
         /\ \A h \in Host : Crash(h) => WorkInv'
<1>0. /\ WorkInv /\ task \in [Task -> Handler] /\ holds \in [Task -> SUBSET Node]
      /\ \A t \in Task : SlotInv(t) /\ Work(t)
  BY DEF BaseInv, TypeInv, TypeOK, FilesInv, WorkInv
<1>1. ASSUME NEW t \in Task, NEW op \in Ops, NEW S \in SUBSET Node, Request(t, op, S) PROVE WorkInv'
  <2>1. /\ task'[t].op = op /\ task'[t].late = {} /\ task'[t].dead = {} /\ task'[t].phase = "checked"
        /\ \A n \in Node : task'[t].progress[n] = "start"
        /\ task'[t].names = S /\ op # "callback"
        /\ \A u \in Task : u # t => task'[u] = task[u]
        /\ UNCHANGED <<lockVars, fileVars>> /\ task[t].phase = "idle"
    BY <1>0, <1>1, DeploymentAssumption DEF Request, Idle, DeploymentAssumption, Operations
  <2>2. ~ Started(t) /\ ~ Started(t)' /\ holds'[t] = {}
    BY <1>0, <2>1 DEF Started, Work, lockVars
  <2>3. Work(t)'
    BY <2>1, <2>2, FreshWork
  <2> QED BY <1>0, <2>1, <2>3, OneWorks DEF lockVars
<1>2. ASSUME NEW t \in Task, NEW h \in Host, Send(t, h) PROVE WorkInv'
  <2>1. /\ task'[t].op = task[t].op /\ task'[t].late = task[t].late /\ task'[t].dead = task[t].dead
        /\ task'[t].phase = "queued" /\ task'[t].progress = task[t].progress
        /\ task'[t].names \subseteq task[t].names /\ task'[t].names # {}
        /\ \A u \in Task : u # t => task'[u] = task[u]
        /\ UNCHANGED <<lockVars, fileVars>> /\ task[t].phase = "checked"
    BY <1>0, <1>2 DEF Send, Handler
  <2>2. ~ Started(t) /\ ~ Started(t)' /\ holds'[t] = {} /\ task[t].dead = {} /\ task[t].late = {}
    BY <1>0, <2>1 DEF Started, Work, lockVars
  <2>3. \A n \in task'[t].names : task'[t].progress[n] = "start"
    BY <1>0, <2>1, <2>2 DEF SlotInv, Handler
  <2>4. ASSUME task[t].op = "callback" PROVE \E n \in Node : task'[t].names = {n}
    <3>1. PICK n \in Node : task[t].names = {n}
      BY <1>0, <2>4 DEF Work
    <3> QED BY <2>1, <3>1
  <2>5. Work(t)'
    BY <2>1, <2>2, <2>3, <2>4, FreshWork
  <2> QED BY <1>0, <2>1, <2>5, OneWorks DEF lockVars
<1>3. ASSUME NEW t \in Task, NEW n \in Node, NEW h \in Host, DeliverCallback(t, n, h) PROVE WorkInv'
  <2>1. /\ task'[t].late = {} /\ task'[t].dead = {} /\ task'[t].phase = "queued"
        /\ \A m \in Node : task'[t].progress[m] = "start"
        /\ task'[t].names = {n} /\ task[t].phase = "idle"
        /\ \A u \in Task : u # t => task'[u] = task[u]
        /\ UNCHANGED <<lockVars, fileVars>>
    BY <1>0, <1>3 DEF DeliverCallback, Idle
  <2>2. ~ Started(t) /\ ~ Started(t)' /\ holds'[t] = {}
    BY <1>0, <2>1 DEF Started, Work, lockVars
  <2>3. Work(t)'
    BY <2>1, <2>2, FreshWork
  <2> QED BY <1>0, <2>1, <2>3, OneWorks DEF lockVars
<1>4. ASSUME NEW t \in Task, Refuse(t) PROVE WorkInv'
  <2>1. /\ task'[t] = Idle /\ task[t].phase = "queued" /\ UNCHANGED <<lockVars, fileVars>>
        /\ \A u \in Task : u # t => task'[u] = task[u]
    BY <1>0, <1>4 DEF Refuse
  <2>2. holds'[t] = {}
    BY <1>0, <2>1 DEF Work, Started, lockVars
  <2> QED BY <1>0, <2>1, <2>2, IdleWork, OneWorks DEF lockVars
<1>5. ASSUME NEW h \in Host, Crash(h) PROVE WorkInv'
  <2>1. ASSUME NEW t \in Task PROVE Work(t)'
    <3>1. CASE task[t].host = h
      BY <1>0, <1>5, <3>1, IdleWork DEF Crash, Abandon
    <3>2. CASE task[t].host # h
      BY <1>0, <1>5, <3>2, OtherWork DEF Crash, Abandon
    <3> QED BY <3>1, <3>2
  <2> QED BY <2>1 DEF WorkInv
<1> QED BY <1>1, <1>2, <1>3, <1>4, <1>5

\* Every step keeps what the invariant says of the handlers at work.
LEMMA BaseStep == ASSUME NoOverrun PROVE BaseInv /\ [Next]_vars => BaseInv'
<1> SUFFICES ASSUME BaseInv, [Next]_vars PROVE BaseInv'
  OBVIOUS
<1>1. TypeInv /\ FilesInv /\ WorkInv /\ TypeInv' /\ FilesInv'
  BY TypeStep, FilesStep DEF BaseInv
<1>2. ASSUME UNCHANGED vars PROVE WorkInv'
  <2>1. UNCHANGED <<task, lockVars, fileVars>>
    BY <1>2 DEF vars
  <2>2. ASSUME NEW u \in Task PROVE Work(u)'
    BY <1>1, <2>1, OtherWork DEF WorkInv, lockVars
  <2> QED BY <2>2 DEF WorkInv
<1>3. ASSUME NEW t \in Task, HandlerStep(t) PROVE WorkInv'
  BY <1>3, OutsideWorks, WaitedWorks, SaverWorks, LockerWorks DEF HandlerStep
<1>4. ASSUME NEW n \in Node, Callback(n) PROVE WorkInv'
  <2>1. UNCHANGED <<task, lockVars, fileVars>>
    BY <1>4 DEF Callback
  <2>2. ASSUME NEW u \in Task PROVE Work(u)'
    BY <1>1, <2>1, OtherWork DEF WorkInv, lockVars
  <2> QED BY <2>2 DEF WorkInv
<1>5. ASSUME NEW z \in zombies, ZombieStep(z) PROVE WorkInv'
  BY <1>1, <1>5 DEF FilesInv
<1>6. ASSUME NEW t \in Task PROVE ~ PoolFull(t)
  BY DEF PoolFull, NoOverrun
<1>7. ASSUME Deliver PROVE WorkInv'
  BY <1>7, OutsideWorks DEF Deliver
<1>8. ASSUME NEW t \in Task, NEW n \in Node, WorkerStep(t, n) \/ WorkerFails(t, n) PROVE WorkInv'
  BY <1>8, WorkerWorks, FailedWorks
<1>9. ASSUME NEW t \in Task, DbFails(t) PROVE WorkInv'
  BY <1>9, SaverWorks
<1>10. ASSUME NEW t \in Task, NEW op \in Ops, NEW S \in SUBSET Node, Request(t, op, S) PROVE WorkInv'
  BY <1>10, OutsideWorks
<1>11. ASSUME NEW h \in Host, Crash(h) PROVE WorkInv'
  BY <1>11, OutsideWorks
<1>12. ASSUME NEW t \in Task,
               \/ \E op \in Ops, S \in SUBSET Node : Request(t, op, S)
               \/ HandlerStep(t)
               \/ \E n \in Node : WorkerStep(t, n) \/ WorkerFails(t, n)
               \/ PoolFull(t) \/ DbFails(t)
       PROVE  WorkInv'
  BY <1>3, <1>6, <1>8, <1>9, <1>10, <1>12
<1>13. WorkInv'
  BY <1>2, <1>4, <1>5, <1>7, <1>11, <1>12 DEF Next
<1> QED BY <1>1, <1>13 DEF BaseInv

\* Nothing is at work in the beginning.
LEMMA InitBase == Init => BaseInv
<1> SUFFICES ASSUME Init PROVE BaseInv
  OBVIOUS
<1>1. TypeInv
  BY IdleTyped DEF Init, LockInit, TypeInv, TypeOK, Idle, DeployState, Node
<1>2. FilesInv
  <2>1. \A t \in Task : Running(t) = {} /\ SlotInv(t)
    BY DEF Init, Idle, Running, Started, SlotInv
  <2> QED BY <2>1 DEF Init, LockInit, LockInv, FilesInv, InstallHasTemplate
<1>3. WorkInv
  <2>1. \A t \in Task : task[t] = Idle /\ holds[t] = {}
    BY DEF Init, LockInit
  <2>2. ASSUME NEW t \in Task PROVE Work(t)
    <3>1. ~ Started(t)
      BY <2>1 DEF Started, Idle
    <3> QED BY <2>1, <3>1 DEF Work, Idle
  <2> QED BY <2>2 DEF WorkInv
<1> QED BY <1>1, <1>2, <1>3 DEF BaseInv

\* A node whose holder went down: it stays locked.
Abandoned(n) == n \in locked /\ \A t \in Task : n \notin holds[t]

\* Nothing unlocks an abandoned node: nobody holds it.
LEMMA AbandonedStays ==
  ASSUME BaseInv, [Next]_vars, NEW n \in Node, Abandoned(n)
  PROVE  Abandoned(n)'
<1>0. holds \in [Task -> SUBSET Node] /\ \A t \in Task : n \notin holds[t]
  BY DEF BaseInv, TypeInv, TypeOK, Abandoned
<1>1. CASE UNCHANGED lockVars
  BY <1>1 DEF lockVars, Abandoned
<1>2. ASSUME NEW t \in Task, Start(t) \/ DeleteRows(t) \/ Exit(t) PROVE Abandoned(n)'
  BY <1>0, <1>2 DEF Abandoned, Start, DeleteRows, Exit, Acquire, Remove, Release
<1>3. ASSUME NEW h \in Host, Crash(h) PROVE Abandoned(n)'
  BY <1>0, <1>3 DEF Abandoned, Crash, Abandon
<1>4. ASSUME NEW t \in Task, HandlerStep(t) PROVE Abandoned(n)'
  BY <1>1, <1>2, <1>4 DEF HandlerStep, Send, Refuse, WaitWorkers, UpdateDhcp, InsertDhcp, RemoveDhcp,
                          SaveProvision, SaveDhcp, SaveClean, SaveCallback
<1>5. ASSUME NEW t \in Task,
             \/ \E op \in Ops, S \in SUBSET Node : Request(t, op, S)
             \/ HandlerStep(t)
             \/ \E m \in Node : WorkerStep(t, m) \/ WorkerFails(t, m)
             \/ PoolFull(t) \/ DbFails(t)
      PROVE  Abandoned(n)'
  BY <1>1, <1>4, <1>5 DEF Request, WorkerStep, WorkerFails, PoolFull, DbFails
<1>6. CASE Deliver
  BY <1>1, <1>6 DEF Deliver, DeliverCallback
<1>7. CASE \E m \in Node : Callback(m)
  BY <1>1, <1>7 DEF Callback
<1>8. CASE \E z \in zombies : ZombieStep(z)
  BY <1>1, <1>8 DEF ZombieStep
<1>9. CASE UNCHANGED vars
  BY <1>1, <1>9 DEF vars
<1> QED BY <1>3, <1>5, <1>6, <1>7, <1>8, <1>9 DEF Next

\* What a handler holds when its host goes down is abandoned.
LEMMA CrashAbandons ==
  ASSUME BaseInv, NEW h \in Host, Crash(h), NEW t \in Task, task[t].host = h, NEW n \in Node,
         n \in holds[t]
  PROVE  Abandoned(n)'
<1>1. n \in locked /\ \A u \in Task : u # t => n \notin holds[u]
  BY DEF BaseInv, FilesInv, LockInv
<1> QED BY <1>1 DEF Crash, Abandon, Abandoned

\* The nodes of two handlers at work, neither of which deletes nodes, are not
\* the same.
LEMMA WorkApart ==
  ASSUME BaseInv, NEW t \in Task, NEW u \in Task, t # u, Started(t), Started(u),
         task[t].op # "destroy", task[u].op # "destroy"
  PROVE  task[t].names \intersect task[u].names = {}
  BY DEF BaseInv, FilesInv, LockInv, WorkInv, Work

\* A handler past its wait: what did not fail is done.
LEMMA WaitedFor ==
  ASSUME BaseInv, NEW t \in Task, task[t].phase \in {"recording", "inserting", "saving"},
         task[t].op \in Threaded
  PROVE  /\ Succeeded(t) = task[t].names \ task[t].dead
         /\ \A n \in Succeeded(t) : task[t].progress[n] = "done"
<1>1. Running(t) = {} /\ Started(t) /\ task[t].late = {}
  BY DEF BaseInv, FilesInv, SlotInv, WorkInv, Work, Started
<1> QED BY <1>1 DEF Succeeded, Running

-----------------------------------------------------------------------------
(* The node that is being deployed is served.  The records follow the files *)
(* in several transactions, and until the last one only the lock keeps a    *)
(* node from being seen with the one and without the other.                 *)

\* Nothing takes the records away behind the handlers' backs, no transaction
\* fails half way, and no greenthread is left over.
RecordsKept ==
    /\ NoOverrun /\ CallbackIsWhole
    /\ "dberror" \notin Faults
    /\ "clean" \notin Ops /\ "destroy" \notin Ops

\* affinity, dhcp record and boot configuration agree.
Served(n) == \E h \in Host : affinity[n] = h /\ dhcp[n] = h /\ bootconf[h][n] = "install"
Settled(n) == state[n] = "deploying" /\ n \notin reported => Served(n)

\* The nodes that a handler has written in part.
Unsettled(t) ==
    LET k == task[t]
    IN  {n \in k.names :
            \/ /\ k.op \in {"provision", "dhcp"} /\ k.phase \in {"inserting", "saving"}
               /\ n \in Succeeded(t)
            \/ k.op = "callback" /\ k.phase \in {"running", "saving"} /\ k.progress[n] # "start"}

\* How far the dhcp records of a provision are.
Records(t) ==
    LET k == task[t]
    IN  /\ k.op \notin {"clean", "destroy"}
        /\ k.phase = "inserting" => /\ k.op \in {"provision", "dhcp"} /\ k.fresh \subseteq Succeeded(t)
                                    /\ \A n \in Succeeded(t) : dhcp[n] = k.host \/ n \in k.fresh
        /\ k.phase = "saving" /\ k.op = "provision" => \A n \in Succeeded(t) : dhcp[n] = k.host

ServeInv ==
    /\ \A t \in Task : Records(t)
    /\ \A n \in Node : Abandoned(n) \/ Settled(n) \/ \E t \in Task : n \in Unsettled(t)

\* Records of a slot and of nodes that a step does not touch.
LEMMA OtherRecords ==
  ASSUME NEW u \in Task, Records(u), task'[u] = task[u],
         \A n \in Succeeded(u) : dhcp'[n] = dhcp[n]
  PROVE  Records(u)'
  BY DEF Records, Succeeded

\* A handler that writes no records (yet).
LEMMA NoRecords ==
  ASSUME NEW t \in Task, task'[t].op \notin {"clean", "destroy"}, task'[t].phase # "inserting",
         ~ (task'[t].phase = "saving" /\ task'[t].op = "provision")
  PROVE  Records(t)'
  BY DEF Records

\* The records are kept by every step.
LEMMA RecordsStep ==
  ASSUME RecordsKept, BaseInv, ServeInv, [Next]_vars, NEW u \in Task
  PROVE  Records(u)'
<1>0. /\ task \in [Task -> Handler] /\ dhcp \in [Node -> Host \union {NoHost}] /\ Records(u)
      /\ zombies = {}
  BY DEF BaseInv, TypeInv, TypeOK, ServeInv, FilesInv
<1>1. CASE task'[u] = task[u] /\ UNCHANGED dhcp
  BY <1>0, <1>1, OtherRecords
<1>2. ASSUME NEW t \in Task, NEW op \in Ops, NEW S \in SUBSET Node, Request(t, op, S)
      PROVE  Records(u)'
  <2>1. CASE t = u
    <3>1. task'[u].op = op /\ task'[u].phase = "checked" /\ op \notin {"clean", "destroy"}
      BY <1>0, <1>2, <2>1 DEF Request, Idle, RecordsKept
    <3> QED BY <3>1, NoRecords
  <2> QED BY <1>0, <1>1, <1>2, <2>1 DEF Request
<1>3. ASSUME NEW t \in Task, NEW h \in Host, Send(t, h) PROVE Records(u)'
  <2>1. dhcp' = dhcp
    <3>1. task[t].op # "clean"
      BY DEF ServeInv, Records
    <3>2. dhcp' = [n \in Node |-> dhcp[n]]
      BY <1>3, <3>1 DEF Send
    <3> QED BY <1>0, <3>2
  <2>2. CASE t = u
    <3>1. task'[u].op = task[u].op /\ task'[u].phase = "queued"
      BY <1>0, <1>3, <2>2 DEF Send, Handler
    <3> QED BY <1>0, <3>1, NoRecords DEF Records
  <2> QED BY <1>0, <1>1, <1>3, <2>1, <2>2 DEF Send
<1>4. ASSUME NEW t \in Task, NEW n \in Node, NEW h \in Host, DeliverCallback(t, n, h)
      PROVE  Records(u)'
  <2>1. CASE t = u
    <3>1. task'[u].op = "callback" /\ task'[u].phase = "queued"
      BY <1>0, <1>4, <2>1 DEF DeliverCallback, Idle
    <3> QED BY <3>1, NoRecords
  <2> QED BY <1>0, <1>1, <1>4, <2>1 DEF DeliverCallback
<1>5. ASSUME NEW t \in Task, Start(t) PROVE Records(u)'
  <2>1. CASE t = u
    <3>1. task'[u].op = task[u].op /\ task'[u].phase \in {"running", "recording", "exit"}
      BY <1>0, <1>5, <2>1 DEF Start, Handler
    <3> QED BY <1>0, <3>1, NoRecords DEF Records
  <2> QED BY <1>0, <1>1, <1>5, <2>1 DEF Start
<1>6. ASSUME NEW t \in Task, Refuse(t) \/ Exit(t) PROVE Records(u)'
  <2>1. CASE t = u
    <3>1. task'[u] = Idle
      BY <1>0, <1>6, <2>1 DEF Refuse, Exit
    <3> QED BY <3>1, NoRecords DEF Idle
  <2> QED BY <1>0, <1>1, <1>6, <2>1 DEF Refuse, Exit
<1>7. ASSUME NEW t \in Task, WaitWorkers(t) PROVE Records(u)'
  <2>1. CASE t = u
    <3>1. task'[u].op = task[u].op /\ task'[u].phase = AfterWait(u)
      BY <1>0, <1>7, <2>1 DEF WaitWorkers, Handler
    <3>2. AfterWait(u) # "inserting" /\ ~ (AfterWait(u) = "saving" /\ task[u].op = "provision")
      BY DEF AfterWait
    <3> QED BY <1>0, <3>1, <3>2, NoRecords DEF Records
  <2> QED BY <1>0, <1>1, <1>7, <2>1 DEF WaitWorkers
<1>8. ASSUME NEW t \in Task, UpdateDhcp(t) PROVE Records(u)'
  <2> DEFINE known == {n \in Succeeded(t) : dhcp[n] # NoHost}
  <2>1. /\ dhcp' = [n \in Node |-> IF n \in known THEN task[t].host ELSE dhcp[n]]
        /\ task'[t].phase = "inserting" /\ task'[t].fresh = Succeeded(t) \ known
        /\ task'[t].op = task[t].op /\ task'[t].host = task[t].host /\ task'[t].names = task[t].names
        /\ task'[t].dead = task[t].dead /\ task'[t].late = task[t].late
        /\ task[t].op \in {"provision", "dhcp"} /\ Started(t)
    BY <1>0, <1>8 DEF UpdateDhcp, Handler, Started
  <2>2. CASE t = u
    <3>1. Succeeded(u)' = Succeeded(u) /\ Succeeded(u) \subseteq Node
      BY <1>0, <2>1, <2>2 DEF Succeeded, Handler
    <3>2. \A n \in Succeeded(u) : dhcp'[n] = task'[u].host \/ n \in task'[u].fresh
      BY <2>1, <2>2, <3>1
    <3> HIDE DEF known
    <3> QED BY <2>1, <2>2, <3>1, <3>2 DEF Records
  <2>3. CASE t # u
    <3>1. task'[u] = task[u]
      BY <1>0, <1>8, <2>3 DEF UpdateDhcp
    <3>2. CASE Started(u)
      <4>1. \A n \in Succeeded(u) : n \notin known /\ n \in Node
        BY <1>0, <2>1, <2>3, <3>2, WorkApart DEF Succeeded, Records, Handler
      <4>2. \A n \in Succeeded(u) : dhcp'[n] = dhcp[n]
        BY <2>1, <4>1
      <4> QED BY <1>0, <3>1, <4>2, OtherRecords
    <3>3. CASE ~ Started(u)
      BY <1>0, <3>1, <3>3, NoRecords DEF Started, Records
    <3> QED BY <3>2, <3>3
  <2> QED BY <2>2, <2>3
<1>9. ASSUME NEW t \in Task, InsertDhcp(t) PROVE Records(u)'
  <2>1. /\ dhcp' = [n \in Node |-> IF n \in task[t].fresh THEN task[t].host ELSE dhcp[n]]
        /\ task'[t].phase = "saving" /\ task'[t].op = task[t].op /\ task'[t].host = task[t].host
        /\ task'[t].names = task[t].names /\ task'[t].dead = task[t].dead /\ task'[t].late = task[t].late
        /\ task[t].phase = "inserting" /\ Started(t) /\ Records(t)
    BY <1>0, <1>9 DEF InsertDhcp, Handler, Started, ServeInv
  <2>2. CASE t = u
    <3>1. Succeeded(u)' = Succeeded(u) /\ Succeeded(u) \subseteq Node
      BY <1>0, <2>1, <2>2 DEF Succeeded, Handler
    <3>2. \A n \in Succeeded(u) : dhcp'[n] = task'[u].host
      BY <2>1, <2>2, <3>1 DEF Records
    <3> QED BY <1>0, <2>1, <2>2, <3>1, <3>2 DEF Records
  <2>3. CASE t # u
    <3>1. task'[u] = task[u]
      BY <1>0, <1>9, <2>3 DEF InsertDhcp
    <3>2. CASE Started(u)
      <4>1. task[t].names \intersect task[u].names = {}
        BY <1>0, <2>1, <2>3, <3>2, WorkApart DEF Records
      <4>2. task[t].fresh \subseteq task[t].names /\ Succeeded(u) \subseteq task[u].names /\ task[u].names \subseteq Node
        BY <1>0, <2>1 DEF Records, Succeeded, Handler
      <4>3. \A n \in Succeeded(u) : dhcp'[n] = dhcp[n]
        BY <2>1, <4>1, <4>2
      <4> QED BY <1>0, <3>1, <4>3, OtherRecords
    <3>3. CASE ~ Started(u)
      BY <1>0, <3>1, <3>3, NoRecords DEF Started, Records
    <3> QED BY <3>2, <3>3
  <2> QED BY <2>2, <2>3
<1>10. ASSUME NEW t \in Task, SaveProvision(t) \/ SaveDhcp(t) \/ SaveCallback(t) PROVE Records(u)'
  <2>1. CASE t = u
    <3>1. task'[u].op = task[u].op /\ task'[u].phase = "exit"
      BY <1>0, <1>10, <2>1 DEF SaveProvision, SaveDhcp, SaveCallback, Handler
    <3> QED BY <1>0, <3>1, NoRecords DEF Records
  <2> QED BY <1>0, <1>1, <1>10, <2>1 DEF SaveProvision, SaveDhcp, SaveCallback
<1>11. ASSUME NEW t \in Task
       PROVE  ~ (RemoveDhcp(t) \/ SaveClean(t) \/ DeleteRows(t) \/ PoolFull(t) \/ DbFails(t))
  BY DEF ServeInv, Records, RemoveDhcp, SaveClean, DeleteRows, PoolFull, DbFails, RecordsKept, NoOverrun
<1>12. ASSUME NEW t \in Task, NEW n \in Node, WorkerStep(t, n) \/ WorkerFails(t, n) PROVE Records(u)'
  <2>1. CASE t = u
    <3>1. Running(u) # {} /\ SlotInv(u)
      BY <1>12, <2>1 DEF WorkerStep, WorkerFails, BaseInv, FilesInv
    <3>2. task[u].phase = "running"
      BY <3>1 DEF SlotInv, Running, Started
    <3>3. task'[u].op = task[u].op /\ task'[u].phase = task[u].phase
      BY <1>0, <1>12, <2>1 DEF WorkerStep, WorkerFails, Handler
    <3> QED BY <1>0, <3>2, <3>3, NoRecords DEF Records
  <2> QED BY <1>0, <1>1, <1>12, <2>1 DEF WorkerStep, WorkerFails
<1>13. ASSUME NEW h \in Host, Crash(h) PROVE Records(u)'
  <2>1. CASE task[u].host = h
    <3>1. task'[u] = Idle
      BY <1>0, <1>13, <2>1 DEF Crash
    <3> QED BY <3>1, NoRecords DEF Idle
  <2> QED BY <1>0, <1>1, <1>13, <2>1 DEF Crash
<1>14. ASSUME NEW t \in Task, HandlerStep(t) PROVE Records(u)'
  BY <1>3, <1>5, <1>6, <1>7, <1>8, <1>9, <1>10, <1>11, <1>14 DEF HandlerStep
<1>15. ASSUME NEW t \in Task,
              \/ \E op \in Ops, S \in SUBSET Node : Request(t, op, S)
              \/ HandlerStep(t)
              \/ \E m \in Node : WorkerStep(t, m) \/ WorkerFails(t, m)
              \/ PoolFull(t) \/ DbFails(t)
       PROVE  Records(u)'
  BY <1>2, <1>11, <1>12, <1>14, <1>15
<1>16. CASE Deliver
  BY <1>4, <1>16 DEF Deliver
<1>17. CASE \E m \in Node : Callback(m)
  BY <1>1, <1>17 DEF Callback
<1>18. CASE UNCHANGED vars
  BY <1>1, <1>18 DEF vars
<1> QED BY <1>0, <1>13, <1>15, <1>16, <1>17, <1>18 DEF Next

\* What a node that is settled, or that nobody has written in part, needs of a
\* step: the handlers keep what they have written in part, and a settled node is
\* not disturbed unless a handler has it now.
Undisturbed(n) ==
    /\ \A t \in Task : n \in Unsettled(t) => (n \in Unsettled(t)' \/ Settled(n)' \/ Abandoned(n)')
    /\ Settled(n) => Settled(n)' \/ \E t \in Task : n \in Unsettled(t)'

\* A step that changes nothing of the files, the rows and the records.
LEMMA SettledStays ==
  ASSUME NEW n \in Node, Settled(n), UNCHANGED <<rowVars, dhcp, bootconf, reported>>
  PROVE  Settled(n)'
<1>1. state' = state /\ affinity' = affinity /\ dhcp' = dhcp /\ bootconf' = bootconf /\ reported' = reported
  BY DEF rowVars
<1> QED BY <1>1 DEF Settled, Served

\* The slot u is as it was, or had written nothing.
LEMMA SlotLeaves ==
  ASSUME NEW n \in Node, UNCHANGED <<rowVars, dhcp, bootconf, reported>>, NEW t \in Task,
         \A u \in Task : u # t => task'[u] = task[u], n \in Unsettled(t) => n \in Unsettled(t)'
  PROVE  Undisturbed(n)
<1>1. \A u \in Task : u # t => Unsettled(u)' = Unsettled(u)
  BY DEF Unsettled, Succeeded
<1> QED BY <1>1, SettledStays DEF Undisturbed

\* The steps that change no file, row or record.
LEMMA QuietSteps ==
  ASSUME RecordsKept, BaseInv, ServeInv, NEW n \in Node, NEW t \in Task,
         \/ \E op \in Ops, S \in SUBSET Node : Request(t, op, S)
         \/ \E h \in Host : Send(t, h)
         \/ \E m \in Node, h \in Host : DeliverCallback(t, m, h)
         \/ \E m \in Node : WorkerFails(t, m)
         \/ Start(t) \/ Refuse(t) \/ Exit(t) \/ WaitWorkers(t)
  PROVE  Undisturbed(n)
<1>0. /\ task \in [Task -> Handler] /\ dhcp \in [Node -> Host \union {NoHost}] /\ Records(t)
      /\ SlotInv(t) /\ Work(t)
  BY DEF BaseInv, TypeInv, TypeOK, ServeInv, FilesInv, WorkInv
<1>1. /\ \A u \in Task : u # t => task'[u] = task[u]
      /\ UNCHANGED <<rowVars, bootconf, reported>>
  BY <1>0 DEF Request, Send, DeliverCallback, WorkerFails, Start, Refuse, Exit, WaitWorkers, fileVars, apiVars
<1>2. UNCHANGED dhcp
  <2>1. ASSUME NEW h \in Host, Send(t, h) PROVE UNCHANGED dhcp
    <3>1. dhcp' = [m \in Node |-> dhcp[m]]
      BY <1>0, <2>1 DEF Send, Records
    <3> QED BY <1>0, <3>1
  <2> QED BY <2>1 DEF Request, DeliverCallback, WorkerFails, Start, Refuse, Exit, WaitWorkers
<1>3. ASSUME n \in Unsettled(t) PROVE n \in Unsettled(t)'
  <2>1. task[t].phase \in {"inserting", "saving", "running"} /\ n \in task[t].names
    BY <1>3 DEF Unsettled
  <2>2. CASE \E m \in Node : WorkerFails(t, m)
    <3>1. task[t].phase = "running"
      BY <1>0, <2>1, <2>2 DEF WorkerFails, SlotInv
    <3>2. task'[t].op = task[t].op /\ task'[t].phase = task[t].phase
          /\ task'[t].names = task[t].names /\ task'[t].progress = task[t].progress
      BY <1>0, <2>2 DEF WorkerFails, Handler
    <3> QED BY <1>3, <3>1, <3>2 DEF Unsettled
  <2>3. CASE WaitWorkers(t)
    <3>1. task[t].op = "callback" /\ task[t].progress[n] # "start"
      BY <1>3, <2>3 DEF Unsettled, WaitWorkers
    <3>2. PICK m \in Node : task[t].names = {m}
      BY <1>0, <3>1 DEF Work
    <3>3. n \notin task[t].dead /\ task[t].dead \subseteq task[t].names
      BY <1>0, <2>1, <3>1 DEF Work, Written, RecordsKept
    <3>4. task[t].dead = {}
      BY <2>1, <3>2, <3>3
    <3>5. AfterWait(t) = "saving"
      BY <3>1, <3>4 DEF AfterWait
    <3>6. task'[t].op = task[t].op /\ task'[t].phase = "saving"
          /\ task'[t].names = task[t].names /\ task'[t].progress = task[t].progress
      BY <1>0, <2>3, <3>5 DEF WaitWorkers, Handler
    <3> QED BY <2>1, <3>1, <3>6 DEF Unsettled
  <2> QED BY <2>1, <2>2, <2>3 DEF Request, Send, DeliverCallback, Start, Refuse, Exit
<1> QED BY <1>1, <1>2, <1>3, SlotLeaves

\* A step of a greenthread.  Only that of a callback takes something away.
LEMMA WorkerServes ==
  ASSUME RecordsKept, BaseInv, ServeInv, NEW n \in Node, NEW t \in Task, NEW m \in Node, WorkerStep(t, m)
  PROVE  Undisturbed(n)
<1>0. TypeInv /\ FilesInv /\ task \in [Task -> Handler] /\ Records(t)
  BY DEF BaseInv, TypeInv, TypeOK, ServeInv
<1> DEFINE k == task[t]
<1>1. /\ m \in k.names /\ k.host \in Host /\ k.phase = "running" /\ k.op \in Threaded
      /\ k.progress[m] \in {"start", "mid"}
      /\ task'[t].op = k.op /\ task'[t].names = k.names /\ task'[t].phase = k.phase
      /\ task'[t].progress[m] = Advance(k.op, k.progress[m])
      /\ \A x \in Node : x # m => task'[t].progress[x] = k.progress[x]
      /\ \A u \in Task : u # t => task'[u] = task[u]
      /\ \A h \in Host, x \in Node : h # k.host \/ x # m => bootconf'[h][x] = bootconf[h][x]
      /\ bootconf'[k.host][m] =
             CASE k.op = "provision" /\ k.progress[m] = "mid"  -> "install"
               [] k.op = "clean" /\ k.progress[m] = "start"    -> "none"
               [] k.op = "callback" /\ k.progress[m] = "start" -> "disk"
               [] OTHER -> bootconf[k.host][m]
  BY <1>0, WorkerChanges
<1>2. UNCHANGED <<rowVars, dhcp, reported>>
  BY DEF WorkerStep, apiVars
<1>3. \A u \in Task : u # t => Unsettled(u)' = Unsettled(u)
  BY <1>1 DEF Unsettled, Succeeded
<1>4. task'[t].progress[m] # "start"
  BY <1>1 DEF Advance
<1>5. n \in Unsettled(t) => n \in Unsettled(t)'
  BY <1>1, <1>4 DEF Unsettled
<1>6. k.op = "callback" => m \in Unsettled(t)'
  BY <1>1, <1>4 DEF Unsettled
<1>7. ASSUME Settled(n), ~ (n = m /\ k.op = "callback") PROVE Settled(n)'
  <2>1. ASSUME NEW h \in Host, bootconf[h][n] = "install" PROVE bootconf'[h][n] = "install"
    BY <1>0, <1>1, <1>7, <2>1 DEF Records
  <2>2. state' = state /\ affinity' = affinity /\ dhcp' = dhcp /\ reported' = reported
    BY <1>2 DEF rowVars
  <2> QED BY <1>7, <2>1, <2>2 DEF Settled, Served
<1> QED BY <1>3, <1>5, <1>6, <1>7 DEF Undisturbed

\* The records change for nodes of the handler only.
LEMMA RecorderServes ==
  ASSUME RecordsKept, BaseInv, ServeInv, NEW n \in Node, NEW t \in Task, UpdateDhcp(t) \/ InsertDhcp(t)
  PROVE  Undisturbed(n)
<1> DEFINE k == task[t]
<1>0. task \in [Task -> Handler] /\ Records(t)
  BY DEF BaseInv, TypeInv, TypeOK, ServeInv
<1>1. /\ k.op \in {"provision", "dhcp"} /\ k.phase \in {"recording", "inserting"}
      /\ task'[t].op = k.op /\ task'[t].names = k.names /\ task'[t].phase \in {"inserting", "saving"}
      /\ task'[t].dead = k.dead /\ task'[t].late = k.late
      /\ \A u \in Task : u # t => task'[u] = task[u]
  BY <1>0 DEF UpdateDhcp, InsertDhcp, Handler, Records
<1>2. UNCHANGED <<rowVars, bootconf, reported>>
  BY DEF UpdateDhcp, InsertDhcp, fileVars, apiVars
<1>3. n \notin Succeeded(t) => dhcp'[n] = dhcp[n]
  BY <1>0 DEF UpdateDhcp, InsertDhcp, Records
<1>4. Succeeded(t)' = Succeeded(t) /\ Succeeded(t) \subseteq k.names
  BY <1>1 DEF Succeeded
<1>5. Unsettled(t)' = Succeeded(t) /\ Unsettled(t) \subseteq Succeeded(t)
  BY <1>1, <1>4 DEF Unsettled
<1>6. \A u \in Task : u # t => Unsettled(u)' = Unsettled(u)
  BY <1>1 DEF Unsettled, Succeeded
<1>7. ASSUME Settled(n), n \notin Succeeded(t) PROVE Settled(n)'
  <2>1. state' = state /\ affinity' = affinity /\ dhcp'[n] = dhcp[n] /\ bootconf' = bootconf /\ reported' = reported
    BY <1>2, <1>3, <1>7 DEF rowVars
  <2> QED BY <1>7, <2>1 DEF Settled, Served
<1> QED BY <1>5, <1>6, <1>7 DEF Undisturbed

\* The rows are saved last, and with them the node is settled again.
LEMMA SaverServes ==
  ASSUME RecordsKept, BaseInv, ServeInv, NEW n \in Node, NEW t \in Task,
         SaveProvision(t) \/ SaveDhcp(t) \/ SaveCallback(t)
  PROVE  Undisturbed(n)
<1> DEFINE k == task[t]
<1>0. /\ task \in [Task -> Handler] /\ Records(t) /\ Work(t) /\ k.host \in Host
      /\ UNCHANGED <<dhcp, bootconf>> /\ \A u \in Task : u # t => task'[u] = task[u]
  BY DEF BaseInv, TypeInv, TypeOK, ServeInv, WorkInv, SaveProvision, SaveDhcp, SaveCallback, fileVars
<1>1. \A u \in Task : u # t => Unsettled(u)' = Unsettled(u)
  BY <1>0 DEF Unsettled, Succeeded
<1>2. CASE SaveProvision(t)
  <2>1. /\ Succeeded(t) = k.names \ k.dead /\ \A m \in Succeeded(t) : k.progress[m] = "done"
    BY <1>2, WaitedFor DEF SaveProvision, Threaded
  <2>2. CASE n \in Succeeded(t)
    <3>1. dhcp[n] = k.host /\ bootconf[k.host][n] = "install"
      BY <1>0, <1>2, <2>1, <2>2 DEF SaveProvision, Records, Work, Written
    <3>2. affinity'[n] = k.host
      BY <1>2, <2>2 DEF SaveProvision
    <3>3. Settled(n)'
      BY <1>0, <3>1, <3>2 DEF Settled, Served
    <3> QED BY <3>3 DEF Undisturbed
  <2>3. CASE n \notin Succeeded(t)
    <3>1. /\ state'[n] = state[n] /\ affinity'[n] = affinity[n]
          /\ n \in reported' <=> n \in reported
      BY <1>2, <2>3 DEF SaveProvision
    <3>2. Settled(n) => Settled(n)'
      BY <1>0, <3>1 DEF Settled, Served
    <3>3. n \notin Unsettled(t)
      BY <1>2, <2>3 DEF Unsettled, SaveProvision
    <3> QED BY <1>1, <3>2, <3>3 DEF Undisturbed
  <2> QED BY <2>2, <2>3
<1>3. CASE SaveDhcp(t)
  <2>1. affinity' = affinity /\ reported' = reported /\ k.op = "dhcp"
        /\ state'[n] = IF n \in Succeeded(t) THEN "dhcp" ELSE state[n]
    BY <1>3 DEF SaveDhcp, apiVars
  <2>2. Settled(n) \/ n \in Succeeded(t) => Settled(n)'
    BY <1>0, <2>1 DEF Settled, Served
  <2>3. n \in Unsettled(t) => n \in Succeeded(t)
    BY <2>1 DEF Unsettled
  <2> QED BY <1>1, <2>2, <2>3 DEF Undisturbed
<1>4. CASE SaveCallback(t)
  <2>1. /\ state'[n] = (IF n \in k.names THEN "deployed" ELSE state[n]) /\ reported' = reported
        /\ affinity'[n] = (IF n \in k.names THEN NoHost ELSE affinity[n])
    BY <1>4 DEF SaveCallback, apiVars
  <2>2. Settled(n) \/ n \in k.names => Settled(n)'
    BY <1>0, <2>1 DEF Settled, Served
  <2>3. n \in Unsettled(t) => n \in k.names
    BY DEF Unsettled
  <2> QED BY <1>1, <2>2, <2>3 DEF Undisturbed
<1> QED BY <1>2, <1>3, <1>4

\* A host that goes down leaves what its handlers wrote in part locked.
LEMMA CrashServes ==
  ASSUME RecordsKept, BaseInv, ServeInv, NEW n \in Node, NEW h \in Host, Crash(h)
  PROVE  Undisturbed(n)
<1>1. UNCHANGED <<rowVars, dhcp, bootconf, reported>>
  BY DEF Crash, fileVars, apiVars
<1>2. ASSUME NEW t \in Task, n \in Unsettled(t)
      PROVE  n \in Unsettled(t)' \/ Abandoned(n)'
  <2>1. task[t].op # "destroy" /\ Started(t) /\ n \in task[t].names /\ task \in [Task -> Handler]
    BY <1>2 DEF Unsettled, Started, BaseInv, TypeInv, TypeOK
  <2>2. n \in holds[t]
    BY <2>1 DEF BaseInv, WorkInv, Work
  <2>3. CASE task[t].host = h
    BY <2>2, <2>3, CrashAbandons
  <2>4. CASE task[t].host # h
    <3>1. task'[t] = task[t]
      BY <2>4 DEF Crash
    <3> QED BY <1>2, <3>1 DEF Unsettled, Succeeded
  <2> QED BY <2>3, <2>4
<1> QED BY <1>1, <1>2, SettledStays DEF Undisturbed

\* A node that has called back promises nothing.
LEMMA CallbackServes ==
  ASSUME NEW n \in Node, NEW m \in Node, Callback(m)
  PROVE  Undisturbed(n)
<1>1. /\ UNCHANGED <<rowVars, dhcp, bootconf, task>> /\ (n \in reported => n \in reported')
  BY DEF Callback, fileVars
<1>2. Settled(n) => Settled(n)'
  <2>1. state' = state /\ affinity' = affinity /\ dhcp' = dhcp /\ bootconf' = bootconf
    BY <1>1 DEF rowVars
  <2> QED BY <1>1, <2>1 DEF Settled, Served
<1>3. \A t \in Task : Unsettled(t)' = Unsettled(t)
  BY <1>1 DEF Unsettled, Succeeded
<1> QED BY <1>2, <1>3 DEF Undisturbed

\* Every step leaves every node settled, or its handler on the way to settle it.
LEMMA ServeStep ==
  ASSUME RecordsKept, BaseInv, ServeInv, [Next]_vars
  PROVE  ServeInv'
<1>1. ASSUME NEW n \in Node PROVE Undisturbed(n)
  <2>0. zombies = {}
    BY DEF BaseInv, FilesInv
  <2>1. ASSUME NEW t \in Task
        PROVE  ~ (RemoveDhcp(t) \/ SaveClean(t) \/ DeleteRows(t) \/ PoolFull(t) \/ DbFails(t))
    BY DEF ServeInv, Records, RemoveDhcp, SaveClean, DeleteRows, PoolFull, DbFails, RecordsKept, NoOverrun
  <2>2. ASSUME NEW t \in Task, HandlerStep(t) PROVE Undisturbed(n)
    BY <2>1, <2>2, QuietSteps, RecorderServes, SaverServes DEF HandlerStep
  <2>3. ASSUME NEW t \in Task,
               \/ \E op \in Ops, S \in SUBSET Node : Request(t, op, S)
               \/ HandlerStep(t)
               \/ \E m \in Node : WorkerStep(t, m) \/ WorkerFails(t, m)
               \/ PoolFull(t) \/ DbFails(t)
        PROVE  Undisturbed(n)
    BY <2>1, <2>2, <2>3, QuietSteps, WorkerServes
  <2>4. CASE Deliver
    BY <2>4, QuietSteps DEF Deliver
  <2>5. CASE \E m \in Node : Callback(m)
    BY <2>5, CallbackServes
  <2>6. CASE \E h \in Host : Crash(h)
    BY <2>6, CrashServes
  <2>7. CASE UNCHANGED vars
    <3>1. UNCHANGED <<rowVars, dhcp, bootconf, reported, task>>
      BY <2>7 DEF vars, fileVars, apiVars
    <3>2. \A t \in Task : Unsettled(t)' = Unsettled(t)
      BY <3>1 DEF Unsettled, Succeeded
    <3> QED BY <3>1, <3>2, SettledStays DEF Undisturbed
  <2> QED BY <2>0, <2>3, <2>4, <2>5, <2>6, <2>7 DEF Next
<1>2. ASSUME NEW n \in Node PROVE Abandoned(n)' \/ Settled(n)' \/ \E t \in Task : n \in Unsettled(t)'
  <2>1. Abandoned(n) \/ Settled(n) \/ \E t \in Task : n \in Unsettled(t)
    BY DEF ServeInv
  <2> QED BY <1>1, <2>1, AbandonedStays DEF Undisturbed
<1>3. \A u \in Task : Records(u)'
  BY RecordsStep
<1> QED BY <1>2, <1>3 DEF ServeInv

(* A node that is being deployed is served by the conductor in charge,     *)
(* whichever of them dies, whatever greenthreads fail, and whoever else is *)
(* at work on it.  Needs that no transaction fails half way, that no       *)
(* greenthread outlives its handler, and that neither clean nor destroy    *)
(* takes the record away before the lock is there.                         *)
THEOREM DeployingServed == ASSUME RecordsKept PROVE Spec => []DeployingIsServed
<1>1. Init => ServeInv
  <2> SUFFICES ASSUME Init PROVE ServeInv
    OBVIOUS
  <2>1. \A t \in Task : Records(t)
    BY DEF Init, Records, Idle
  <2>2. \A n \in Node : Settled(n)
    BY DEF Init, Settled
  <2> QED BY <2>1, <2>2 DEF ServeInv
<1>2. BaseInv /\ [Next]_vars => BaseInv'
  BY BaseStep DEF RecordsKept
<1>3. BaseInv /\ ServeInv /\ [Next]_vars => ServeInv'
  BY ServeStep
<1>4. BaseInv /\ ServeInv => DeployingIsServed
  <2> SUFFICES ASSUME BaseInv, ServeInv, NEW n \in Node, state[n] = "deploying", Unlocked(n), n \notin reported
               PROVE  \E h \in Host : /\ affinity[n] = h /\ dhcp[n] = h
                                      /\ bootconf[h][n] = "install" /\ n \in template[h]
    BY DEF DeployingIsServed
  <2>1. ~ Abandoned(n)
    BY DEF Abandoned, Unlocked
  <2>2. ASSUME NEW t \in Task, n \in Unsettled(t) PROVE FALSE
    <3>1. task[t].op # "destroy" /\ Started(t) /\ n \in task[t].names
      BY <2>2 DEF Unsettled, Started
    <3>2. n \in holds[t] /\ holds[t] \subseteq locked
      BY <3>1 DEF BaseInv, WorkInv, Work, FilesInv, LockInv
    <3> QED BY <3>2 DEF Unlocked
  <2>3. Served(n)
    BY <2>1, <2>2 DEF ServeInv, Settled
  <2> QED BY <2>3 DEF Served, BaseInv, FilesInv, InstallHasTemplate
<1> QED BY <1>1, <1>2, <1>3, <1>4, InitBase, PTL DEF Spec

-----------------------------------------------------------------------------
(* A deployment with one conductor host: the files of a node are those of  *)
(* that host, and a handler that takes them away finds all there is.       *)

\* What the two properties below rest on: a host, no handler that gives up half way.
OneWriter == NoOverrun /\ "dberror" \notin Faults /\ \A g, h \in Host : g = h

\* A provision that writes files or has still to save what it wrote.
AtWork(t) == task[t].op = "provision" /\ task[t].phase \in {"running", "recording", "inserting", "saving"}

\* The nodes of a provision with the boot configuration, and with any file, written.
Building(t) == {n \in task[t].names : AtWork(t) /\ task[t].progress[n] = "done"}
Touching(t) == {n \in task[t].names : AtWork(t) /\ task[t].progress[n] # "start"}

\* A deployed node is not installed again; an undeployed one has no files.
NoReinstall(n) == state[n] = "deployed" => \A h \in Host : bootconf[h][n] # "install"
Bare(n) == state[n] = "none" => \A h \in Host : bootconf[h][n] # "install" /\ n \notin template[h]

\* A callback saves only what it has done.
CallbackSaves(t) ==
    task[t].op = "callback" => /\ task[t].phase # "inserting"
                               /\ task[t].phase = "saving" => task[t].dead = {}

\* Where no greenthread raises, provision and clean leave no node half done.
NoneDead(t) == task[t].op \in {"provision", "clean"} => task[t].dead = {}

\* A deployed node has no install configuration, or a provision at work on it.
DiskInv ==
    /\ \A t \in Task : CallbackSaves(t)
    /\ \A n \in Node : Abandoned(n) \/ NoReinstall(n) \/ \E t \in Task : n \in Building(t)

\* An undeployed node has no files, or a provision at work on it.
CleanInv ==
    /\ \A t \in Task : NoneDead(t)
    /\ \A n \in Node : Abandoned(n) \/ Bare(n) \/ \E t \in Task : n \in Touching(t)

\* The steps after which a provision at work is at work on the same.
Onwards(t) == AtWork(t)' /\ task'[t].names = task[t].names /\ task'[t].progress = task[t].progress

\* A node of a provision at work is held.
LEMMA AtWorkHolds ==
  ASSUME BaseInv, NEW t \in Task, AtWork(t), NEW n \in task[t].names
  PROVE  n \in holds[t] /\ n \in locked
<1>1. Started(t) /\ Work(t) /\ LockInv
  BY DEF BaseInv, FilesInv, WorkInv, AtWork, Started
<1> QED BY <1>1 DEF AtWork, Work, LockInv

\* The steps that write neither files nor the state.
LEMMA QuietGoOn ==
  ASSUME BaseInv, NEW t \in Task,
         \/ \E op \in Ops, S \in SUBSET Node : Request(t, op, S)
         \/ \E h \in Host : Send(t, h)
         \/ \E m \in Node, h \in Host : DeliverCallback(t, m, h)
         \/ \E m \in Node : WorkerFails(t, m)
         \/ Start(t) \/ Refuse(t) \/ Exit(t) \/ WaitWorkers(t)
         \/ UpdateDhcp(t) \/ InsertDhcp(t) \/ RemoveDhcp(t)
  PROVE  /\ UNCHANGED <<state, fileVars>>
         /\ \A u \in Task : AtWork(u) => Onwards(u)
<1>0. task \in [Task -> Handler]
  BY DEF BaseInv, TypeInv, TypeOK
<1>1. /\ \A u \in Task : u # t => task'[u] = task[u]
      /\ UNCHANGED <<state, fileVars>>
  BY <1>0 DEF Request, Send, DeliverCallback, WorkerFails, Start, Refuse, Exit, WaitWorkers,
              UpdateDhcp, InsertDhcp, RemoveDhcp, rowVars
<1>2. ASSUME AtWork(t) PROVE Onwards(t)
  <2>1. CASE \E m \in Node : WorkerFails(t, m)
    BY <1>0, <1>2, <2>1 DEF WorkerFails, AtWork, Onwards, Handler
  <2>2. CASE WaitWorkers(t)
    <3>1. AfterWait(t) = "recording"
      BY <1>2 DEF AtWork, AfterWait
    <3> QED BY <1>0, <1>2, <2>2, <3>1 DEF WaitWorkers, AtWork, Onwards, Handler
  <2>3. CASE UpdateDhcp(t) \/ InsertDhcp(t) \/ RemoveDhcp(t)
    BY <1>0, <1>2, <2>3 DEF UpdateDhcp, InsertDhcp, RemoveDhcp, AtWork, Onwards, Handler
  <2> QED BY <1>2, <2>1, <2>2, <2>3 DEF AtWork, Request, Send, DeliverCallback, Start, Refuse, Exit
<1>3. ASSUME NEW u \in Task, AtWork(u), u # t PROVE Onwards(u)
  BY <1>1, <1>3 DEF AtWork, Onwards
<1> QED BY <1>1, <1>2, <1>3

\* A step that writes nothing leaves every node as good as it was.
LEMMA QuietKeeps ==
  ASSUME UNCHANGED <<state, fileVars>>, NEW n \in Node,
         \A u \in Task : AtWork(u) => Onwards(u)
  PROVE  /\ NoReinstall(n) => NoReinstall(n)'
         /\ Bare(n) => Bare(n)'
         /\ \A u \in Task : (n \in Building(u) => n \in Building(u)') /\ (n \in Touching(u) => n \in Touching(u)')
<1>1. state' = state /\ bootconf' = bootconf /\ template' = template
  BY DEF fileVars
<1>2. (NoReinstall(n) => NoReinstall(n)') /\ (Bare(n) => Bare(n)')
  BY <1>1 DEF NoReinstall, Bare
<1> QED BY <1>2 DEF Building, Touching, Onwards

\* A greenthread of provision has the node in hand when it writes; those of clean
\* and of the callback write no install configuration and no template.
LEMMA WorkerKeeps ==
  ASSUME BaseInv, NEW t \in Task, NEW m \in Node, WorkerStep(t, m), NEW n \in Node
  PROVE  /\ NoReinstall(n) => NoReinstall(n)' \/ n \in Building(t)'
         /\ Bare(n) => Bare(n)' \/ n \in Touching(t)'
         /\ \A u \in Task : (n \in Building(u) => n \in Building(u)') /\ (n \in Touching(u) => n \in Touching(u)')
<1> DEFINE k == task[t]
<1>0. TypeInv /\ FilesInv
  BY DEF BaseInv
<1>1. /\ m \in k.names /\ k.host \in Host /\ k.phase = "running"
      /\ k.progress[m] \in {"start", "mid"}
      /\ task'[t].op = k.op /\ task'[t].names = k.names /\ task'[t].phase = k.phase
      /\ task'[t].progress[m] = Advance(k.op, k.progress[m])
      /\ \A x \in Node : x # m => task'[t].progress[x] = k.progress[x]
      /\ \A u \in Task : u # t => task'[u] = task[u]
  BY <1>0, WorkerChanges
<1>2. /\ \A h \in Host, x \in Node : h # k.host \/ x # m =>
             bootconf'[h][x] = bootconf[h][x] /\ (x \in template'[h] <=> x \in template[h])
      /\ bootconf'[k.host][m] =
             CASE k.op = "provision" /\ k.progress[m] = "mid"  -> "install"
               [] k.op = "clean" /\ k.progress[m] = "start"    -> "none"
               [] k.op = "callback" /\ k.progress[m] = "start" -> "disk"
               [] OTHER -> bootconf[k.host][m]
      /\ m \in template'[k.host] <=>
             CASE k.op = "provision" /\ k.progress[m] = "start" -> TRUE
               [] k.op \in {"clean", "callback"} /\ k.progress[m] = "mid" -> FALSE
               [] OTHER -> m \in template[k.host]
  BY <1>0, WorkerChanges
<1>3. state' = state
  BY DEF WorkerStep, rowVars
<1>4. /\ task'[t].progress[m] # "start"
      /\ k.op = "provision" /\ k.progress[m] = "mid" => task'[t].progress[m] = "done"
  BY <1>1 DEF Advance
<1>5. \A u \in Task : (n \in Building(u) => n \in Building(u)') /\ (n \in Touching(u) => n \in Touching(u)')
  <2>1. ASSUME NEW u \in Task, u # t PROVE Building(u)' = Building(u) /\ Touching(u)' = Touching(u)
    BY <1>1, <2>1 DEF Building, Touching, AtWork
  <2>2. (n \in Building(t) => n \in Building(t)') /\ (n \in Touching(t) => n \in Touching(t)')
    BY <1>1, <1>4 DEF Building, Touching, AtWork
  <2> QED BY <2>1, <2>2
<1>6. k.op = "provision" => m \in Touching(t)'
  BY <1>1, <1>4 DEF Touching, AtWork
<1>7. k.op = "provision" /\ k.progress[m] = "mid" => m \in Building(t)'
  BY <1>1, <1>4 DEF Building, AtWork
<1>8. ASSUME NEW h \in Host, bootconf'[h][n] = "install", bootconf[h][n] # "install"
      PROVE  n = m /\ k.op = "provision" /\ k.progress[m] = "mid"
  BY <1>1, <1>2, <1>8
<1>9. ASSUME NEW h \in Host, n \in template'[h], n \notin template[h]
      PROVE  n = m /\ k.op = "provision"
  BY <1>1, <1>2, <1>9
<1>10. NoReinstall(n) => NoReinstall(n)' \/ n \in Building(t)'
  BY <1>3, <1>7, <1>8 DEF NoReinstall
<1>11. Bare(n) => Bare(n)' \/ n \in Touching(t)'
  BY <1>3, <1>6, <1>8, <1>9 DEF Bare
<1> QED BY <1>5, <1>10, <1>11

\* The saves: each leaves its nodes in the state that their files are in.
LEMMA SaverKeeps ==
  ASSUME BaseInv, OneWriter, NEW t \in Task, NEW n \in Node,
         SaveProvision(t) \/ SaveDhcp(t) \/ SaveClean(t) \/ SaveCallback(t) \/ DeleteRows(t)
  PROVE  /\ DiskInv /\ (NoReinstall(n) \/ n \in Building(t)) => NoReinstall(n)'
         /\ CleanInv /\ (Bare(n) \/ n \in Touching(t)) => Bare(n)'
         /\ \A u \in Task : u # t => Building(u)' = Building(u) /\ Touching(u)' = Touching(u)
<1> DEFINE k == task[t]
<1>0. /\ task \in [Task -> Handler] /\ Work(t) /\ k.host \in Host
      /\ bootconf' = bootconf /\ template' = template
      /\ \A u \in Task : u # t => task'[u] = task[u]
      /\ k.phase = "saving" /\ Started(t)
  BY DEF BaseInv, TypeInv, TypeOK, WorkInv, Started, SaveProvision, SaveDhcp, SaveClean, SaveCallback,
         DeleteRows, fileVars
<1>1. \A u \in Task : u # t => Building(u)' = Building(u) /\ Touching(u)' = Touching(u)
  BY <1>0 DEF Building, Touching, AtWork
<1>2. k.op \in Threaded => /\ Succeeded(t) = k.names \ k.dead
                           /\ \A m \in Succeeded(t) : k.progress[m] = "done"
  BY <1>0, WaitedFor
<1>3. \A h \in Host : h = k.host
  BY <1>0 DEF OneWriter
<1>4. CASE SaveProvision(t)
  <2>1. k.op = "provision" /\ state'[n] = IF n \in Succeeded(t) THEN "deploying" ELSE state[n]
    BY <1>4 DEF SaveProvision
  <2>2. n \in Building(t) => n \in Succeeded(t)
    BY <1>0, <1>2, <2>1 DEF Building, Threaded, Work, Written
  <2>3. CleanInv /\ n \in Touching(t) => n \in Succeeded(t)
    BY <1>2, <2>1 DEF Touching, Threaded, CleanInv, NoneDead
  <2>4. (NoReinstall(n) \/ n \in Building(t)) => NoReinstall(n)'
    BY <1>0, <2>1, <2>2 DEF NoReinstall
  <2>5. CleanInv /\ (Bare(n) \/ n \in Touching(t)) => Bare(n)'
    BY <1>0, <2>1, <2>3 DEF Bare
  <2> QED BY <1>1, <2>4, <2>5
<1>5. CASE SaveDhcp(t)
  <2>1. state'[n] \in {"dhcp", state[n]} /\ k.op = "dhcp"
    BY <1>5 DEF SaveDhcp
  <2>2. n \notin Building(t) /\ n \notin Touching(t)
    BY <2>1 DEF Building, Touching, AtWork
  <2> QED BY <1>0, <1>1, <2>1, <2>2 DEF NoReinstall, Bare
<1>6. CASE SaveClean(t)
  <2>1. state'[n] = (IF n \in k.names /\ k.progress[n] # "start" THEN "none" ELSE state[n]) /\ k.op = "clean"
    BY <1>6 DEF SaveClean
  <2>2. n \notin Building(t) /\ n \notin Touching(t)
    BY <2>1 DEF Building, Touching, AtWork
  <2>3. CleanInv /\ n \in k.names => bootconf[k.host][n] # "install" /\ n \notin template[k.host]
    BY <1>0, <1>2, <2>1 DEF CleanInv, NoneDead, Threaded, Work, Written
  <2>4. CleanInv /\ Bare(n) => Bare(n)'
    BY <1>0, <1>3, <2>1, <2>3 DEF Bare
  <2>5. NoReinstall(n) => NoReinstall(n)'
    BY <1>0, <2>1 DEF NoReinstall
  <2> QED BY <1>1, <2>2, <2>4, <2>5
<1>7. CASE SaveCallback(t)
  <2>1. state'[n] = (IF n \in k.names THEN "deployed" ELSE state[n]) /\ k.op = "callback"
    BY <1>7 DEF SaveCallback
  <2>2. n \notin Building(t) /\ n \notin Touching(t)
    BY <2>1 DEF Building, Touching, AtWork
  <2>3. DiskInv /\ n \in k.names => bootconf[k.host][n] # "install"
    BY <1>0, <1>2, <2>1 DEF DiskInv, CallbackSaves, Threaded, Work, Written
  <2>4. DiskInv /\ NoReinstall(n) => NoReinstall(n)'
    BY <1>0, <1>3, <2>1, <2>3 DEF NoReinstall
  <2>5. Bare(n) => Bare(n)'
    BY <1>0, <2>1 DEF Bare
  <2> QED BY <1>1, <2>2, <2>4, <2>5
<1>8. CASE DeleteRows(t)
  <2>1. state'[n] \in {"gone", state[n]} /\ k.op = "destroy"
    BY <1>8 DEF DeleteRows
  <2>2. n \notin Building(t) /\ n \notin Touching(t)
    BY <2>1 DEF Building, Touching, AtWork
  <2> QED BY <1>0, <1>1, <2>1, <2>2 DEF NoReinstall, Bare
<1> QED BY <1>4, <1>5, <1>6, <1>7, <1>8

\* A step of the handler in slot u itself.
OwnStep(u) ==
    \/ \E op \in Ops, S \in SUBSET Node : Request(u, op, S)
    \/ \E n \in Node, h \in Host : DeliverCallback(u, n, h)
    \/ \E n \in Node : WorkerStep(u, n) \/ WorkerFails(u, n)
    \/ HandlerStep(u)

\* What happens to a slot: nothing, it is emptied, or its own handler goes on.
LEMMA SlotSteps ==
  ASSUME BaseInv, OneWriter, [Next]_vars, NEW u \in Task
  PROVE  task'[u] = task[u] \/ task'[u] = Idle \/ OwnStep(u)
<1>0. task \in [Task -> Handler] /\ zombies = {}
  BY DEF BaseInv, TypeInv, TypeOK, FilesInv
<1>1. ASSUME NEW t \in Task, t # u, HandlerStep(t) PROVE task'[u] = task[u]
  BY <1>0, <1>1 DEF HandlerStep, Send, Start, Refuse, WaitWorkers, UpdateDhcp, InsertDhcp,
     RemoveDhcp, SaveProvision, SaveDhcp, SaveClean, SaveCallback, DeleteRows, Exit
<1>2. ASSUME NEW t \in Task, t # u,
             \/ \E op \in Ops, S \in SUBSET Node : Request(t, op, S)
             \/ \E n \in Node, h \in Host : DeliverCallback(t, n, h)
             \/ \E n \in Node : WorkerStep(t, n) \/ WorkerFails(t, n)
      PROVE  task'[u] = task[u]
  BY <1>0, <1>2 DEF Request, DeliverCallback, WorkerStep, WorkerFails
<1>3. ASSUME NEW t \in Task PROVE ~ (PoolFull(t) \/ DbFails(t))
  BY DEF PoolFull, DbFails, OneWriter, NoOverrun
<1>4. ASSUME NEW h \in Host, Crash(h) PROVE task'[u] = task[u] \/ task'[u] = Idle
  BY <1>4 DEF Crash
<1>5. ASSUME UNCHANGED vars \/ \E n \in Node : Callback(n) PROVE task'[u] = task[u]
  BY <1>5 DEF vars, Callback
<1> QED BY <1>0, <1>1, <1>2, <1>3, <1>4, <1>5 DEF Next, Deliver, OwnStep

\* A callback that has failed never saves.
LEMMA CallbackSavesStep ==
  ASSUME BaseInv, OneWriter, [Next]_vars, NEW u \in Task, CallbackSaves(u)
  PROVE  CallbackSaves(u)'
<1>0. task \in [Task -> Handler] /\ SlotInv(u)
  BY DEF BaseInv, TypeInv, TypeOK, FilesInv
<1>1. CASE task'[u] = task[u] \/ task'[u] = Idle
  BY <1>1 DEF CallbackSaves, Idle
<1>2. ASSUME NEW m \in Node, WorkerStep(u, m) \/ WorkerFails(u, m) PROVE CallbackSaves(u)'
  <2>1. task[u].phase \notin {"inserting", "saving"}
    BY <1>0, <1>2 DEF WorkerStep, WorkerFails, SlotInv
  <2>2. task'[u].phase = task[u].phase
    BY <1>0, <1>2 DEF WorkerStep, WorkerFails, Handler
  <2> QED BY <2>1, <2>2 DEF CallbackSaves
<1>3. CASE WaitWorkers(u)
  <2>1. task'[u].phase = AfterWait(u) /\ task'[u].dead = task[u].dead /\ task'[u].op = task[u].op
    BY <1>0, <1>3 DEF WaitWorkers, Handler
  <2> QED BY <2>1 DEF CallbackSaves, AfterWait
<1>4. ASSUME \/ \E op \in Ops, S \in SUBSET Node : Request(u, op, S)
             \/ \E n \in Node, h \in Host : DeliverCallback(u, n, h)
             \/ \E h \in Host : Send(u, h)
             \/ Start(u) \/ Refuse(u) \/ Exit(u)
      PROVE  CallbackSaves(u)'
  <2>1. CASE \E op \in Ops, S \in SUBSET Node : Request(u, op, S)
    <3>1. task'[u].phase = "checked"
      BY <1>0, <2>1 DEF Request, Idle
    <3> QED BY <3>1 DEF CallbackSaves
  <2>2. CASE \E n \in Node, h \in Host : DeliverCallback(u, n, h)
    <3>1. task'[u].phase = "queued"
      BY <1>0, <2>2 DEF DeliverCallback, Idle
    <3> QED BY <3>1 DEF CallbackSaves
  <2>3. CASE \E h \in Host : Send(u, h)
    <3>1. task'[u].phase = "queued"
      BY <1>0, <2>3 DEF Send, Handler
    <3> QED BY <3>1 DEF CallbackSaves
  <2>4. CASE Start(u)
    <3>1. task'[u].phase \in {"running", "recording", "exit"}
      BY <1>0, <2>4 DEF Start, Handler
    <3> QED BY <3>1 DEF CallbackSaves
  <2>5. CASE Refuse(u) \/ Exit(u)
    BY <1>0, <1>1, <2>5 DEF Refuse, Exit
  <2> QED BY <1>4, <2>1, <2>2, <2>3, <2>4, <2>5
<1>5. CASE \/ UpdateDhcp(u) \/ InsertDhcp(u) \/ RemoveDhcp(u)
           \/ SaveProvision(u) \/ SaveDhcp(u) \/ SaveClean(u) \/ SaveCallback(u) \/ DeleteRows(u)
  BY <1>0, <1>5 DEF UpdateDhcp, InsertDhcp, RemoveDhcp, SaveProvision, SaveDhcp, SaveClean,
                    SaveCallback, DeleteRows, CallbackSaves, Handler
<1>6. ASSUME HandlerStep(u) PROVE CallbackSaves(u)'
  BY <1>3, <1>4, <1>5, <1>6 DEF HandlerStep
<1>7. ASSUME OwnStep(u) PROVE CallbackSaves(u)'
  BY <1>2, <1>4, <1>6, <1>7 DEF OwnStep
<1>8. task'[u] = task[u] \/ task'[u] = Idle \/ OwnStep(u)
  BY SlotSteps
<1> QED BY <1>1, <1>7, <1>8

\* Where no greenthread raises, none of provision or clean fails.
LEMMA NoneDeadStep ==
  ASSUME BaseInv, OneWriter, "workerfail" \notin Faults, [Next]_vars, NEW u \in Task, NoneDead(u)
  PROVE  NoneDead(u)'
<1>0. task \in [Task -> Handler]
  BY DEF BaseInv, TypeInv, TypeOK
<1>1. CASE task'[u] = task[u] \/ task'[u] = Idle
  BY <1>1 DEF NoneDead, Idle
<1>2. ASSUME \/ \E op \in Ops, S \in SUBSET Node : Request(u, op, S)
             \/ \E n \in Node, h \in Host : DeliverCallback(u, n, h)
      PROVE  NoneDead(u)'
  <2>1. CASE \E op \in Ops, S \in SUBSET Node : Request(u, op, S)
    <3>1. task'[u].dead = {}
      BY <1>0, <2>1 DEF Request, Idle
    <3> QED BY <3>1 DEF NoneDead
  <2>2. CASE \E n \in Node, h \in Host : DeliverCallback(u, n, h)
    <3>1. task'[u].dead = {}
      BY <1>0, <2>2 DEF DeliverCallback, Idle
    <3> QED BY <3>1 DEF NoneDead
  <2> QED BY <1>2, <2>1, <2>2
<1>3. ASSUME NEW m \in Node, WorkerFails(u, m) PROVE NoneDead(u)'
  <2>1. task[u].op = "callback"
    BY <1>3 DEF WorkerFails, CanWrite
  <2>2. task'[u].op = task[u].op
    BY <1>0, <1>3 DEF WorkerFails, Handler
  <2> QED BY <2>1, <2>2 DEF NoneDead
<1>4. ASSUME \/ \E h \in Host : Send(u, h)
             \/ \E m \in Node : WorkerStep(u, m)
             \/ Start(u) \/ WaitWorkers(u) \/ Refuse(u) \/ Exit(u)
      PROVE  NoneDead(u)'
  <2>1. ASSUME task'[u].op = task[u].op, task'[u].dead = task[u].dead PROVE NoneDead(u)'
    BY <2>1 DEF NoneDead
  <2>2. ASSUME NEW h \in Host, Send(u, h) PROVE NoneDead(u)'
    BY <1>0, <2>1, <2>2 DEF Send, Handler
  <2>3. ASSUME NEW m \in Node, WorkerStep(u, m) PROVE NoneDead(u)'
    BY <1>0, <2>1, <2>3 DEF WorkerStep, Handler
  <2>4. CASE Start(u) \/ WaitWorkers(u)
    BY <1>0, <2>1, <2>4 DEF Start, WaitWorkers, Handler
  <2>5. CASE Refuse(u) \/ Exit(u)
    BY <1>0, <1>1, <2>5 DEF Refuse, Exit
  <2> QED BY <1>4, <2>2, <2>3, <2>4, <2>5
<1>5. CASE \/ UpdateDhcp(u) \/ InsertDhcp(u) \/ RemoveDhcp(u)
           \/ SaveProvision(u) \/ SaveDhcp(u) \/ SaveClean(u) \/ SaveCallback(u) \/ DeleteRows(u)
  BY <1>0, <1>5 DEF UpdateDhcp, InsertDhcp, RemoveDhcp, SaveProvision, SaveDhcp, SaveClean,
                    SaveCallback, DeleteRows, NoneDead, Handler
<1>6. ASSUME HandlerStep(u) PROVE NoneDead(u)'
  BY <1>4, <1>5, <1>6 DEF HandlerStep
<1>7. ASSUME OwnStep(u) PROVE NoneDead(u)'
  BY <1>2, <1>3, <1>4, <1>6, <1>7 DEF OwnStep
<1>8. task'[u] = task[u] \/ task'[u] = Idle \/ OwnStep(u)
  BY SlotSteps
<1> QED BY <1>1, <1>7, <1>8

\* A host that goes down leaves what its provisions had in hand locked.
LEMMA CrashKeeps ==
  ASSUME BaseInv, NEW h \in Host, Crash(h), NEW n \in Node
  PROVE  /\ NoReinstall(n) => NoReinstall(n)'
         /\ Bare(n) => Bare(n)'
         /\ \A u \in Task : /\ n \in Building(u) => n \in Building(u)' \/ Abandoned(n)'
                            /\ n \in Touching(u) => n \in Touching(u)' \/ Abandoned(n)'
<1>1. state' = state /\ bootconf' = bootconf /\ template' = template
  BY DEF Crash, rowVars, fileVars
<1>2. ASSUME NEW u \in Task, AtWork(u), n \in task[u].names
      PROVE  task'[u] = task[u] \/ Abandoned(n)'
  <2>1. task \in [Task -> Handler] /\ n \in holds[u]
    BY <1>2, AtWorkHolds DEF BaseInv, TypeInv, TypeOK
  <2>2. CASE task[u].host = h
    BY <2>1, <2>2, CrashAbandons
  <2>3. CASE task[u].host # h
    BY <2>3 DEF Crash
  <2> QED BY <2>2, <2>3
<1>3. ASSUME NEW u \in Task, task'[u] = task[u]
      PROVE  Building(u)' = Building(u) /\ Touching(u)' = Touching(u)
  BY <1>3 DEF Building, Touching, AtWork
<1>4. ASSUME NEW u \in Task
      PROVE  /\ n \in Building(u) => n \in Building(u)' \/ Abandoned(n)'
             /\ n \in Touching(u) => n \in Touching(u)' \/ Abandoned(n)'
  <2>1. n \in Building(u) \/ n \in Touching(u) => AtWork(u) /\ n \in task[u].names
    BY DEF Building, Touching
  <2> QED BY <1>2, <1>3, <2>1
<1>5. (NoReinstall(n) => NoReinstall(n)') /\ (Bare(n) => Bare(n)')
  BY <1>1 DEF NoReinstall, Bare
<1> QED BY <1>4, <1>5

\* Every node keeps what it has, in hand or not: the steps of all kinds together.
Kept(n) ==
    /\ DiskInv => NoReinstall(n)' \/ Abandoned(n)' \/ \E t \in Task : n \in Building(t)'
    /\ CleanInv => Bare(n)' \/ Abandoned(n)' \/ \E t \in Task : n \in Touching(t)'

\* Every step keeps every node so.
LEMMA NodeKept ==
  ASSUME BaseInv, OneWriter, [Next]_vars, NEW n \in Node
  PROVE  Kept(n)
<1>0. /\ DiskInv => Abandoned(n) \/ NoReinstall(n) \/ \E t \in Task : n \in Building(t)
      /\ CleanInv => Abandoned(n) \/ Bare(n) \/ \E t \in Task : n \in Touching(t)
      /\ zombies = {}
  BY DEF DiskInv, CleanInv, BaseInv, FilesInv
<1>1. CASE Abandoned(n)
  BY <1>1, AbandonedStays DEF Kept
<1>2. ASSUME UNCHANGED <<state, fileVars>>, \A u \in Task : AtWork(u) => Onwards(u) PROVE Kept(n)
  <2>1. CASE Abandoned(n)
    BY <1>1, <2>1
  <2>2. CASE ~ Abandoned(n)
    BY <1>0, <1>2, <2>2, QuietKeeps DEF Kept
  <2> QED BY <2>1, <2>2
<1>3. ASSUME NEW t \in Task, NEW m \in Node, WorkerStep(t, m) PROVE Kept(n)
  <2>1. CASE ~ Abandoned(n)
    BY <1>0, <1>3, <2>1, WorkerKeeps DEF Kept
  <2> QED BY <1>1, <2>1
<1>4. ASSUME NEW t \in Task,
             SaveProvision(t) \/ SaveDhcp(t) \/ SaveClean(t) \/ SaveCallback(t) \/ DeleteRows(t)
      PROVE  Kept(n)
  <2>1. ASSUME DiskInv, ~ Abandoned(n) PROVE NoReinstall(n)' \/ \E u \in Task : n \in Building(u)'
    <3>1. NoReinstall(n) \/ n \in Building(t) => NoReinstall(n)'
      BY <1>4, <2>1, SaverKeeps
    <3>2. \A u \in Task : u # t => Building(u)' = Building(u)
      BY <1>4, SaverKeeps
    <3> QED BY <1>0, <2>1, <3>1, <3>2
  <2>2. ASSUME CleanInv, ~ Abandoned(n) PROVE Bare(n)' \/ \E u \in Task : n \in Touching(u)'
    <3>1. Bare(n) \/ n \in Touching(t) => Bare(n)'
      BY <1>4, <2>2, SaverKeeps
    <3>2. \A u \in Task : u # t => Touching(u)' = Touching(u)
      BY <1>4, SaverKeeps
    <3> QED BY <1>0, <2>2, <3>1, <3>2
  <2> QED BY <1>1, <2>1, <2>2 DEF Kept
<1>5. ASSUME NEW h \in Host, Crash(h) PROVE Kept(n)
  <2>1. CASE ~ Abandoned(n)
    BY <1>0, <1>5, <2>1, CrashKeeps DEF Kept
  <2> QED BY <1>1, <2>1
<1>6. CASE UNCHANGED vars \/ \E m \in Node : Callback(m)
  <2>1. UNCHANGED <<state, fileVars, task>>
    BY <1>6 DEF vars, Callback, rowVars
  <2>2. \A u \in Task : AtWork(u) => Onwards(u)
    BY <2>1 DEF AtWork, Onwards
  <2> QED BY <1>2, <2>1, <2>2
<1>7. ASSUME NEW t \in Task PROVE ~ (PoolFull(t) \/ DbFails(t))
  BY DEF PoolFull, DbFails, OneWriter, NoOverrun
<1>8. ASSUME NEW t \in Task, HandlerStep(t) PROVE Kept(n)
  BY <1>2, <1>4, <1>8, QuietGoOn DEF HandlerStep
<1>9. ASSUME NEW t \in Task,
             \/ \E op \in Ops, S \in SUBSET Node : Request(t, op, S)
             \/ \E m \in Node, h \in Host : DeliverCallback(t, m, h)
             \/ \E m \in Node : WorkerFails(t, m)
      PROVE  Kept(n)
  BY <1>2, <1>9, QuietGoOn
<1> QED BY <1>0, <1>3, <1>5, <1>6, <1>7, <1>8, <1>9 DEF Next, Deliver

\* An unlocked node is neither abandoned nor in hand.
LEMMA FreeNode ==
  ASSUME BaseInv, NEW n \in Node, Unlocked(n)
  PROVE  ~ Abandoned(n) /\ \A t \in Task : n \notin Building(t) /\ n \notin Touching(t)
  BY AtWorkHolds DEF Abandoned, Unlocked, Building, Touching

(* With one conductor host, a deployed node is not installed again, also   *)
(* where handlers race, greenthreads raise and the host goes down.  Needs  *)
(* that no transaction fails and no greenthread outlives its handler.      *)
THEOREM BootsDisk == ASSUME OneWriter PROVE Spec => []DeployedBootsDisk
<1>1. Init => DiskInv
  BY DEF Init, DiskInv, CallbackSaves, NoReinstall, Idle
<1>2. BaseInv /\ [Next]_vars => BaseInv'
  BY BaseStep DEF OneWriter
<1>3. BaseInv /\ DiskInv /\ [Next]_vars => DiskInv'
  <2> SUFFICES ASSUME BaseInv, DiskInv, [Next]_vars PROVE DiskInv'
    OBVIOUS
  <2>1. \A t \in Task : CallbackSaves(t)'
    BY CallbackSavesStep DEF DiskInv
  <2>2. \A n \in Node : Abandoned(n)' \/ NoReinstall(n)' \/ \E t \in Task : n \in Building(t)'
    BY NodeKept DEF Kept
  <2> QED BY <2>1, <2>2 DEF DiskInv
<1>4. BaseInv /\ DiskInv => DeployedBootsDisk
  BY FreeNode DEF DiskInv, NoReinstall, DeployedBootsDisk
<1> QED BY <1>1, <1>2, <1>3, <1>4, InitBase, PTL DEF Spec

(* With one conductor host, a node that clean has set back has neither the *)
(* boot configuration nor the template of its installation left.  Needs    *)
(* also that no greenthread raises: clean saves the nodes of those too.    *)
THEOREM FilesRemoved ==
  ASSUME OneWriter, "workerfail" \notin Faults
  PROVE  Spec => []CleanRemovesFiles
<1>1. Init => CleanInv
  BY DEF Init, CleanInv, NoneDead, Bare, Idle
<1>2. BaseInv /\ [Next]_vars => BaseInv'
  BY BaseStep DEF OneWriter
<1>3. BaseInv /\ CleanInv /\ [Next]_vars => CleanInv'
  <2> SUFFICES ASSUME BaseInv, CleanInv, [Next]_vars PROVE CleanInv'
    OBVIOUS
  <2>1. \A t \in Task : NoneDead(t)'
    BY NoneDeadStep DEF CleanInv
  <2>2. \A n \in Node : Abandoned(n)' \/ Bare(n)' \/ \E t \in Task : n \in Touching(t)'
    BY NodeKept DEF Kept
  <2> QED BY <2>1, <2>2 DEF CleanInv
<1>4. BaseInv /\ CleanInv => CleanRemovesFiles
  BY FreeNode DEF CleanInv, Bare, CleanRemovesFiles
<1> QED BY <1>1, <1>2, <1>3, <1>4, InitBase, PTL DEF Spec
================================================================================
