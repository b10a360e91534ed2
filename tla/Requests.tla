------------------------------ MODULE Requests ------------------------------
(***************************************************************************)
(* A request for a group of nodes on its way through the system: the API   *)
(* leaves out the nodes that are missing or locked (controllers/v1/node.py),*)
(* cuts the rest into pieces for the conductors that are listed and for    *)
(* their workers (conductor/rpcapi.py), waits for the calls, and puts one  *)
(* answer together; a conductor locks the nodes of its piece and runs a    *)
(* greenthread for each (conductor/manager.py).  Conductors die and come   *)
(* back.  The services table promises nothing about a single moment (see   *)
(* Membership), so any conductors may be listed when a request is cut, and *)
(* a call to one of them may never be taken.                               *)
(***************************************************************************)
EXTENDS Sequences, SequencesExt, FiniteSets, Naturals

CONSTANTS
    Host,           \* conductor hosts
    Request,        \* request slots of the API, each used once
    Name,           \* node names
    Table,          \* Name in the order of the nodes table
    Conductors,     \* the services table: a sequence of [host, workers] rows
    GroupCount,     \* CONF.api.per_group_count
    ApiPool,        \* calls that the API's executor takes at a time
    Menu,           \* the requests of an instance: [req, op, names] records (a bound)
    NoHost,         \* NULL affinity
    Deployments     \* what conductor_affinity may be at the start (a bound)

Exclusive == {"power", "destroy", "provision", "clean"}
Shared == {"get"}

ASSUME RequestsAssumption ==
    /\ Table \in Seq(Name) /\ IsInjective(Table) /\ Range(Table) = Name
    /\ Conductors \in Seq([host : Host, workers : Nat \ {0}])
    /\ \A h \in Host : Cardinality({i \in DOMAIN Conductors : Conductors[i].host = h}) = 1
    /\ GroupCount \in Nat /\ ApiPool \in Nat \ {0}
    /\ Menu \subseteq [req : Request, op : Exclusive \union Shared, names : (SUBSET Name) \ {{}}]
    /\ NoHost \notin Host
    /\ Deployments \subseteq [Name -> Host \union {NoHost}]

VARIABLES
    exists,         \* names of the rows in nodes
    locked,         \* names whose reservation is set
    affinity,       \* name -> conductor_affinity: the host that deploys it
    lockedSince,    \* history: reading request -> names locked since it was filtered
    req,            \* request -> what the API holds about it
    calls           \* the RPC calls: the future in the API and the handler

nodeVars == <<exists, locked, affinity, lockedSince>>
vars == <<nodeVars, req, calls>>

Value == {"missing", "locked", "noconductor", "success", "failed", "timeout", "raised", "nodhcp"}
None == "none"      \* no entry in the result

Piece == [host : Host, nodes : SUBSET Name]

Idle == [op |-> None, asked |-> {}, todo |-> {}, phase |-> "idle", left |-> {},
         answer |-> [n \in Name |-> None], done |-> {}]

TypeOK ==
    /\ exists \subseteq Name /\ locked \subseteq Name
    /\ affinity \in [Name -> Host \union {NoHost}]
    /\ lockedSince \in [Request -> SUBSET Name]
    /\ req \in [Request -> [op : Exclusive \union Shared \union {None}, asked : SUBSET Name, todo : SUBSET Name,
                            phase : {"idle", "asked", "filtered", "submitting",
                                     "network", "answered", "error", "over"},
                            left : SUBSET Piece,
                            answer : [Name -> Value \union {None}],
                            done : SUBSET Name]]
    /\ calls \subseteq [req : Request, host : Host, nodes : SUBSET Name,
                        future : {"waiting", "replied", "raised"},
                        run : {"queued", "running", "over"},
                        seen : SUBSET Name, ok : SUBSET Name, bad : SUBSET Name]
    /\ \A c \in calls : c.seen \subseteq c.nodes /\ c.ok \intersect c.bad = {}

Init ==
    /\ exists = Name
    /\ locked = {}
    /\ affinity \in Deployments
    /\ lockedSince = [r \in Request |-> {}]
    /\ req = [r \in Request |-> Idle]
    /\ calls = {}

CallsOf(r) == {c \in calls : c.req = r}

Set(answer, S, value) == [n \in Name |-> IF n \in S THEN value ELSE answer[n]]

-----------------------------------------------------------------------------
(* Cutting a group.                                                        *)

\* The elements of a sequence that are in S, in their order (SelectSeq, which
\* the proof system knows nothing of).
Kept(s, S) ==
    LET at == {i \in DOMAIN s : s[i] \in S}
    IN  [k \in 1..Cardinality(at) |->
            s[CHOOSE i \in at : Cardinality({j \in at : j < i}) = k - 1]]

\* MUTANT: the remainder of the division is not given to the last worker.
GroupsEven(nodes, workers) ==
    LET k == IF Len(nodes) < GroupCount THEN 1 ELSE workers
        share == Len(nodes) \div k
    IN  {SubSeq(nodes, (i - 1) * share + 1, i * share) : i \in 1..k} \ {<<>>}

\* spawn_worker: the names for one conductor are cut for its workers unless they
\* are few.  The last worker gets the remainder.
Groups(nodes, workers) ==
    LET k == IF Len(nodes) < GroupCount THEN 1 ELSE workers
        share == Len(nodes) \div k
        Group(i) == SubSeq(nodes, (i - 1) * share + 1, IF i < k THEN i * share ELSE Len(nodes))
    IN  {Group(i) : i \in 1..k} \ {<<>>}

RpcWorkers(cond) == IF cond.workers > 1 THEN cond.workers + 1 ELSE 1

WorkersBefore(conds, i) ==
    LET sum[k \in 0..Len(conds)] == IF k = 0 THEN 0 ELSE sum[k - 1] + RpcWorkers(conds[k])
    IN  sum[i - 1]

\* MUTANT: the begin of the slice is not moved on.
SliceFromStart(nodes, conds, i) ==
    LET share == Len(nodes) \div WorkersBefore(conds, Len(conds) + 1)
    IN  SubSeq(nodes, 1, IF i < Len(conds) THEN RpcWorkers(conds[i]) * share ELSE Len(nodes))

\* get_topic_for: each conductor but the last gets the share of its workers, and
\* the last one the rest.  A slice begins where those before it end, but it ends
\* at the size of the conductor's own share.
Slice(nodes, conds, i) ==
    LET share == Len(nodes) \div WorkersBefore(conds, Len(conds) + 1)
        first == WorkersBefore(conds, i) * share + 1
    IN  SubSeq(nodes, first, IF i < Len(conds) THEN RpcWorkers(conds[i]) * share ELSE Len(nodes))

\* spawn_rpc_worker: the pieces of a request that any conductor may do.
AnyPieces(nodes, conds) ==
    UNION {{[host |-> conds[i].host, nodes |-> Range(g)] :
              g \in Groups(Slice(nodes, conds, i), RpcWorkers(conds[i]))} : i \in DOMAIN conds}

\* get_topic_for_affinity: the nodes of a conductor in charge go there, the
\* others to the first one.
Charge(h, nodes, conds) ==
    Kept(nodes, {n \in Range(nodes) : \/ affinity[n] = h
                                      \/ affinity[n] = NoHost /\ h = conds[1].host})

\* spawn_affinity_worker.
AffinityPieces(nodes, conds) ==
    UNION {{[host |-> cond.host, nodes |-> Range(g)] :
              g \in Groups(Charge(cond.host, nodes, conds), cond.workers)} : cond \in Range(conds)}

-----------------------------------------------------------------------------
(* The API.                                                                *)

Rows(S) == Kept(Table, S)

\* The rows of services that a look-up finds up and enabled.
Listed(hosts) == Kept(Conductors, [host : hosts, workers : Nat])

\* _filter_unavailable_nodes reads the names that exist,
Ask(r, op, S) ==
    /\ req[r].phase = "idle"
    /\ [req |-> r, op |-> op, names |-> S] \in Menu
    /\ req' = [req EXCEPT ![r] = [Idle EXCEPT !.op = op, !.phase = "asked", !.asked = S,
                                  !.todo = S \intersect exists,
                                  !.answer = Set(Idle.answer, S \ exists, "missing")]]
    /\ UNCHANGED <<nodeVars, calls>>

\* MUTANT: locked nodes are reported and tried all the same.
FilterReportsOnly(r) ==
    /\ req[r].phase = "asked"
    /\ req' = [req EXCEPT ![r].phase = "filtered",
                          ![r].answer = Set(@, req[r].todo \intersect locked, "locked")]
    /\ UNCHANGED <<nodeVars, calls>>

\* and then those that are locked.
Filter(r) ==
    /\ req[r].phase = "asked"
    /\ req' = [req EXCEPT ![r].phase = "filtered", ![r].todo = @ \ locked,
                          ![r].answer = Set(@, req[r].todo \intersect locked, "locked")]
    /\ UNCHANGED <<nodeVars, calls>>

\* provision and delete answer at once when no node is left.
NothingToDo(r) ==
    /\ req[r].phase = "filtered"
    /\ req[r].todo = {} /\ req[r].op \in {"provision", "clean", "destroy"}
    /\ req' = [req EXCEPT ![r].phase = "answered"]
    /\ UNCHANGED <<nodeVars, calls>>

\* The conductors are looked up and the nodes cut into pieces.  clean tells
\* apart the nodes whose conductor is not listed, and asks the table again for
\* its nodes: one that was deleted meanwhile is not heard of any more.
Dispatch(r, listed) ==
    LET k == req[r]
        conds == Listed(listed)
        there == k.todo \intersect exists
        lost == {n \in there : affinity[n] \notin listed \union {NoHost}}
    IN  /\ k.phase = "filtered"
        /\ k.todo = {} => k.op \in {"power", "get"}
        /\ listed # {}
        /\ req' = [req EXCEPT ![r].phase = "submitting",
                              ![r].left = IF k.op = "clean" THEN AffinityPieces(Rows(there), conds)
                                                            ELSE AnyPieces(Rows(k.todo), conds),
                              ![r].answer = IF k.op = "clean" THEN Set(@, lost, "noconductor") ELSE @]
        /\ UNCHANGED <<nodeVars, calls>>

\* NoValidHost; or, for provision, an image or a network that is not there.
NotDispatched(r) ==
    /\ req[r].phase = "filtered"
    /\ req[r].todo = {} => req[r].op \in {"power", "get"}
    /\ req' = [req EXCEPT ![r].phase = "error"]
    /\ UNCHANGED <<nodeVars, calls>>

UnderWay == {c \in calls : c.future = "waiting"}

Submit(r) ==
    /\ req[r].phase = "submitting"
    /\ Cardinality(UnderWay) < ApiPool
    /\ \E p \in req[r].left :
        /\ req' = [req EXCEPT ![r].left = @ \ {p}]
        /\ calls' = calls \union
            {[req |-> r, host |-> p.host, nodes |-> p.nodes, future |-> "waiting",
              run |-> "queued", seen |-> {}, ok |-> {}, bad |-> {}]}
    /\ UNCHANGED <<nodeVars>>

Waiting(r) == req[r].phase = "submitting" /\ req[r].left = {}

\* NoFreeAPIWorker: the request fails, and its first pieces run on.
PoolFull(r) ==
    /\ req[r].phase = "submitting" /\ req[r].left # {}
    /\ Cardinality(UnderWay) >= ApiPool
    /\ req' = [req EXCEPT ![r].phase = "error", ![r].left = {}]
    /\ UNCHANGED <<nodeVars, calls>>

\* MUTANT: a node is taken to have succeeded unless its greenthread says otherwise.
ReplyHopeful(c, n) == IF n \in c.bad THEN "failed" ELSE "success"

\* The result of a handler: what its greenthreads returned or raised, and a
\* message for those it did not wait for any longer.
Reply(c, n) ==
    IF n \in c.ok THEN "success" ELSE IF n \in c.bad THEN "failed" ELSE "timeout"

\* What the future of a call says of a node of its piece: a reply has the nodes
\* that the handler saw; an exception, or not being done, is about all of them.
Outcome(c, n) ==
    IF c.future = "waiting" THEN "timeout"
    ELSE IF c.future = "raised" THEN "raised"
    ELSE IF n \in c.seen THEN Reply(c, n) ELSE None

\* MUTANT: only replies are filled in.
CollectedReplies(r) ==
    [n \in Name |->
        IF \E c \in CallsOf(r) : n \in c.nodes /\ c.future = "replied"
        THEN Outcome(CHOOSE c \in CallsOf(r) : n \in c.nodes, n)
        ELSE req[r].answer[n]]

\* _wait_rpc_result puts the answer together.
Collected(r) ==
    [n \in Name |->
        IF \E c \in CallsOf(r) : n \in c.nodes
        THEN Outcome(CHOOSE c \in CallsOf(r) : n \in c.nodes, n)
        ELSE req[r].answer[n]]

AfterWait(r) == IF req[r].op \in {"provision", "clean"} THEN "network" ELSE "answered"

\* MUTANT: a call that raised is not taken for done.
FutureDone(c) == c.future = "replied"

Done(c) == c.future # "waiting"

Collect(r) ==
    /\ Waiting(r)
    /\ \A c \in CallsOf(r) : Done(c)
    /\ req' = [req EXCEPT ![r].phase = AfterWait(r), ![r].answer = Collected(r)]
    /\ UNCHANGED <<nodeVars, calls>>

\* CONF.api.timeout passes with a call not done.
ApiTimeout(r) ==
    /\ Waiting(r)
    /\ \E c \in CallsOf(r) : c.future = "waiting"
    /\ req' = [req EXCEPT ![r].phase = AfterWait(r), ![r].answer = Collected(r)]
    /\ UNCHANGED <<nodeVars, calls>>

\* provision and clean then have the dhcp server take the new records; if that
\* fails, the error is the answer for all nodes that were tried.
Network(r, works) ==
    /\ req[r].phase = "network"
    /\ req' = [req EXCEPT ![r].phase = "answered",
                          ![r].answer = IF works THEN @ ELSE Set(@, req[r].todo, "nodhcp")]
    /\ UNCHANGED <<nodeVars, calls>>

\* The response is sent; calls that are not over are left to themselves.
Respond(r) ==
    /\ req[r].phase \in {"answered", "error"}
    /\ req' = [req EXCEPT ![r] = [Idle EXCEPT !.op = req[r].op, !.phase = "over"]]
    /\ calls' = {c \in calls : c.req # r \/ c.run # "over"}
    /\ lockedSince' = [lockedSince EXCEPT ![r] = {}]
    /\ UNCHANGED <<exists, locked, affinity>>

-----------------------------------------------------------------------------
(* The conductors.                                                         *)

\* A call is forgotten when its handler and its request are over.
Change(c, d) ==
    calls' = (calls \ {c}) \union (IF d.run = "over" /\ req[c.req].phase = "over" THEN {} ELSE {d})

\* The future in the API hears of the outcome unless it has given up.
Answered(c, outcome) == [c EXCEPT !.run = "over", !.future = IF @ = "waiting" THEN outcome ELSE @]

\* The history of the reading requests that are under way, when S is locked.
LockedMeanwhile(S) ==
    [r \in Request |-> IF req[r].op \in Shared /\ req[r].phase \in {"filtered", "submitting"}
                       THEN lockedSince[r] \union S ELSE lockedSince[r]]

\* A conductor takes a call off its queue and locks the nodes, all or none.
\* Operations that only read take no lock, and list the nodes that are there
\* and that nobody has locked.
Begin(c) ==
    /\ c.run = "queued"
    /\ IF req[c.req].op \in Shared
       THEN /\ Change(c, [c EXCEPT !.run = "running", !.seen = (c.nodes \intersect exists) \ locked])
            /\ UNCHANGED <<locked, lockedSince>>
       ELSE /\ c.nodes \subseteq exists \ locked
            /\ Change(c, [c EXCEPT !.run = "running", !.seen = c.nodes])
            /\ locked' = locked \union c.nodes
            /\ lockedSince' = LockedMeanwhile(c.nodes)
    /\ UNCHANGED <<exists, affinity, req>>

\* NodeLocked or NodeNotFound.
Refuse(c) ==
    /\ c.run = "queued"
    /\ req[c.req].op \in Exclusive
    /\ ~ c.nodes \subseteq exists \ locked
    /\ Change(c, Answered(c, "raised"))
    /\ UNCHANGED <<nodeVars, req>>

\* MUTANT: a greenthread that has ended is waited for again.
Started(c) == c.seen

\* The nodes whose greenthreads have not ended.
Unfinished(c) == c.seen \ (c.ok \union c.bad)

\* A greenthread ends, well or not; destroy_nodes has none.
GreenthreadEnds(c, n, well) ==
    /\ c.run = "running" /\ req[c.req].op # "destroy"
    /\ n \in Unfinished(c)
    /\ Change(c, IF well THEN [c EXCEPT !.ok = @ \union {n}] ELSE [c EXCEPT !.bad = @ \union {n}])
    /\ req' = IF well THEN [req EXCEPT ![c.req].done = @ \union {n}] ELSE req
    /\ UNCHANGED <<nodeVars>>

Unlocked(c) == IF req[c.req].op \in Shared THEN locked ELSE locked \ c.seen

\* MUTANT: the handler waits for its greenthreads however long they take.
WaitedForAll(c) == Unfinished(c) = {}

\* wait_for_all: all greenthreads have ended, or CONF.conductor.timeout is over.
Waited(c) == TRUE

\* The handler writes the database, unlocks the nodes and replies.
Return(c) ==
    /\ c.run = "running" /\ req[c.req].op # "destroy"
    /\ Waited(c)
    /\ affinity' = CASE req[c.req].op = "provision" ->
                          [n \in Name |-> IF n \in c.ok THEN c.host ELSE affinity[n]]
                     [] req[c.req].op = "clean" ->
                          [n \in Name |-> IF n \in c.ok THEN NoHost ELSE affinity[n]]
                     [] OTHER -> affinity
    /\ locked' = Unlocked(c)
    /\ Change(c, Answered(c, "replied"))
    /\ UNCHANGED <<exists, lockedSince, req>>

\* destroy_nodes keeps the nodes that are being deployed.
Destroy(c) ==
    LET gone == {n \in c.seen : affinity[n] = NoHost}
    IN  /\ c.run = "running" /\ req[c.req].op = "destroy"
        /\ exists' = exists \ gone
        /\ locked' = Unlocked(c)
        /\ Change(c, Answered([c EXCEPT !.ok = gone, !.bad = c.seen \ gone], "replied"))
        /\ req' = [req EXCEPT ![c.req].done = @ \union gone]
        /\ UNCHANGED <<affinity, lockedSince>>

\* No greenthread is free, the image cannot be fetched, the database fails.
Raise(c) ==
    /\ c.run = "running"
    /\ locked' = Unlocked(c)
    /\ Change(c, Answered(c, "raised"))
    /\ UNCHANGED <<exists, affinity, lockedSince, req>>

\* MessagingTimeout in the API; the message, if nobody took it, expires with it.
CallTimesOut(c) ==
    /\ c.future = "waiting"
    /\ Change(c, [c EXCEPT !.future = "raised", !.run = IF @ = "queued" THEN "over" ELSE @])
    /\ UNCHANGED <<nodeVars, req>>

\* A conductor dies with its handlers; what they locked stays locked.
Die(h) ==
    /\ \E c \in calls : c.host = h /\ c.run = "running"
    /\ calls' = {IF c.host = h /\ c.run = "running" THEN [c EXCEPT !.run = "over"] ELSE c :
                   c \in calls \ {d \in calls : d.host = h /\ d.run = "running" /\ req[d.req].phase = "over"}}
    /\ UNCHANGED <<nodeVars, req>>

-----------------------------------------------------------------------------
ApiGoesOn(r) ==
    \/ Filter(r) \/ NothingToDo(r) \/ NotDispatched(r)
    \/ \E L \in SUBSET Host : Dispatch(r, L)
    \/ Submit(r) \/ PoolFull(r) \/ Collect(r)
    \/ \E works \in BOOLEAN : Network(r, works)
    \/ Respond(r)

HandlerStep(c) ==
    \/ Begin(c) \/ Refuse(c) \/ Return(c) \/ Destroy(c) \/ Raise(c)
    \/ \E n \in Name, well \in BOOLEAN : GreenthreadEnds(c, n, well)

Next ==
    \/ \E m \in Menu : Ask(m.req, m.op, m.names)
    \/ \E r \in Request : ApiGoesOn(r) \/ ApiTimeout(r)
    \/ \E c \in calls : HandlerStep(c) \/ CallTimesOut(c)
    \/ \E h \in Host : Die(h)

Spec == Init /\ [][Next]_vars

\* The API's greenthreads go on, RPC calls time out, and so does the wait of a
\* handler; no greenthread of a handler is obliged to end.  Requests are used
\* once, so there is nothing that could happen for ever in the place of another.
Fairness ==
    WF_vars(\/ \E c \in calls : CallTimesOut(c) \/ Return(c) \/ Destroy(c)
            \/ \E r \in Request : ApiGoesOn(r))

FairSpec == Spec /\ Fairness

-----------------------------------------------------------------------------
Over(r) == req[r].phase \in {"answered", "error", "over"}

IsPartition(pieces, S) ==
    /\ UNION {p.nodes : p \in pieces} = S
    /\ \A p, q \in pieces : p # q => p.nodes \intersect q.nodes = {}

AnyCutsArePartitions ==
    \A len \in 0..(4 * GroupCount), conds \in SeqOf([host : Host, workers : 1..3], 2) :
        conds # <<>> /\ IsInjective([i \in DOMAIN conds |-> conds[i].host]) =>
            IsPartition(AnyPieces([i \in 1..len |-> i], conds), 1..len)

(* The pieces for one or two conductors are a partition of the nodes,       *)
(* however many nodes and workers there are; and so are the pieces of clean *)
(* and the nodes whose conductor is not listed.  No node is left out or     *)
(* done twice.                                                              *)
CutsArePartitions ==
    /\ AnyCutsArePartitions
    /\ \A i \in DOMAIN Conductors :
        LET cond == Conductors[i]
            mine == {n \in exists : affinity[n] \in {cond.host, NoHost}}
        IN  IsPartition(AffinityPieces(Rows(exists), <<cond>>), mine)

(* No two calls of a request are for the same node.                         *)
OneCallPerNode ==
    \A c, d \in calls : c.req = d.req /\ c # d => c.nodes \intersect d.nodes = {}

(* Every node a request names is in its answer, whatever conductors came,   *)
(* went or were late.  Passed over are only a node that was deleted         *)
(* meanwhile, by an operation that locks nothing or asks the table again,   *)
(* and, by one that only reads, a node that somebody locked after the API   *)
(* found it free: the conductor lists the free ones.                        *)
AnswerCoversAll ==
    \A r \in Request : req[r].phase = "answered" =>
        \A n \in req[r].asked : req[r].answer[n] = None =>
            \/ req[r].op \in {"get", "clean"} /\ n \notin exists
            \/ req[r].op = "get" /\ n \in lockedSince[r]

(* Success is claimed only for a node whose greenthread, run for this very  *)
(* request, ended well (or whose row the handler deleted).                  *)
AnswerIsTrue ==
    \A r \in Request : req[r].phase = "answered" =>
        \A n \in Name : req[r].answer[n] = "success" => n \in req[r].done

(* A node that was refused as missing, locked or without conductor is not   *)
(* sent to any conductor.                                                   *)
RefusedIsUntouched ==
    \A c \in calls : \A n \in c.nodes :
        req[c.req].answer[n] \notin {"missing", "locked", "noconductor"}

(* Every request is answered, though conductors die and greenthreads hang.  *)
RequestAnswered == \A r \in Request : req[r].phase # "idle" ~> Over(r)

(* Every handler ends, and unlocks, though its greenthreads hang.           *)
HandlersEnd ==
    \A r \in Request :
        (\E c \in CallsOf(r) : c.run = "running") ~> (\A c \in CallsOf(r) : c.run # "running")
=============================================================================
