--------------------------- MODULE ServiceRegistry ---------------------------
(***************************************************************************)
(* The life of the conductor and network services: the processes of a host *)
(* (cmd/conductor.py launches several, all with the host's one row in the  *)
(* services table), their registration, the keepalive greenthread of each, *)
(* the orderly stop and the crash (common/rpc_service.py, conductor and    *)
(* network/base_manager.py), and what get_services and Service.list make   *)
(* of the rows.  Time passes in Tick; a row is as old as its updated_at.   *)
(***************************************************************************)
EXTENDS Naturals, FiniteSets

CONSTANTS
    Host,        \* (hostname, type) pairs: one row each
    Worker,      \* processes
    HostOf,      \* Worker -> Host
    Interval,    \* CONF.heartbeat_interval, in ticks
    Timeout,     \* CONF.heartbeat_timeout, in ticks
    Faults       \* the adverse events an instance includes

ServiceFaults ==
    {"regerror",    \* a registration fails, not because of the row
     "connection",  \* the database does not answer a heartbeat
     "dberror",     \* a heartbeat fails in another way
     "poolfull",    \* no greenthread is left for the keepalive
     "crash"}       \* a process dies

ASSUME RegistryAssumption ==
    /\ HostOf \in [Worker -> Host]
    /\ Interval \in Nat \ {0} /\ Timeout \in Nat /\ Interval < Timeout
    /\ Faults \subseteq ServiceFaults

VARIABLES
    row,         \* host -> its row: there or not, online, age (Timeout: too old)
    phase,       \* worker -> where the process is in its life
    keepalive,   \* worker -> where its keepalive greenthread is
    clock,       \* worker -> ticks since the keepalive began to wait
    misses,      \* worker -> heartbeats lost in a row (Timeout: none got through yet, or more)
    deregister   \* worker -> RPCService.deregister: SIGUSR1 turns it off

procVars == <<phase, keepalive, clock, misses, deregister>>
vars == <<row, procVars>>

Phase == {"down", "starting", "inserting", "again", "reinserting", "registered",
          "running", "draining", "leaving", "waiting", "failed"}

TypeOK ==
    /\ row \in [Host -> [there : BOOLEAN, online : BOOLEAN, age : 0..Timeout]]
    /\ phase \in [Worker -> Phase]
    /\ keepalive \in [Worker -> {"none", "checking", "touching", "waiting", "ended"}]
    /\ clock \in [Worker -> 0..Interval]
    /\ misses \in [Worker -> 0..Timeout]
    /\ deregister \in [Worker -> BOOLEAN]

Init ==
    /\ row = [h \in Host |-> [there |-> FALSE, online |-> FALSE, age |-> Timeout]]
    /\ phase = [w \in Worker |-> "down"]
    /\ keepalive = [w \in Worker |-> "none"]
    /\ clock = [w \in Worker |-> 0]
    /\ misses = [w \in Worker |-> 0]
    /\ deregister = [w \in Worker |-> TRUE]

Renewed == [there |-> TRUE, online |-> TRUE, age |-> 0]

\* get_services: whom requests are sent to.  It looks at the age alone.
Listed(h) == row[h].there /\ row[h].age < Timeout

\* Service.list: what GET /services shows.
ShownOnline(h) == row[h].there /\ row[h].online /\ row[h].age < Timeout

-----------------------------------------------------------------------------
(* Starting: RPCService.start and init_host.                               *)

\* The RPC server listens before the manager is initialised.
Launch(w) ==
    /\ phase[w] = "down"
    /\ phase' = [phase EXCEPT ![w] = "starting"]
    /\ deregister' = [deregister EXCEPT ![w] = TRUE]
    /\ UNCHANGED <<row, keepalive, clock, misses>>

\* register_service, called by init_host: first as it is and, when that is
\* answered by ServiceAlreadyRegistered, once more with update_existing.  The
\* row is looked for and taken over: the first time only if it is offline.
LookUp(w) ==
    LET h == HostOf[w]
        first == phase[w] = "starting"
    IN  /\ phase[w] \in {"starting", "again"}
        /\ \/ /\ ~row[h].there
              /\ phase' = [phase EXCEPT ![w] = IF first THEN "inserting" ELSE "reinserting"]
              /\ UNCHANGED row
           \/ /\ row[h].there /\ row[h].online /\ first
              /\ phase' = [phase EXCEPT ![w] = "again"]
              /\ UNCHANGED row
           \/ /\ row[h].there /\ (row[h].online => ~first)
              /\ phase' = [phase EXCEPT ![w] = "registered"]
              /\ row' = [row EXCEPT ![h] = Renewed]
        /\ UNCHANGED <<keepalive, clock, misses, deregister>>

\* No row was found: it is inserted, which fails when a sibling inserted first
\* ("Duplicate entry"); Service.register reports that as ServiceAlreadyRegistered.
\* Of the second call nobody catches it: start fails and the process exits.
InsertRow(w) ==
    LET h == HostOf[w]
    IN  /\ phase[w] \in {"inserting", "reinserting"}
        /\ \/ /\ ~row[h].there
              /\ phase' = [phase EXCEPT ![w] = "registered"]
              /\ row' = [row EXCEPT ![h] = Renewed]
           \/ /\ row[h].there
              /\ phase' = [phase EXCEPT ![w] = IF phase[w] = "inserting" THEN "again"
                                               ELSE "failed"]
              /\ UNCHANGED row
        /\ UNCHANGED <<keepalive, clock, misses, deregister>>

\* Any other error of either call is raised again by Service.register and by
\* init_host: start fails, whatever the row is.
RegisterFails(w) ==
    /\ "regerror" \in Faults
    /\ phase[w] \in {"starting", "inserting", "again", "reinserting"}
    /\ phase' = [phase EXCEPT ![w] = "down"]
    /\ UNCHANGED <<row, keepalive, clock, misses, deregister>>

SpawnKeepalive(w) ==
    /\ phase[w] = "registered"
    /\ phase' = [phase EXCEPT ![w] = "running"]
    /\ keepalive' = [keepalive EXCEPT ![w] = "checking"]
    /\ misses' = [misses EXCEPT ![w] = Timeout]
    /\ clock' = [clock EXCEPT ![w] = 0]
    /\ UNCHANGED <<row, deregister>>

\* NoFreeServiceWorker: del_host, and start fails.
NoKeepalive(w) ==
    /\ "poolfull" \in Faults
    /\ phase[w] = "registered"
    /\ phase' = [phase EXCEPT ![w] = "leaving"]
    /\ UNCHANGED <<row, keepalive, clock, misses, deregister>>

-----------------------------------------------------------------------------
(* Running: _service_record_keepalive.                                     *)

StopRequested(w) == phase[w] = "waiting"

\* The loop's condition: the event of del_host is not set.
CheckEvent(w) ==
    /\ keepalive[w] = "checking"
    /\ keepalive' = [keepalive EXCEPT ![w] = IF StopRequested(w) THEN "ended" ELSE "touching"]
    /\ UNCHANGED <<row, phase, clock, misses, deregister>>

\* MUTANT: the heartbeat does not set online.
TouchedAge(h) == [row EXCEPT ![h].age = 0]

\* touch_service: renewed and online again, whoever marked it offline.
Touched(h) == [row EXCEPT ![h] = [there |-> row[h].there, online |-> TRUE, age |-> 0]]

Touch(w) ==
    /\ keepalive[w] = "touching"
    /\ row' = Touched(HostOf[w])
    /\ keepalive' = [keepalive EXCEPT ![w] = "waiting"]
    /\ clock' = [clock EXCEPT ![w] = 0]
    /\ misses' = [misses EXCEPT ![w] = 0]
    /\ UNCHANGED <<phase, deregister>>

\* MUTANT: every error ends the loop.
LoopSurvivesNone(e) == FALSE

\* DBConnectionError is logged and the loop goes on; any other error ends the
\* greenthread, and the process serves on without it.
LoopSurvives(e) == e = "connection"

TouchFails(w) ==
    \E e \in Faults \intersect {"connection", "dberror"} :
        /\ keepalive[w] = "touching"
        /\ keepalive' = [keepalive EXCEPT ![w] = IF LoopSurvives(e) THEN "waiting" ELSE "ended"]
        /\ clock' = [clock EXCEPT ![w] = 0]
        /\ misses' = [misses EXCEPT ![w] = IF @ < Timeout THEN @ + 1 ELSE @]
        /\ UNCHANGED <<row, phase, deregister>>

\* MUTANT: the loop waits for heartbeat_timeout.
WokenLate(w) == clock[w] = Timeout \/ StopRequested(w)

\* The wait ends after the interval, or at once when the event is set.
Woken(w) == clock[w] = Interval \/ StopRequested(w)

WakeUp(w) ==
    /\ keepalive[w] = "waiting"
    /\ Woken(w)
    /\ keepalive' = [keepalive EXCEPT ![w] = "checking"]
    /\ UNCHANGED <<row, phase, clock, misses, deregister>>

\* Time passes; a heartbeat that is due is not put off.
Tick ==
    /\ \A w \in Worker : keepalive[w] \notin {"checking", "touching"}
    /\ \A w \in Worker : keepalive[w] = "waiting" => ~Woken(w)
    /\ row' = [h \in Host |-> IF row[h].age < Timeout
                              THEN [row[h] EXCEPT !.age = @ + 1] ELSE row[h]]
    /\ clock' = [w \in Worker |-> IF keepalive[w] = "waiting" THEN clock[w] + 1 ELSE clock[w]]
    /\ UNCHANGED <<phase, keepalive, misses, deregister>>

-----------------------------------------------------------------------------
(* Stopping: RPCService.stop and del_host.                                 *)

\* SIGUSR1: the next stop leaves the row alone.
Signal(w) ==
    /\ phase[w] = "running"
    /\ deregister' = [deregister EXCEPT ![w] = FALSE]
    /\ UNCHANGED <<row, phase, keepalive, clock, misses>>

\* The RPC server stops; requests under way end.
StopServer(w) ==
    /\ phase[w] = "running"
    /\ phase' = [phase EXCEPT ![w] = "draining"]
    /\ UNCHANGED <<row, keepalive, clock, misses, deregister>>

\* MUTANT: the service that stops deletes the row.
DelHostDeletes(w) ==
    LET h == HostOf[w]
    IN  /\ phase[w] \in {"draining", "leaving"}
        /\ phase' = [phase EXCEPT ![w] = "waiting"]
        /\ row' = IF deregister[w] THEN [row EXCEPT ![h].there = FALSE] ELSE row
        /\ UNCHANGED <<keepalive, clock, misses, deregister>>

\* The event is set; unregister_service marks the row, if it is online
\* (ServiceNotFound otherwise, which del_host catches).
DelHost(w) ==
    LET h == HostOf[w]
    IN  /\ phase[w] \in {"draining", "leaving"}
        /\ phase' = [phase EXCEPT ![w] = "waiting"]
        /\ row' = IF deregister[w] /\ row[h].there
                  THEN [row EXCEPT ![h].online = FALSE] ELSE row
        /\ UNCHANGED <<keepalive, clock, misses, deregister>>

\* executor.shutdown(wait=True): the greenthreads have ended.
Exit(w) ==
    /\ phase[w] = "waiting"
    /\ keepalive[w] \in {"none", "ended"}
    /\ phase' = [phase EXCEPT ![w] = "down"]
    /\ keepalive' = [keepalive EXCEPT ![w] = "none"]
    /\ UNCHANGED <<row, clock, misses, deregister>>

\* The process dies, wherever it is.
Crash(w) ==
    /\ "crash" \in Faults
    /\ phase[w] # "down"
    /\ phase' = [phase EXCEPT ![w] = "down"]
    /\ keepalive' = [keepalive EXCEPT ![w] = "none"]
    /\ UNCHANGED <<row, clock, misses, deregister>>

-----------------------------------------------------------------------------
Next ==
    \/ Tick
    \/ \E w \in Worker :
        \/ Launch(w) \/ LookUp(w) \/ InsertRow(w) \/ RegisterFails(w)
        \/ SpawnKeepalive(w) \/ NoKeepalive(w)
        \/ CheckEvent(w) \/ Touch(w) \/ TouchFails(w) \/ WakeUp(w)
        \/ Signal(w) \/ StopServer(w) \/ DelHost(w) \/ Exit(w) \/ Crash(w)

Spec == Init /\ [][Next]_vars

\* Time passes, a process goes on with what it has begun, and the database is
\* not away for ever: of the heartbeats tried again and again one gets through.
Fairness ==
    /\ SF_vars(Tick)
    /\ \A w \in Worker :
        /\ WF_vars(LookUp(w) \/ InsertRow(w) \/ SpawnKeepalive(w))
        /\ WF_vars(CheckEvent(w) \/ WakeUp(w))
        /\ SF_vars(Touch(w))
        /\ WF_vars(DelHost(w) \/ Exit(w))

FairSpec == Spec /\ Fairness

-----------------------------------------------------------------------------
(* A running process is found by those who send requests as long as fewer   *)
(* heartbeats in a row are lost than the timeout allows for: the heartbeat  *)
(* is frequent enough, and no stop of a sibling, which marks their common   *)
(* row offline, takes it away.                                              *)
RunningStaysListed ==
    \A w \in Worker :
        phase[w] = "running" /\ (misses[w] + 1) * Interval < Timeout
            => Listed(HostOf[w])

(* A start never fails because of the row: whatever siblings that start and *)
(* stop, or processes that died, do to it between the two look-ups and the  *)
(* inserts of a registration, the second call finds the row the first one   *)
(* ran into, so its ServiceAlreadyRegistered, which nobody catches, is not  *)
(* raised.                                                                  *)
RegistrationSucceeds == \A w \in Worker : phase[w] # "failed"

(* A service that runs is shown online by GET /services: again after a      *)
(* sibling's stop, or a late one of its predecessor, has marked the row.    *)
RunningIsShownOnline ==
    \A w \in Worker :
        phase[w] = "running" ~> (phase[w] # "running" \/ ShownOnline(HostOf[w]))

(* The table implements the list of services that requests rely on: only a  *)
(* process enlists its host, hosts with a process get listed though the     *)
(* database is away for a while, and hosts without one are dropped.         *)
Promise == INSTANCE Membership WITH
    listed <- {h \in Host : Listed(h)},
    alive <- {w \in Worker : phase[w] \notin {"down", "failed"}}

ImplementsMembership == Promise!MembershipSpec
=============================================================================
