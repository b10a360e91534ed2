----------------------------- MODULE DhcpService -----------------------------
(***************************************************************************)
(* The network service: each of its hosts runs a dhcpd whose configuration *)
(* is generated from the dhcp table, which the conductors write, and from  *)
(* the networks table, which the API writes (network/dhcp.py, manager.py,  *)
(* rpcapi.py).  A generation waits for the database, while other           *)
(* greenthreads of the service run, and then writes the file and restarts  *)
(* dhcpd in one go, busy waiting.  The service and its dhcpd die apart     *)
(* from each other.  A service is told of changes and asked for support    *)
(* only while its row in the services table is young enough.               *)
(***************************************************************************)
EXTENDS Naturals

CONSTANTS
    Host,           \* hosts with a network service
    Net,            \* names of networks
    Row,            \* what a row of networks may say of its network
    Local,          \* Host -> the networks with such rows it has an interface in
    Name,           \* node names
    Request,        \* provision and clean requests, each used once
    Cleans,         \* the clean requests among them
    NameOf,         \* Request -> its node
    SubnetOf,       \* Request -> the subnet it asks for, or NoNet
    NoNet, NoRow, NoRequest, NoHost,
    NoConf,         \* no dhcpd runs
    MaxChanges,     \* changes of the networks table (bound)
    Faults          \* the adverse events an instance includes

NetworkFaults ==
    {"startfails",  \* dhcpd ends with an error, or cannot be executed
     "crash",       \* a network service dies, its dhcpd lives on
     "lapse",       \* heartbeats of a living service fail for too long
     "timeout"}     \* the API stops waiting for a service

ASSUME DhcpAssumption ==
    /\ Local \in [Host -> SUBSET (Net \X Row)]
    /\ Cleans \subseteq Request
    /\ NameOf \in [Request -> Name]
    /\ SubnetOf \in [Request -> Net \union {NoNet}]
    /\ NoConf \notin [records : [Name -> Request \union {NoRequest}], subnets : SUBSET (Net \X Row)]
    /\ Request \intersect (0..MaxChanges) = {}
    /\ NoNet \notin Net /\ NoRow \notin Row /\ NoRequest \notin Request /\ NoHost \notin Host
    /\ MaxChanges \in Nat
    /\ Faults \subseteq NetworkFaults

VARIABLES
    records,        \* name -> the request that wrote its row in dhcp, or NoRequest
    networks,       \* network -> what its row says, or NoRow
    changes,        \* how often networks was changed
    toCast,         \* the changes that are not broadcast yet
    casts,          \* host -> the changes whose restart_dhcp is in its queue
    req,            \* request -> how far the API is with it, and with which host
    up,             \* hosts whose service takes messages
    listed,         \* hosts whose row is younger than heartbeat_timeout
    subnets,        \* host -> the networks in its subnet_opts, as it has read them
    pobj,           \* hosts whose service holds a dhcp_pobj
    file,           \* host -> dhcpd.conf
    daemon,         \* host -> the configuration a running dhcpd serves, or NoConf
    gens,           \* generations under way
    mixed,          \* history: host -> what the last generations interleaved on
    unheard         \* history: host -> the changes since it last listed the
                    \* networks that were not cast to it

tableVars == <<records, networks, changes>>
apiVars == <<toCast, casts, req>>
dhcpdVars == <<pobj, file, daemon>>
vars == <<tableVars, apiVars, up, listed, subnets, dhcpdVars, gens, mixed, unheard>>

Conf == [records : [Name -> Request \union {NoRequest}], subnets : SUBSET (Net \X Row)]

\* The cause of a generation: a request, a change of networks, or the start of
\* the service.
Boot == 0
Cause == Request \union 0..MaxChanges

Generation == [host : Host, for : Cause,
               step : {"list", "subnets", "read", "write"},
               networks : [Net -> Row \union {NoRow}],
               records : [Name -> Request \union {NoRequest}],
               alone : BOOLEAN]

TypeOK ==
    /\ records \in [Name -> Request \union {NoRequest}]
    /\ networks \in [Net -> Row \union {NoRow}]
    /\ changes \in 0..MaxChanges
    /\ toCast \subseteq 1..MaxChanges
    /\ casts \in [Host -> SUBSET (1..MaxChanges)]
    /\ req \in [Request -> [phase : {"idle", "written", "asking", "supported", "enabling",
                                     "ok", "failed"},
                            left : SUBSET Host,
                            host : Host \union {NoHost}]]
    /\ up \subseteq Host /\ listed \subseteq Host /\ pobj \subseteq Host
    /\ subnets \in [Host -> SUBSET (Net \X Row)]
    /\ \A h \in Host : \A a, b \in subnets[h] : a[1] = b[1] => a = b
    /\ file \in [Host -> Conf]
    /\ daemon \in [Host -> Conf \union {NoConf}]
    /\ gens \subseteq Generation
    /\ mixed \in [Host -> SUBSET {"records", "subnets"}]
    /\ unheard \in [Host -> SUBSET (1..MaxChanges)]

NoRecords == [n \in Name |-> NoRequest]
NoNetworks == [net \in Net |-> NoRow]

Init ==
    /\ records = NoRecords
    /\ networks \in [Net -> Row \union {NoRow}]
    /\ changes = 0
    /\ toCast = {}
    /\ casts = [h \in Host |-> {}]
    /\ req = [q \in Request |-> [phase |-> "idle", left |-> {}, host |-> NoHost]]
    /\ up = {} /\ listed = {} /\ pobj = {}
    /\ subnets = [h \in Host |-> {}]
    /\ file = [h \in Host |-> [records |-> NoRecords, subnets |-> {}]]
    /\ daemon = [h \in Host |-> NoConf]
    /\ gens = {}
    /\ mixed = [h \in Host |-> {}]
    /\ unheard = [h \in Host |-> {}]

-----------------------------------------------------------------------------
(* Generations.                                                            *)

GensOf(h) == {g \in gens : g.host = h}
Relists(g) == g.for \notin Request

\* MUTANT: only the start of a service lists the networks.
StartsAtBoot(cause) == IF cause = Boot THEN "list" ELSE "read"

\* Where a generation starts: enable_dhcp_option leaves the subnets as they are.
StartsAt(cause) == IF cause \in Request THEN "read" ELSE "list"

\* A generation joins those under way on its host.
Begin(h, cause) ==
    LET g == [host |-> h, for |-> cause, step |-> StartsAt(cause),
              networks |-> NoNetworks, records |-> NoRecords, alone |-> GensOf(h) = {}]
    IN  /\ gens' = (gens \ GensOf(h)) \union {g}
                     \union {[o EXCEPT !.alone = FALSE] : o \in GensOf(h)}
        /\ mixed' = [mixed EXCEPT ![h] = @ \union
                        (IF GensOf(h) # {} THEN {"records"} ELSE {}) \union
                        (IF Relists(g) /\ \E o \in GensOf(h) : Relists(o) THEN {"subnets"} ELSE {})]

Step(g, d) == gens' = (gens \ {g}) \union {d}

\* _restart_dhcp reads the networks; what has changed by now, it has heard of.
ListNetworks(g) ==
    /\ g.step = "list"
    /\ Step(g, [g EXCEPT !.step = "subnets", !.networks = networks])
    /\ unheard' = [unheard EXCEPT ![g.host] = {}]
    /\ UNCHANGED <<tableVars, apiVars, up, listed, subnets, dhcpdVars, mixed>>

\* The networks that have a row, with what it says.
RowsOf(nets) == {<<net, nets[net]>> : net \in {n \in Net : nets[n] # NoRow}}

\* MUTANT: the list is not cleared before.
AddedSubnets(g) == subnets[g.host] \union (RowsOf(g.networks) \intersect Local[g.host])

\* clear_subnet, and add_subnet for every network with an interface here.
NewSubnets(g) == RowsOf(g.networks) \intersect Local[g.host]

SetSubnets(g) ==
    /\ g.step = "subnets"
    /\ subnets' = [subnets EXCEPT ![g.host] = NewSubnets(g)]
    /\ Step(g, [g EXCEPT !.step = "read"])
    /\ UNCHANGED <<tableVars, apiVars, up, listed, dhcpdVars, mixed, unheard>>

\* build_conf reads the dhcp table.
ReadRecords(g) ==
    /\ g.step = "read"
    /\ Step(g, [g EXCEPT !.step = "write", !.records = records])
    /\ UNCHANGED <<tableVars, apiVars, up, listed, subnets, dhcpdVars, mixed, unheard>>

\* The dhcpd of an earlier life of the service: stop finds its pid in the file
\* and kills it, but it is no child of this process and is not waited for.
Orphan(h) == h \notin pobj /\ daemon[h] # NoConf

\* How start may go: dhcpd runs; it ends with an error, which is logged and
\* forgotten; it cannot be executed, which raises DHCPProcessError.
StartOutcomes(h) ==
    {"runs"} \union (IF Orphan(h) THEN {"exits"} ELSE {})
             \union (IF "startfails" \in Faults THEN {"exits", "raises"} ELSE {})

\* What becomes of those who wait for the generation: the request that asked for
\* it, or the service itself, which takes messages once it is initialised.
Answer(g, outcome) ==
    /\ req' = IF g.for \in Request /\ req[g.for].phase = "enabling"
              THEN [req EXCEPT ![g.for].phase = IF outcome = "raises" THEN "failed" ELSE "ok"]
              ELSE req
    /\ up' = IF g.for = Boot /\ outcome # "raises" THEN up \union {g.host} ELSE up

\* A generation that ran alone leaves what is in the tables.
Settled(g) ==
    [mixed EXCEPT ![g.host] = IF ~g.alone THEN @ ELSE IF Relists(g) THEN {} ELSE @ \ {"records"}]

\* MUTANT: dhcpd is restarted before its file is written.
WriteAfterRestart(g, outcome) ==
    LET h == g.host
        conf == [records |-> g.records, subnets |-> subnets[h]]
    IN  /\ g.step = "write" /\ outcome \in StartOutcomes(h)
        /\ file' = [file EXCEPT ![h] = conf]
        /\ daemon' = [daemon EXCEPT ![h] = IF outcome = "runs" THEN file[h] ELSE NoConf]
        /\ pobj' = IF outcome = "runs" THEN pobj \union {h} ELSE pobj \ {h}
        /\ gens' = gens \ {g}
        /\ mixed' = Settled(g)
        /\ Answer(g, outcome)
        /\ UNCHANGED <<tableVars, toCast, casts, listed, subnets, unheard>>

\* build_conf writes the file with the subnets that are set by now; restart
\* stops dhcpd and starts it again.  Nothing here lets another greenthread run.
WriteAndRestart(g, outcome) ==
    LET h == g.host
        conf == [records |-> g.records, subnets |-> subnets[h]]
    IN  /\ g.step = "write" /\ outcome \in StartOutcomes(h)
        /\ file' = [file EXCEPT ![h] = conf]
        /\ daemon' = [daemon EXCEPT ![h] = IF outcome = "runs" THEN conf ELSE NoConf]
        /\ pobj' = IF outcome = "runs" THEN pobj \union {h} ELSE pobj \ {h}
        /\ gens' = gens \ {g}
        /\ mixed' = Settled(g)
        /\ Answer(g, outcome)
        /\ UNCHANGED <<tableVars, toCast, casts, listed, subnets, unheard>>

-----------------------------------------------------------------------------
(* The life of a service.                                                  *)

\* NetworkManager.__init__ generates before the RPC server starts.
BootService(h) ==
    /\ h \notin up /\ \A g \in GensOf(h) : g.for # Boot
    /\ Begin(h, Boot)
    /\ UNCHANGED <<tableVars, apiVars, up, listed, subnets, dhcpdVars, unheard>>

\* Its row is renewed: when init_host registers it, which is after the networks
\* were listed and the RPC server started, when the keepalive touches it, and
\* when the service unregisters.
Renew(h) ==
    /\ h \in up
    /\ listed' = listed \union {h}
    /\ UNCHANGED <<tableVars, apiVars, up, subnets, dhcpdVars, gens, mixed, unheard>>

\* heartbeat_timeout passes since its row was renewed.
Lapse(h) ==
    /\ h \in listed
    /\ h \notin up \/ "lapse" \in Faults
    /\ listed' = listed \ {h}
    /\ UNCHANGED <<tableVars, apiVars, up, subnets, dhcpdVars, gens, mixed, unheard>>

\* It dies, or stops: neither ends dhcpd, and get_services does not look at
\* the column online.
Crash(h) ==
    /\ "crash" \in Faults
    /\ h \in up \/ GensOf(h) # {}
    /\ up' = up \ {h}
    /\ gens' = gens \ GensOf(h)
    /\ pobj' = pobj \ {h}
    /\ subnets' = [subnets EXCEPT ![h] = {}]
    /\ UNCHANGED <<tableVars, apiVars, listed, file, daemon, mixed, unheard>>

-----------------------------------------------------------------------------
(* Networks: the API changes the table and broadcasts restart_dhcp.        *)

\* post, delete or patch of NetworkController, up to the commit of the row.
ChangeNetworks(net, row) ==
    /\ changes < MaxChanges
    /\ networks[net] # NoRow \/ row # NoRow
    /\ changes' = changes + 1
    /\ networks' = [networks EXCEPT ![net] = row]
    /\ toCast' = toCast \union {changes + 1}
    /\ unheard' = [h \in Host |-> unheard[h] \union {changes + 1}]
    /\ UNCHANGED <<records, casts, req, up, listed, subnets, dhcpdVars, gens, mixed>>

\* broadcast: a cast to every service that is listed.
Broadcast(k) ==
    /\ k \in toCast
    /\ toCast' = toCast \ {k}
    /\ casts' = [h \in Host |-> IF h \in listed THEN casts[h] \union {k} ELSE casts[h]]
    /\ unheard' = [h \in Host |-> IF h \in listed THEN unheard[h] \ {k} ELSE unheard[h]]
    /\ UNCHANGED <<tableVars, req, up, listed, subnets, dhcpdVars, gens, mixed>>

\* restart_dhcp: a service takes the message.
RestartDhcp(h, k) ==
    /\ h \in up /\ k \in casts[h]
    /\ casts' = [casts EXCEPT ![h] = @ \ {k}]
    /\ Begin(h, k)
    /\ UNCHANGED <<tableVars, toCast, req, up, listed, subnets, dhcpdVars, unheard>>

-----------------------------------------------------------------------------
(* Requests: the conductors have written the records, then the API looks   *)
(* for a service and has it enable them.                                   *)

serviceVars == <<up, listed, subnets, dhcpdVars, unheard>>

Go(q, phase) == req' = [req EXCEPT ![q].phase = phase]

\* save_or_update_dhcp, or destroy_dhcp of clean.
WriteRecord(q) ==
    /\ req[q].phase = "idle"
    /\ records' = [records EXCEPT ![NameOf[q]] = IF q \in Cleans THEN NoRequest ELSE q]
    /\ Go(q, "written")
    /\ UNCHANGED <<networks, changes, toCast, casts, serviceVars, gens, mixed>>

\* get_topic_for takes the services that are listed now,
GetServices(q) ==
    /\ req[q].phase = "written"
    /\ req' = [req EXCEPT ![q].phase = "asking", ![q].left = listed]
    /\ UNCHANGED <<tableVars, toCast, casts, serviceVars, gens, mixed>>

HasSubnet(h, net) == IF net = NoNet THEN subnets[h] # {} ELSE \E s \in subnets[h] : s[1] = net

Supports(q, h) == h \in pobj /\ HasSubnet(h, SubnetOf[q])

\* and asks one after the other, in no fixed order; check_support of the first
\* that can do it ends the search.
CheckSupport(q, h) ==
    /\ req[q].phase = "asking" /\ h \in req[q].left
    /\ h \in up
    /\ req' = [req EXCEPT ![q] = IF Supports(q, h)
                                 THEN [@ EXCEPT !.phase = "supported", !.left = {}, !.host = h]
                                 ELSE [@ EXCEPT !.left = req[q].left \ {h}]]
    /\ UNCHANGED <<tableVars, toCast, casts, serviceVars, gens, mixed>>

\* The search ends in an error: no service is listed or none supports the
\* request; the one asked does not answer; or it has no dhcp_pobj but finds a
\* pid file, and status raises AttributeError.
NoService(q) ==
    /\ req[q].phase = "asking"
    /\ \/ req[q].left = {}
       \/ \E h \in req[q].left :
              \/ h \notin up
              \/ "timeout" \in Faults
              \/ h \notin pobj /\ subnets[h] # {}
    /\ req' = [req EXCEPT ![q].phase = "failed", ![q].left = {}]
    /\ UNCHANGED <<tableVars, toCast, casts, serviceVars, gens, mixed>>

EnableDhcpOption(q) ==
    /\ req[q].phase = "supported"
    /\ req[q].host \in up
    /\ Begin(req[q].host, q)
    /\ Go(q, "enabling")
    /\ UNCHANGED <<tableVars, toCast, casts, serviceVars>>

\* The RPC call times out; what it began goes on.
CallTimesOut(q) ==
    /\ req[q].phase \in {"supported", "enabling"}
    /\ "timeout" \in Faults \/ req[q].host \notin up
    /\ Go(q, "failed")
    /\ UNCHANGED <<tableVars, toCast, casts, serviceVars, gens, mixed>>

-----------------------------------------------------------------------------
Next ==
    \/ \E g \in gens :
        \/ ListNetworks(g) \/ SetSubnets(g) \/ ReadRecords(g)
        \/ \E outcome \in {"runs", "exits", "raises"} : WriteAndRestart(g, outcome)
    \/ \E h \in Host : BootService(h) \/ Renew(h) \/ Lapse(h) \/ Crash(h)
    \/ \E net \in Net, row \in Row \union {NoRow} : ChangeNetworks(net, row)
    \/ \E k \in 1..MaxChanges : Broadcast(k) \/ \E h \in Host : RestartDhcp(h, k)
    \/ \E q \in Request :
        \/ WriteRecord(q) \/ GetServices(q) \/ NoService(q)
        \/ EnableDhcpOption(q) \/ CallTimesOut(q)
        \/ \E h \in Host : CheckSupport(q, h)

Spec == Init /\ [][Next]_vars

-----------------------------------------------------------------------------
(* When a request is answered as done, the dhcpd of the service that was    *)
(* asked serves the record of its node, and goes on to serve it whatever    *)
(* other requests, network changes and restarts of the service follow: as   *)
(* long as the record is in the table, dhcpd runs, and no two generations   *)
(* ran into each other since one ran alone.                                 *)
AnsweredIsServed ==
    \A q \in Request :
        LET h == req[q].host
        IN  /\ req[q].phase = "ok"
            /\ records[NameOf[q]] = q
            /\ daemon[h] # NoConf /\ "records" \notin mixed[h]
            => daemon[h].records[NameOf[q]] = q

(* A service that has worked off what was cast to it, and to which every     *)
(* change of the networks since it last listed them was cast, has the       *)
(* subnets of the networks table that it has an interface in, and its dhcpd  *)
(* serves them, whatever services died in between; unless two restarts       *)
(* listed the networks at the same time.                                     *)
SubnetsFollowNetworks ==
    \A h \in up :
        unheard[h] = {} /\ casts[h] = {} /\ GensOf(h) = {} /\ "subnets" \notin mixed[h] =>
            LET here == RowsOf(networks) \intersect Local[h]
            IN  subnets[h] = here /\ (daemon[h] # NoConf => daemon[h].subnets = here)
=============================================================================
