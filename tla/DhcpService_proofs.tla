-------------------------- MODULE DhcpService_proofs --------------------------
(***************************************************************************)
(* Theorems about the network service, for any number of hosts, networks,  *)
(* names and requests.                                                     *)
(***************************************************************************)
EXTENDS DhcpService, TLAPS

\* The initial state is well typed.
LEMMA InitTypeOK == Init => TypeOK
<1> SUFFICES ASSUME Init PROVE TypeOK
  OBVIOUS
<1> USE DhcpAssumption DEF DhcpAssumption
<1>1. NoRecords \in [Name -> Request \union {NoRequest}]
  BY DEF NoRecords
<1>2. req \in [Request -> [phase : {"idle", "written", "asking", "supported", "enabling", "ok", "failed"},
                           left : SUBSET Host, host : Host \union {NoHost}]]
  BY DEF Init
<1>3. /\ subnets \in [Host -> SUBSET (Net \X Row)]
      /\ \A h \in Host : \A a, b \in subnets[h] : a[1] = b[1] => a = b
  BY DEF Init
<1>4. file \in [Host -> Conf]
  BY <1>1 DEF Init, Conf
<1>5. /\ records \in [Name -> Request \union {NoRequest}] /\ networks \in [Net -> Row \union {NoRow}]
      /\ changes \in 0..MaxChanges /\ toCast = {} /\ gens = {}
      /\ up = {} /\ listed = {} /\ pobj = {}
  BY <1>1 DEF Init
<1>6. /\ daemon \in [Host -> Conf \union {NoConf}]
      /\ casts \in [Host -> SUBSET (1..MaxChanges)] /\ unheard \in [Host -> SUBSET (1..MaxChanges)]
      /\ mixed \in [Host -> SUBSET {"records", "subnets"}]
  BY DEF Init
<1> QED BY <1>2, <1>3, <1>4, <1>5, <1>6 DEF TypeOK

\* What the steps of a generation make of it.
LEMMA GenerationSteps ==
  ASSUME NEW g \in Generation, NEW S \in [Net -> Row \union {NoRow}],
         NEW R \in [Name -> Request \union {NoRequest}]
  PROVE  /\ [g EXCEPT !.step = "subnets", !.networks = S] \in Generation
         /\ [g EXCEPT !.step = "read"] \in Generation
         /\ [g EXCEPT !.step = "write", !.records = R] \in Generation
         /\ [g EXCEPT !.alone = FALSE] \in Generation
  BY DEF Generation

\* A generation that begins is well typed, and leaves the others so.
LEMMA BeginType ==
  ASSUME TypeOK, NEW h \in Host, NEW c \in Cause, Begin(h, c)
  PROVE  gens' \subseteq Generation /\ mixed' \in [Host -> SUBSET {"records", "subnets"}]
<1> DEFINE new == [host |-> h, for |-> c, step |-> StartsAt(c),
                   networks |-> NoNetworks, records |-> NoRecords, alone |-> GensOf(h) = {}]
<1>1. new \in Generation
  <2>1. NoRecords \in [Name -> Request \union {NoRequest}]
    BY DEF NoRecords
  <2>2. NoNetworks \in [Net -> Row \union {NoRow}]
    BY DEF NoNetworks
  <2>3. (GensOf(h) = {}) \in BOOLEAN /\ StartsAt(c) \in {"list", "read"}
    BY DEF StartsAt
  <2> QED BY <2>1, <2>2, <2>3 DEF Generation
<1>2. \A o \in GensOf(h) : [o EXCEPT !.alone = FALSE] \in Generation
  BY GenerationSteps DEF TypeOK, GensOf
<1>3. gens' \subseteq Generation
  <2>1. gens' = (gens \ GensOf(h)) \union {new}
                  \union {[o EXCEPT !.alone = FALSE] : o \in GensOf(h)}
    BY DEF Begin
  <2>2. gens \subseteq Generation
    BY DEF TypeOK
  <2> HIDE DEF new
  <2> QED BY <1>1, <1>2, <2>1, <2>2
<1>4. mixed' \in [Host -> SUBSET {"records", "subnets"}]
  BY DEF Begin, TypeOK
<1> QED BY <1>3, <1>4

\* What a set of subnets is made of: one row at most of a network.
OneRowEach(S) == S \subseteq Net \X Row /\ \A a, b \in S : a[1] = b[1] => a = b

\* The rows of the table are such a set, and so are those with an interface.
LEMMA RowsAreSingle ==
  ASSUME NEW nets \in [Net -> Row \union {NoRow}], NEW S
  PROVE  OneRowEach(RowsOf(nets) \intersect S)
<1>1. \A a \in RowsOf(nets) : a \in Net \X Row /\ a = <<a[1], nets[a[1]]>>
  BY DEF RowsOf
<1> QED BY <1>1 DEF OneRowEach

\* A request of the API.
ReqType == [phase : {"idle", "written", "asking", "supported", "enabling", "ok", "failed"},
            left : SUBSET Host, host : Host \union {NoHost}]

\* Every step keeps the types.
LEMMA TypeStep == TypeOK /\ [Next]_vars => TypeOK'
<1> SUFFICES ASSUME TypeOK, [Next]_vars PROVE TypeOK'
  OBVIOUS
<1> USE DEF tableVars, apiVars, dhcpdVars
<1>0. /\ req \in [Request -> ReqType] /\ gens \subseteq Generation
      /\ records \in [Name -> Request \union {NoRequest}]
      /\ networks \in [Net -> Row \union {NoRow}]
  BY DEF TypeOK, ReqType
<1>1. ASSUME NEW g \in gens, ListNetworks(g) \/ SetSubnets(g) \/ ReadRecords(g)
      PROVE  TypeOK'
  <2>1. gens' \subseteq Generation
    <3>1. /\ [g EXCEPT !.step = "subnets", !.networks = networks] \in Generation
          /\ [g EXCEPT !.step = "read"] \in Generation
          /\ [g EXCEPT !.step = "write", !.records = records] \in Generation
      BY <1>0, GenerationSteps
    <3> QED BY <1>0, <1>1, <3>1 DEF ListNetworks, SetSubnets, ReadRecords, Step
  <2>2. /\ subnets' \in [Host -> SUBSET (Net \X Row)]
        /\ \A h \in Host : \A a, b \in subnets'[h] : a[1] = b[1] => a = b
    <3>1. OneRowEach(NewSubnets(g))
      BY <1>0, RowsAreSingle DEF NewSubnets, Generation
    <3>2. subnets' = subnets \/ subnets' = [subnets EXCEPT ![g.host] = NewSubnets(g)]
      BY <1>1 DEF ListNetworks, SetSubnets, ReadRecords
    <3> QED BY <3>1, <3>2 DEF TypeOK, OneRowEach
  <2>3. unheard' \in [Host -> SUBSET (1..MaxChanges)]
    BY <1>1 DEF ListNetworks, SetSubnets, ReadRecords, TypeOK
  <2>4. UNCHANGED <<tableVars, apiVars, up, listed, dhcpdVars, mixed>>
    BY <1>1 DEF ListNetworks, SetSubnets, ReadRecords
  <2> QED BY <2>1, <2>2, <2>3, <2>4 DEF TypeOK
<1>2. ASSUME NEW g \in gens, NEW o \in {"runs", "exits", "raises"}, WriteAndRestart(g, o)
      PROVE  TypeOK'
  <2>1. g \in Generation /\ g.host \in Host
    BY <1>0 DEF Generation
  <2>2. [records |-> g.records, subnets |-> subnets[g.host]] \in Conf
    BY <2>1 DEF Conf, Generation, TypeOK
  <2>3. file' \in [Host -> Conf] /\ daemon' \in [Host -> Conf \union {NoConf}]
    BY <1>2, <2>1, <2>2 DEF WriteAndRestart, TypeOK
  <2>4. req' \in [Request -> ReqType]
    <3>1. \A q \in Request, p \in {"ok", "failed"} : [req[q] EXCEPT !.phase = p] \in ReqType
      BY <1>0 DEF ReqType
    <3> QED BY <1>0, <1>2, <3>1 DEF WriteAndRestart, Answer
  <2>5. up' \subseteq Host /\ pobj' \subseteq Host
    BY <1>2, <2>1 DEF WriteAndRestart, Answer, TypeOK
  <2>6. mixed' \in [Host -> SUBSET {"records", "subnets"}]
    BY <1>2, <2>1 DEF WriteAndRestart, Settled, TypeOK
  <2> QED BY <1>2, <2>3, <2>4, <2>5, <2>6 DEF WriteAndRestart, TypeOK, ReqType
<1>3. ASSUME NEW h \in Host, NEW c \in Cause, Begin(h, c),
             UNCHANGED <<tableVars, toCast, up, listed, subnets, dhcpdVars, unheard>>,
             req' \in [Request -> ReqType], casts' \in [Host -> SUBSET (1..MaxChanges)]
      PROVE  TypeOK'
  BY <1>3, BeginType DEF TypeOK, ReqType
<1>4. ASSUME NEW h \in Host, BootService(h) PROVE TypeOK'
  <2>1. Boot \in Cause
    BY DhcpAssumption DEF DhcpAssumption, Boot, Cause
  <2> QED BY <1>0, <1>3, <1>4, <2>1 DEF BootService, TypeOK
<1>5. ASSUME NEW h \in Host, Crash(h) PROVE TypeOK'
  <2>1. /\ subnets' \in [Host -> SUBSET (Net \X Row)]
        /\ \A k \in Host : \A a, b \in subnets'[k] : a[1] = b[1] => a = b
    BY <1>5 DEF Crash, TypeOK
  <2> QED BY <1>5, <2>1 DEF Crash, TypeOK
<1>6. ASSUME NEW net \in Net, NEW row \in Row \union {NoRow}, ChangeNetworks(net, row) PROVE TypeOK'
  <2>1. changes + 1 \in 1..MaxChanges /\ changes + 1 \in 0..MaxChanges
    BY <1>6, DhcpAssumption DEF DhcpAssumption, ChangeNetworks, TypeOK
  <2>2. unheard' \in [Host -> SUBSET (1..MaxChanges)] /\ networks' \in [Net -> Row \union {NoRow}]
    BY <1>0, <1>6, <2>1 DEF ChangeNetworks, TypeOK
  <2> QED BY <1>6, <2>1, <2>2 DEF ChangeNetworks, TypeOK
<1>7. ASSUME NEW k \in 1..MaxChanges, Broadcast(k) PROVE TypeOK'
  <2>1. casts' \in [Host -> SUBSET (1..MaxChanges)] /\ unheard' \in [Host -> SUBSET (1..MaxChanges)]
    BY <1>7 DEF Broadcast, TypeOK
  <2> QED BY <1>7, <2>1 DEF Broadcast, TypeOK
<1>c. ASSUME NEW h \in Host, Renew(h) \/ Lapse(h) PROVE TypeOK'
  BY <1>c DEF Renew, Lapse, TypeOK
<1>8. ASSUME NEW k \in 1..MaxChanges, NEW h \in Host, RestartDhcp(h, k) PROVE TypeOK'
  <2>1. k \in Cause
    BY DhcpAssumption DEF DhcpAssumption, Cause
  <2>2. casts' \in [Host -> SUBSET (1..MaxChanges)]
    BY <1>8 DEF RestartDhcp, TypeOK
  <2> QED BY <1>0, <1>3, <1>8, <2>1, <2>2 DEF RestartDhcp
\* What a request's phase becomes.
<1>9. ASSUME NEW q \in Request, NEW p, Go(q, p),
             p \in {"written", "supported", "enabling", "failed"}
      PROVE  req' \in [Request -> ReqType]
  <2>1. [req[q] EXCEPT !.phase = p] \in ReqType
    BY <1>0, <1>9 DEF ReqType
  <2> QED BY <1>0, <1>9, <2>1 DEF Go
<1>10. ASSUME NEW q \in Request, WriteRecord(q) PROVE TypeOK'
  <2>1. req' \in [Request -> ReqType]
    BY <1>9, <1>10 DEF WriteRecord
  <2> QED BY <1>10, <2>1 DEF WriteRecord, serviceVars, TypeOK, ReqType
<1>11. ASSUME NEW q \in Request, NEW h \in Host, CheckSupport(q, h) PROVE TypeOK'
  <2>1. req[q] \in ReqType
    BY <1>0
  <2>2. /\ [req[q] EXCEPT !.phase = "supported", !.left = {}, !.host = h] \in ReqType
        /\ [req[q] EXCEPT !.left = req[q].left \ {h}] \in ReqType
    BY <2>1 DEF ReqType
  <2>3. \E r \in ReqType : req' = [req EXCEPT ![q] = r]
    BY <1>11, <2>2 DEF CheckSupport
  <2>4. req' \in [Request -> ReqType]
    BY <1>0, <2>3
  <2>5. UNCHANGED <<tableVars, toCast, casts, up, listed, subnets, dhcpdVars, gens, mixed, unheard>>
    BY <1>11 DEF CheckSupport, serviceVars
  <2> QED BY <2>4, <2>5 DEF TypeOK, ReqType, tableVars, dhcpdVars
<1>12. ASSUME NEW q \in Request, GetServices(q) \/ NoService(q) PROVE TypeOK'
  <2>1. req[q] \in ReqType /\ listed \in SUBSET Host
    BY <1>0 DEF TypeOK
  <2>2. /\ [req[q] EXCEPT !.phase = "asking", !.left = listed] \in ReqType
        /\ [req[q] EXCEPT !.phase = "failed", !.left = {}] \in ReqType
    BY <2>1 DEF ReqType
  <2>3. \E r \in ReqType : req' = [req EXCEPT ![q] = r]
    <3> DEFINE asking == [req[q] EXCEPT !.phase = "asking", !.left = listed]
               failed == [req[q] EXCEPT !.phase = "failed", !.left = {}]
    <3>1. req' = [req EXCEPT ![q] = asking] \/ req' = [req EXCEPT ![q] = failed]
      BY <1>0, <1>12 DEF GetServices, NoService
    <3>2. asking \in ReqType /\ failed \in ReqType
      BY <2>2
    <3> HIDE DEF asking, failed
    <3> QED BY <3>1, <3>2
  <2>4. req' \in [Request -> ReqType]
    BY <1>0, <2>3
  <2>5. UNCHANGED <<tableVars, toCast, casts, up, listed, subnets, dhcpdVars, gens, mixed, unheard>>
    BY <1>12 DEF GetServices, NoService, serviceVars
  <2> QED BY <2>4, <2>5 DEF TypeOK, ReqType, tableVars, dhcpdVars
<1>d. ASSUME NEW q \in Request, CallTimesOut(q) PROVE TypeOK'
  <2>1. req' \in [Request -> ReqType]
    BY <1>9, <1>d DEF CallTimesOut
  <2> QED BY <1>d, <2>1 DEF CallTimesOut, serviceVars, TypeOK, ReqType
<1>13. ASSUME NEW q \in Request, EnableDhcpOption(q) PROVE TypeOK'
  <2>1. req' \in [Request -> ReqType]
    BY <1>9, <1>13 DEF EnableDhcpOption
  <2>2. req[q].host \in Host /\ q \in Cause
    BY <1>13 DEF EnableDhcpOption, TypeOK, Cause
  <2>3. casts' \in [Host -> SUBSET (1..MaxChanges)]
    BY <1>13 DEF EnableDhcpOption, TypeOK
  <2>4. UNCHANGED <<tableVars, toCast, up, listed, subnets, dhcpdVars, unheard>>
    BY <1>13 DEF EnableDhcpOption, serviceVars
  <2>5. Begin(req[q].host, q)
    BY <1>13 DEF EnableDhcpOption
  <2> QED BY <1>3, <2>1, <2>2, <2>3, <2>4, <2>5
<1>14. CASE UNCHANGED vars
  BY <1>14 DEF vars, TypeOK
<1> QED
  BY <1>1, <1>2, <1>4, <1>5, <1>6, <1>7, <1>8, <1>10, <1>11, <1>12, <1>13, <1>14, <1>c, <1>d DEF Next

(* Every reachable state is well typed; in particular the list of subnets  *)
(* of a service says one thing at most of a network.                       *)
THEOREM TypeCorrect == Spec => []TypeOK
  BY InitTypeOK, TypeStep, PTL DEF Spec

-----------------------------------------------------------------------------
(* Generations.  mixed says which generations ran into each other, and one  *)
(* that is alone has no other beside it; a generation for a request was     *)
(* begun by the request, on the host it found.                              *)
Apart ==
    \A g, o \in gens : g.host = o.host /\ g # o =>
        /\ ~g.alone
        /\ "records" \in mixed[g.host]
        /\ Relists(g) /\ Relists(o) => "subnets" \in mixed[g.host]

Askers ==
    /\ \A g \in gens : g.for \in Request =>
        /\ req[g.for].phase \notin {"idle", "written", "asking", "supported"}
        /\ g.host = req[g.for].host
    /\ \A q \in Request : req[q].phase \in {"supported", "enabling", "ok"} => req[q].host \in Host

GenInv == TypeOK /\ Apart /\ Askers

\* Where the generations come from that are there after one has begun.
LEMMA BeginOrigin ==
  ASSUME TypeOK, NEW h \in Host, NEW c \in Cause, Begin(h, c), NEW d \in gens'
  PROVE  \/ /\ d.host = h /\ d.for = c /\ d.step \in {"read", "list"}
            /\ d.step = "list" <=> c \notin Request
            /\ d.alone <=> GensOf(h) = {}
         \/ \E o \in GensOf(h) :
              /\ d = [o EXCEPT !.alone = FALSE]
              /\ d.host = h /\ d.for = o.for /\ d.step = o.step /\ d.alone = FALSE
              /\ d.records = o.records /\ d.networks = o.networks
         \/ d \in gens /\ d.host # h
<1> DEFINE new == [host |-> h, for |-> c, step |-> StartsAt(c),
                   networks |-> NoNetworks, records |-> NoRecords, alone |-> GensOf(h) = {}]
<1>1. d \in gens \ GensOf(h) \/ d = new \/ d \in {[o EXCEPT !.alone = FALSE] : o \in GensOf(h)}
  BY DEF Begin
<1>2. CASE d \in gens \ GensOf(h)
  BY <1>2 DEF GensOf
<1>3. CASE d = new
  BY <1>3 DEF StartsAt
<1>4. CASE d \in {[o EXCEPT !.alone = FALSE] : o \in GensOf(h)}
  <2>1. PICK o \in GensOf(h) : d = [o EXCEPT !.alone = FALSE]
    BY <1>4
  <2>2. o \in Generation /\ o.host = h
    BY DEF GensOf, TypeOK
  <2> QED BY <2>1, <2>2 DEF Generation
<1> QED BY <1>1, <1>2, <1>3, <1>4

\* What mixed is after one has begun.
LEMMA BeginMixed ==
  ASSUME TypeOK, NEW h \in Host, NEW c \in Cause, Begin(h, c)
  PROVE  /\ \A k \in Host : mixed[k] \subseteq mixed'[k]
         /\ GensOf(h) # {} => "records" \in mixed'[h]
         /\ c \notin Request /\ (\E o \in GensOf(h) : Relists(o)) => "subnets" \in mixed'[h]
<1> DEFINE new == [host |-> h, for |-> c, step |-> StartsAt(c),
                   networks |-> NoNetworks, records |-> NoRecords, alone |-> GensOf(h) = {}]
           A == IF GensOf(h) # {} THEN {"records"} ELSE {}
           B == IF Relists(new) /\ \E o \in GensOf(h) : Relists(o) THEN {"subnets"} ELSE {}
<1>1. mixed' = [mixed EXCEPT ![h] = mixed[h] \union A \union B]
  BY DEF Begin
<1>2. Relists(new) <=> c \notin Request
  BY DEF Relists
<1>3. mixed'[h] = mixed[h] \union A \union B
  BY <1>1 DEF TypeOK
<1>4. \A k \in Host : k # h => mixed'[k] = mixed[k]
  BY <1>1 DEF TypeOK
<1>5. "records" \in A <=> GensOf(h) # {}
  OBVIOUS
<1>6. c \notin Request /\ (\E o \in GensOf(h) : Relists(o)) => "subnets" \in B
  BY <1>2
<1> HIDE DEF A, B, new
<1> QED BY <1>3, <1>4, <1>5, <1>6

\* Beginning keeps them apart.
LEMMA BeginApart ==
  ASSUME TypeOK, Apart, NEW h \in Host, NEW c \in Cause, Begin(h, c)
  PROVE  Apart'
<1> SUFFICES ASSUME NEW d \in gens', NEW e \in gens', d.host = e.host, d # e
             PROVE  /\ ~d.alone
                    /\ "records" \in mixed'[d.host]
                    /\ Relists(d) /\ Relists(e) => "subnets" \in mixed'[d.host]
  BY DEF Apart, Relists
<1> DEFINE new == [host |-> h, for |-> c, step |-> StartsAt(c),
                   networks |-> NoNetworks, records |-> NoRecords, alone |-> GensOf(h) = {}]
           Of(x) == \E o \in GensOf(h) : x = [o EXCEPT !.alone = FALSE]
<1>1. \A x \in gens' : (x \in gens /\ x.host # h) \/ x = new \/ Of(x)
  BY DEF Begin, GensOf
<1>2. \A o \in GensOf(h) : LET x == [o EXCEPT !.alone = FALSE]
                            IN  x.host = h /\ x.for = o.for /\ x.alone = FALSE
  BY DEF GensOf, TypeOK, Generation
<1>3. new.host = h /\ new.for = c /\ (new.alone <=> GensOf(h) = {})
  OBVIOUS
<1>4. CASE d.host # h
  <2>1. d \in gens /\ e \in gens
    BY <1>1, <1>2, <1>3, <1>4
  <2>2. mixed'[d.host] = mixed[d.host]
    BY <1>4 DEF Begin, TypeOK
  <2> QED BY <2>1, <2>2 DEF Apart
<1>5. CASE d.host = h
  <2>1. (d = new \/ Of(d)) /\ (e = new \/ Of(e))
    BY <1>1, <1>5
  <2>2. GensOf(h) # {}
    BY <2>1
  <2>3. ~d.alone
    BY <2>1, <2>2, <1>2, <1>3
  <2>4. "records" \in mixed'[h]
    BY <2>2, BeginMixed
  <2>5. ASSUME Relists(d), Relists(e) PROVE "subnets" \in mixed'[h]
    <3>1. CASE d = new
      <4>1. PICK o \in GensOf(h) : e = [o EXCEPT !.alone = FALSE]
        BY <2>1, <3>1
      <4>2. c \notin Request /\ Relists(o)
        BY <1>2, <1>3, <2>5, <3>1, <4>1 DEF Relists
      <4> QED BY <4>2, BeginMixed
    <3>2. CASE e = new
      <4>1. PICK o \in GensOf(h) : d = [o EXCEPT !.alone = FALSE]
        BY <2>1, <3>2
      <4>2. c \notin Request /\ Relists(o)
        BY <1>2, <1>3, <2>5, <3>2, <4>1 DEF Relists
      <4> QED BY <4>2, BeginMixed
    <3>3. CASE Of(d) /\ Of(e)
      <4>1. PICK o \in GensOf(h), u \in GensOf(h) :
              d = [o EXCEPT !.alone = FALSE] /\ e = [u EXCEPT !.alone = FALSE]
        BY <3>3
      <4>2. o # u /\ Relists(o) /\ Relists(u)
        BY <1>2, <2>5, <4>1 DEF Relists
      <4>3. "subnets" \in mixed[h]
        BY <4>2 DEF Apart, GensOf
      <4> QED BY <4>3, BeginMixed
    <3> QED BY <2>1, <3>1, <3>2, <3>3
  <2> QED BY <1>5, <2>3, <2>4, <2>5
<1> QED BY <1>4, <1>5

\* A step of a generation leaves its identity alone.
LEMMA StepOrigin ==
  ASSUME TypeOK, NEW g \in gens, ListNetworks(g) \/ SetSubnets(g) \/ ReadRecords(g),
         NEW d \in gens'
  PROVE  \E o \in gens :
           /\ d.host = o.host /\ d.for = o.for /\ d.alone = o.alone
           /\ \/ d = o
              \/ /\ o = g
                 /\ \/ /\ ListNetworks(g) /\ d.step = "subnets" /\ d.networks = networks
                    \/ SetSubnets(g) /\ d.step = "read" /\ d.networks = g.networks
                    \/ /\ ReadRecords(g) /\ d.step = "write" /\ d.records = records
                       /\ d.networks = g.networks
<1>1. g \in Generation
  BY DEF TypeOK
<1>2. CASE d \in gens
  BY <1>2
<1>3. CASE d \notin gens
  <2>1. \/ ListNetworks(g) /\ d = [g EXCEPT !.step = "subnets", !.networks = networks]
        \/ SetSubnets(g) /\ d = [g EXCEPT !.step = "read"]
        \/ ReadRecords(g) /\ d = [g EXCEPT !.step = "write", !.records = records]
    BY <1>3 DEF ListNetworks, SetSubnets, ReadRecords, Step
  <2> QED BY <1>1, <2>1 DEF Generation
<1> QED BY <1>2, <1>3

\* A step puts another generation in the place of its own.
LEMMA StepReplaces ==
  ASSUME TypeOK, NEW g \in gens, ListNetworks(g) \/ SetSubnets(g) \/ ReadRecords(g)
  PROVE  \E x : /\ gens' = (gens \ {g}) \union {x}
                /\ x.host = g.host /\ x.for = g.for /\ x.alone = g.alone
<1>1. g \in Generation
  BY DEF TypeOK
<1>2. CASE ListNetworks(g)
  <2> DEFINE x == [g EXCEPT !.step = "subnets", !.networks = networks]
  <2>1. x.host = g.host /\ x.for = g.for /\ x.alone = g.alone
    BY <1>1 DEF Generation
  <2> QED BY <1>2, <2>1 DEF ListNetworks, Step
<1>3. CASE SetSubnets(g)
  <2> DEFINE x == [g EXCEPT !.step = "read"]
  <2>1. x.host = g.host /\ x.for = g.for /\ x.alone = g.alone
    BY <1>1 DEF Generation
  <2> QED BY <1>3, <2>1 DEF SetSubnets, Step
<1>4. CASE ReadRecords(g)
  <2> DEFINE x == [g EXCEPT !.step = "write", !.records = records]
  <2>1. x.host = g.host /\ x.for = g.for /\ x.alone = g.alone
    BY <1>1 DEF Generation
  <2> QED BY <1>4, <2>1 DEF ReadRecords, Step
<1> QED BY <1>2, <1>3, <1>4

\* Steps keep them apart, and so do ends and crashes.
LEMMA StepApart ==
  ASSUME TypeOK, Apart, NEW g \in gens, ListNetworks(g) \/ SetSubnets(g) \/ ReadRecords(g)
  PROVE  Apart'
<1>1. PICK x : /\ gens' = (gens \ {g}) \union {x}
               /\ x.host = g.host /\ x.for = g.for /\ x.alone = g.alone
  BY StepReplaces
<1>2. mixed' = mixed
  BY DEF ListNetworks, SetSubnets, ReadRecords
<1> QED BY <1>1, <1>2 DEF Apart, Relists

\* Fewer generations are apart if mixed only forgets when none is left to mix.
LEMMA FewerApart ==
  ASSUME TypeOK, Apart, gens' \subseteq gens,
         \A k \in Host : mixed'[k] = mixed[k] \/ \A d, e \in gens' : d.host = k /\ e.host = k => d = e
  PROVE  Apart'
<1>1. \A d \in gens : d.host \in Host
  BY DEF TypeOK, Generation
<1> QED BY <1>1 DEF Apart, Relists

\* A generation that ends changes mixed only if it ran alone, and for its host.
LEMMA WriteMixed ==
  ASSUME TypeOK, NEW g \in gens, NEW o, WriteAndRestart(g, o)
  PROVE  /\ g.host \in Host
         /\ \A k \in Host : k # g.host => mixed'[k] = mixed[k]
         /\ ~g.alone => mixed' = mixed
         /\ ~Relists(g) => ("subnets" \in mixed'[g.host] <=> "subnets" \in mixed[g.host])
<1>1. g.host \in Host
  BY DEF TypeOK, Generation
<1>2. mixed' = [mixed EXCEPT ![g.host] = IF ~g.alone THEN mixed[g.host]
                                         ELSE IF Relists(g) THEN {} ELSE mixed[g.host] \ {"records"}]
  BY DEF WriteAndRestart, Settled
<1> QED BY <1>1, <1>2 DEF TypeOK

\* The invariant of generations is inductive.
LEMMA GenStep == GenInv /\ [Next]_vars => GenInv'
<1> SUFFICES ASSUME GenInv, [Next]_vars PROVE Apart' /\ Askers'
  BY TypeStep DEF GenInv
<1>0. TypeOK /\ TypeOK' /\ Apart /\ Askers
  BY TypeStep DEF GenInv
<1> USE DEF tableVars, apiVars, dhcpdVars
<1>a. \A q \in Request : req[q] \in ReqType
  BY <1>0 DEF TypeOK, ReqType
\* A generation that begins for no request.
<1>1. ASSUME NEW h \in Host, NEW c \in Cause, c \notin Request, Begin(h, c), req' = req
      PROVE  Apart' /\ Askers'
  <2>1. Apart'
    BY <1>0, <1>1, BeginApart
  <2>2. ASSUME NEW d \in gens', d.for \in Request
        PROVE  \E o \in gens : d.host = o.host /\ d.for = o.for
    BY <1>0, <1>1, <2>2, BeginOrigin DEF GensOf
  <2> QED BY <1>0, <1>1, <2>1, <2>2 DEF Askers
<1>2. ASSUME NEW h \in Host, BootService(h) PROVE Apart' /\ Askers'
  <2>1. Boot \in Cause /\ Boot \notin Request
    BY DhcpAssumption DEF DhcpAssumption, Boot, Cause
  <2> QED BY <1>1, <1>2, <2>1 DEF BootService
<1>3. ASSUME NEW k \in 1..MaxChanges, NEW h \in Host, RestartDhcp(h, k) PROVE Apart' /\ Askers'
  <2>1. k \in Cause /\ k \notin Request
    BY DhcpAssumption DEF DhcpAssumption, Cause
  <2> QED BY <1>1, <1>3, <2>1 DEF RestartDhcp
<1>4. ASSUME NEW q \in Request, EnableDhcpOption(q) PROVE Apart' /\ Askers'
  <2>1. /\ req[q].phase = "supported" /\ req[q].host \in Host /\ q \in Cause
        /\ Begin(req[q].host, q) /\ Go(q, "enabling")
    BY <1>0, <1>4 DEF EnableDhcpOption, TypeOK, Cause
  <2>2. Apart'
    BY <1>0, <2>1, BeginApart
  <2>3. /\ req'[q].phase = "enabling" /\ req'[q].host = req[q].host
        /\ \A r \in Request : r # q => req'[r] = req[r]
    BY <1>0, <1>a, <2>1 DEF Go, TypeOK, ReqType
  <2>4. ASSUME NEW d \in gens', d.for \in Request
        PROVE  req'[d.for].phase \notin {"idle", "written", "asking", "supported"} /\ d.host = req'[d.for].host
    <3>1. CASE d.for = q
      <4>1. ~ \E o \in gens : o.for = q
        BY <1>0, <2>1 DEF Askers
      <4>2. d.host = req[q].host
        BY <1>0, <2>1, <3>1, <4>1, BeginOrigin DEF GensOf
      <4> QED BY <2>3, <3>1, <4>2
    <3>2. CASE d.for # q
      <4>1. \E o \in gens : d.host = o.host /\ d.for = o.for
        BY <1>0, <2>1, <3>2, BeginOrigin DEF GensOf
      <4> QED BY <1>0, <2>3, <2>4, <3>2, <4>1 DEF Askers
    <3> QED BY <3>1, <3>2
  <2> QED BY <1>0, <2>1, <2>2, <2>3, <2>4 DEF Askers
<1>5. ASSUME NEW g \in gens, ListNetworks(g) \/ SetSubnets(g) \/ ReadRecords(g)
      PROVE  Apart' /\ Askers'
  <2>1. \A d \in gens' : \E o \in gens : d.host = o.host /\ d.for = o.for
    BY <1>0, <1>5, StepOrigin
  <2>2. req' = req
    BY <1>5 DEF ListNetworks, SetSubnets, ReadRecords
  <2> QED BY <1>0, <1>5, <2>1, <2>2, StepApart DEF Askers
\* Requests that go on, with the generations as they are.
<1>6. ASSUME NEW q \in Request, UNCHANGED <<gens, mixed>>,
             \A r \in Request \ {q} : req'[r] = req[r],
             \/ /\ req[q].phase \in {"idle", "written", "asking"}
                /\ req'[q].phase \notin {"supported", "enabling", "ok"}
             \/ req[q].phase = "asking" /\ req'[q].host \in Host
             \/ req'[q].phase = "failed" /\ req'[q].host = req[q].host
      PROVE  Apart' /\ Askers'
  BY <1>0, <1>6 DEF Apart, Askers, Relists
<1>7. ASSUME NEW q \in Request, WriteRecord(q) \/ GetServices(q) \/ NoService(q) \/ CallTimesOut(q)
      PROVE  Apart' /\ Askers'
  <2>1. /\ req'[q].host = req[q].host
        /\ \/ req'[q].phase \in {"written", "asking"} /\ req[q].phase \in {"idle", "written"}
           \/ req'[q].phase = "failed"
        /\ \A r \in Request \ {q} : req'[r] = req[r]
    BY <1>0, <1>a, <1>7 DEF WriteRecord, GetServices, NoService, CallTimesOut, Go, TypeOK, ReqType
  <2>2. UNCHANGED <<gens, mixed>>
    BY <1>7 DEF WriteRecord, GetServices, NoService, CallTimesOut
  <2> QED BY <1>6, <2>1, <2>2
<1>8. ASSUME NEW q \in Request, NEW h \in Host, CheckSupport(q, h) PROVE Apart' /\ Askers'
  <2>1. req[q].phase = "asking" /\ UNCHANGED <<gens, mixed>>
    BY <1>8 DEF CheckSupport
  <2>2. \A r \in Request \ {q} : req'[r] = req[r]
    BY <1>0, <1>8 DEF CheckSupport, TypeOK
  <2>3. CASE Supports(q, h)
    <3>1. req'[q] = [req[q] EXCEPT !.phase = "supported", !.left = {}, !.host = h]
      BY <1>0, <1>8, <2>3 DEF CheckSupport, TypeOK
    <3>2. req'[q].host \in Host
      BY <1>0, <1>a, <2>1, <3>1 DEF TypeOK, ReqType
    <3> QED BY <1>6, <2>1, <2>2, <3>2
  <2>4. CASE ~ Supports(q, h)
    <3>1. req'[q] = [req[q] EXCEPT !.left = req[q].left \ {h}]
      BY <1>0, <1>8, <2>4 DEF CheckSupport, TypeOK
    <3>2. req'[q].phase = "asking"
      BY <1>a, <2>1, <3>1 DEF ReqType
    <3> QED BY <1>6, <2>1, <2>2, <3>2
  <2> QED BY <2>3, <2>4
<1>9. ASSUME NEW g \in gens, NEW o \in {"runs", "exits", "raises"}, WriteAndRestart(g, o)
      PROVE  Apart' /\ Askers'
  <2>1. Apart'
    <3>1. gens' = gens \ {g}
      BY <1>9 DEF WriteAndRestart
    <3>2. CASE g.alone
      <4>1. \A d \in gens' : d.host # g.host
        BY <1>0, <3>1, <3>2 DEF Apart
      <4> QED BY <1>0, <1>9, <3>1, <4>1, FewerApart, WriteMixed
    <3>3. CASE ~g.alone
      BY <1>0, <1>9, <3>1, <3>3, FewerApart, WriteMixed
    <3> QED BY <3>2, <3>3
  <2>2. \A r \in Request : /\ req'[r].host = req[r].host
                           /\ \/ req'[r] = req[r]
                              \/ req[r].phase = "enabling" /\ req'[r].phase \in {"ok", "failed"}
    BY <1>0, <1>a, <1>9 DEF WriteAndRestart, Answer, TypeOK, ReqType
  <2>3. gens' \subseteq gens
    BY <1>9 DEF WriteAndRestart
  <2> QED BY <1>0, <2>1, <2>2, <2>3 DEF Askers
<1>10. ASSUME NEW h \in Host, Crash(h) PROVE Apart' /\ Askers'
  <2>1. gens' \subseteq gens /\ mixed' = mixed /\ req' = req
    BY <1>10 DEF Crash
  <2> QED BY <1>0, <2>1, FewerApart DEF Askers
<1>11. CASE UNCHANGED <<gens, mixed, req>>
  BY <1>0, <1>11 DEF Apart, Askers, Relists
<1>12. ASSUME NEW k \in 1..MaxChanges, Broadcast(k) PROVE UNCHANGED <<gens, mixed, req>>
  BY <1>12 DEF Broadcast
<1>13. ASSUME NEW net \in Net, NEW row \in Row \union {NoRow}, ChangeNetworks(net, row)
       PROVE  UNCHANGED <<gens, mixed, req>>
  BY <1>13 DEF ChangeNetworks
<1>15. ASSUME NEW h \in Host, Renew(h) \/ Lapse(h) PROVE UNCHANGED <<gens, mixed, req>>
  BY <1>15 DEF Renew, Lapse
<1>14. CASE UNCHANGED vars
  BY <1>11, <1>14 DEF vars
<1> QED
  BY <1>2, <1>3, <1>4, <1>5, <1>7, <1>8, <1>9, <1>10, <1>11, <1>12, <1>13, <1>14, <1>15 DEF Next

\* The invariant of generations holds in every reachable state.
LEMMA GenInvariant == Spec => []GenInv
<1>1. Init => GenInv
  BY InitTypeOK DEF Init, GenInv, Apart, Askers
<1> QED BY <1>1, GenStep, PTL DEF Spec

-----------------------------------------------------------------------------
(* Records.  What a generation is about to write holds the record of a     *)
(* request that it must not undo: of one that is answered, if the           *)
(* generation is alone or nothing is mixed; and of the one it is for.       *)
Keeps(g, q) ==
    /\ g.host = req[q].host /\ g.step = "write" /\ records[NameOf[q]] = q
    /\ \/ req[q].phase = "ok" /\ (g.alone \/ "records" \notin mixed[g.host])
       \/ req[q].phase = "enabling" /\ g.for = q
    => g.records[NameOf[q]] = q

ReadFresh == \A q \in Request : \A g \in gens : Keeps(g, q)

RecInv == GenInv /\ ReadFresh /\ AnsweredIsServed

\* What a step that leaves the requests, the records and dhcpd alone must do.
LEMMA SameRecords ==
  ASSUME RecInv, GenInv', UNCHANGED <<req, records>>,
         \A h \in Host : daemon'[h] = daemon[h] /\ mixed[h] \subseteq mixed'[h],
         \A d \in gens' : \/ d.step # "write" \/ d.records = records
                          \/ \E o \in gens : /\ d.host = o.host /\ d.for = o.for
                                             /\ d.step = o.step /\ d.records = o.records
                                             /\ d.alone => o.alone
  PROVE  ReadFresh' /\ AnsweredIsServed'
<1>1. \A q \in Request : req[q].phase = "ok" => req[q].host \in Host
  BY DEF RecInv, GenInv, Askers
<1>2. AnsweredIsServed'
  BY <1>1 DEF RecInv, AnsweredIsServed
<1>3. ASSUME NEW q \in Request, NEW d \in gens' PROVE Keeps(d, q)'
  <2>1. d.host \in Host
    BY DEF GenInv, TypeOK, Generation
  <2>2. CASE d.step # "write" \/ d.records = records
    BY <2>2 DEF Keeps
  <2>3. CASE \E o \in gens : /\ d.host = o.host /\ d.for = o.for
                             /\ d.step = o.step /\ d.records = o.records
                             /\ d.alone => o.alone
    <3>1. PICK o \in gens : /\ d.host = o.host /\ d.for = o.for
                            /\ d.step = o.step /\ d.records = o.records
                            /\ d.alone => o.alone
      BY <2>3
    <3>2. Keeps(o, q)
      BY DEF RecInv, ReadFresh
    <3>3. mixed[d.host] \subseteq mixed'[d.host]
      BY <2>1
    <3> QED BY <3>1, <3>2, <3>3 DEF Keeps
  <2> QED BY <2>2, <2>3
<1> QED BY <1>2, <1>3 DEF ReadFresh

\* A request that goes on, with no generation begun or ended.
LEMMA SameGenerations ==
  ASSUME RecInv, UNCHANGED <<gens, mixed, daemon>>, NEW q \in Request,
         \A r \in Request \ {q} : req'[r] = req[r],
         req'[q].phase \notin {"ok", "enabling"},
         \A r \in Request \ {q} : records'[NameOf[r]] = r => records[NameOf[r]] = r
  PROVE  ReadFresh' /\ AnsweredIsServed'
<1>1. AnsweredIsServed'
  BY DEF RecInv, AnsweredIsServed
<1>2. ASSUME NEW r \in Request, NEW g \in gens PROVE Keeps(g, r)'
  <2>1. Keeps(g, r)
    BY DEF RecInv, ReadFresh
  <2> QED BY <2>1 DEF Keeps
<1> QED BY <1>1, <1>2 DEF ReadFresh

\* The invariant of records is inductive.
LEMMA RecStep == RecInv /\ [Next]_vars => RecInv'
<1> SUFFICES ASSUME RecInv, [Next]_vars PROVE ReadFresh' /\ AnsweredIsServed'
  BY GenStep DEF RecInv
<1>0. TypeOK /\ GenInv /\ GenInv' /\ TypeOK' /\ Apart /\ Askers /\ ReadFresh /\ AnsweredIsServed
  BY GenStep DEF RecInv, GenInv
<1> USE DEF tableVars, apiVars, dhcpdVars
<1>a. \A q \in Request : req[q] \in ReqType
  BY <1>0 DEF TypeOK, ReqType
<1>1. ASSUME NEW h \in Host, NEW c \in Cause, Begin(h, c), UNCHANGED <<req, records, daemon>>
      PROVE  ReadFresh' /\ AnsweredIsServed'
  <2>1. \A k \in Host : mixed[k] \subseteq mixed'[k]
    BY <1>0, <1>1, BeginMixed
  <2>2. ASSUME NEW d \in gens'
        PROVE  \/ d.step # "write"
               \/ \E o \in gens : /\ d.host = o.host /\ d.for = o.for
                                  /\ d.step = o.step /\ d.records = o.records
                                  /\ d.alone => o.alone
    BY <1>0, <1>1, <2>2, BeginOrigin DEF GensOf
  <2> QED BY <1>0, <1>1, <2>1, <2>2, SameRecords
<1>2. ASSUME NEW h \in Host, BootService(h) PROVE ReadFresh' /\ AnsweredIsServed'
  <2>1. Boot \in Cause
    BY DhcpAssumption DEF DhcpAssumption, Boot, Cause
  <2> QED BY <1>1, <1>2, <2>1 DEF BootService
<1>3. ASSUME NEW k \in 1..MaxChanges, NEW h \in Host, RestartDhcp(h, k)
      PROVE  ReadFresh' /\ AnsweredIsServed'
  <2>1. k \in Cause
    BY DhcpAssumption DEF DhcpAssumption, Cause
  <2> QED BY <1>1, <1>3, <2>1 DEF RestartDhcp
<1>4. ASSUME NEW q \in Request, EnableDhcpOption(q) PROVE ReadFresh' /\ AnsweredIsServed'
  <2>1. /\ req[q].phase = "supported" /\ req[q].host \in Host /\ q \in Cause
        /\ Begin(req[q].host, q) /\ Go(q, "enabling") /\ records' = records /\ daemon' = daemon
    BY <1>0, <1>4 DEF EnableDhcpOption, serviceVars, TypeOK, Cause
  <2>2. /\ req'[q].phase = "enabling" /\ req'[q].host = req[q].host
        /\ \A r \in Request : r # q => req'[r] = req[r]
    BY <1>0, <1>a, <2>1 DEF Go, TypeOK, ReqType
  <2>3. \A k \in Host : mixed[k] \subseteq mixed'[k]
    BY <1>0, <2>1, BeginMixed
  <2>4. AnsweredIsServed'
    <3>1. \A r \in Request : req[r].phase = "ok" => req[r].host \in Host
      BY <1>0 DEF Askers
    <3> QED BY <1>0, <2>1, <2>2, <2>3, <3>1 DEF AnsweredIsServed
  <2>5. ASSUME NEW r \in Request, NEW d \in gens' PROVE Keeps(d, r)'
    <3>0. d.host \in Host
      BY <1>0 DEF TypeOK, Generation
    <3>1. CASE d.step # "write"
      BY <3>1 DEF Keeps
    <3>2. CASE d.step = "write"
      <4>1. PICK o \in gens : /\ d.host = o.host /\ d.for = o.for /\ d.step = o.step
                              /\ d.records = o.records /\ (d.alone => o.alone)
        BY <1>0, <2>1, <3>2, BeginOrigin DEF GensOf
      <4>2. o.for # q
        BY <1>0, <2>1 DEF Askers
      <4>3. Keeps(o, r)
        BY <1>0 DEF ReadFresh
      <4>4. mixed[d.host] \subseteq mixed'[d.host] /\ records' = records
        BY <2>1, <2>3, <3>0
      <4>5. CASE r = q
        BY <2>2, <4>1, <4>2, <4>5 DEF Keeps
      <4>6. CASE r # q
        <5>1. req'[r] = req[r]
          BY <2>2, <4>6
        <5> QED BY <4>1, <4>3, <4>4, <5>1 DEF Keeps
      <4> QED BY <4>5, <4>6
    <3> QED BY <3>1, <3>2
  <2> QED BY <2>4, <2>5 DEF ReadFresh
<1>5. ASSUME NEW g \in gens, ListNetworks(g) \/ SetSubnets(g) \/ ReadRecords(g)
      PROVE  ReadFresh' /\ AnsweredIsServed'
  <2>1. \A d \in gens' : \/ d.step # "write" \/ d.records = records
                         \/ \E o \in gens : /\ d.host = o.host /\ d.for = o.for
                                            /\ d.step = o.step /\ d.records = o.records
                                            /\ d.alone => o.alone
    BY <1>0, <1>5, StepOrigin
  <2>2. UNCHANGED <<req, records, daemon, mixed>>
    BY <1>5 DEF ListNetworks, SetSubnets, ReadRecords
  <2> QED BY <1>0, <2>1, <2>2, SameRecords
<1>6. ASSUME NEW q \in Request, GetServices(q) \/ NoService(q) \/ CallTimesOut(q) \/ WriteRecord(q)
      PROVE  ReadFresh' /\ AnsweredIsServed'
  <2>1. req'[q].phase \in {"written", "asking", "failed"} /\ \A r \in Request \ {q} : req'[r] = req[r]
    BY <1>0, <1>a, <1>6 DEF WriteRecord, GetServices, NoService, CallTimesOut, Go, TypeOK, ReqType
  <2>2. \A r \in Request \ {q} : records'[NameOf[r]] = r => records[NameOf[r]] = r
    BY <1>0, <1>6, DhcpAssumption
       DEF DhcpAssumption, WriteRecord, GetServices, NoService, CallTimesOut, TypeOK
  <2>3. UNCHANGED <<gens, mixed, daemon>>
    BY <1>6 DEF WriteRecord, GetServices, NoService, CallTimesOut, serviceVars
  <2> QED BY <2>1, <2>2, <2>3, SameGenerations
<1>7. ASSUME NEW q \in Request, NEW h \in Host, CheckSupport(q, h)
      PROVE  ReadFresh' /\ AnsweredIsServed'
  <2>1. req[q].phase = "asking" /\ UNCHANGED <<gens, mixed, daemon, records>>
    BY <1>7 DEF CheckSupport, serviceVars
  <2>2. \A r \in Request \ {q} : req'[r] = req[r]
    BY <1>0, <1>7 DEF CheckSupport, TypeOK
  <2>3. req'[q].phase \in {"asking", "supported"}
    <3>1. \/ req'[q] = [req[q] EXCEPT !.phase = "supported", !.left = {}, !.host = h]
          \/ req'[q] = [req[q] EXCEPT !.left = req[q].left \ {h}]
      BY <1>0, <1>7 DEF CheckSupport, TypeOK
    <3> QED BY <1>a, <2>1, <3>1 DEF ReqType
  <2> QED BY <2>1, <2>2, <2>3, SameGenerations
<1>8. ASSUME NEW g \in gens, NEW o \in {"runs", "exits", "raises"}, WriteAndRestart(g, o)
      PROVE  ReadFresh' /\ AnsweredIsServed'
  <2>1. /\ gens' = gens \ {g} /\ records' = records /\ g.step = "write" /\ g.host \in Host
        /\ \A h \in Host : h # g.host => mixed'[h] = mixed[h]
        /\ ~g.alone => mixed' = mixed
    BY <1>0, <1>8, WriteMixed DEF WriteAndRestart
  <2>2. ASSUME NEW r \in Request
        PROVE  \/ req'[r] = req[r]
               \/ /\ r = g.for /\ req[r].phase = "enabling" /\ req[r].host = g.host
                  /\ req'[r].host = req[r].host /\ req'[r].phase \in {"ok", "failed"}
    <3>1. g.for = r => req[r].host = g.host
      BY <1>0 DEF Askers
    <3> QED BY <1>0, <1>a, <1>8, <3>1 DEF WriteAndRestart, Answer, TypeOK, ReqType
  <2>3. ASSUME NEW r \in Request, NEW d \in gens' PROVE Keeps(d, r)'
    <3>1. d \in gens /\ d # g /\ d.host \in Host
      BY <1>0, <2>1 DEF TypeOK, Generation
    <3>2. CASE d.host = g.host
      <4>1. ~d.alone /\ ~g.alone /\ "records" \in mixed[d.host]
        BY <1>0, <3>1, <3>2 DEF Apart
      <4>2. mixed' = mixed
        BY <2>1, <4>1
      <4>3. Keeps(d, r)
        BY <1>0, <3>1 DEF ReadFresh
      <4> QED BY <2>1, <2>2, <4>1, <4>2, <4>3 DEF Keeps
    <3>3. CASE d.host # g.host
      <4>1. mixed'[d.host] = mixed[d.host]
        BY <2>1, <3>1, <3>3
      <4>2. Keeps(d, r)
        BY <1>0, <3>1 DEF ReadFresh
      <4> QED BY <2>1, <2>2, <3>3, <4>1, <4>2 DEF Keeps
    <3> QED BY <3>2, <3>3
  <2>4. ASSUME NEW r \in Request, req'[r].phase = "ok", records'[NameOf[r]] = r,
               daemon'[req'[r].host] # NoConf, "records" \notin mixed'[req'[r].host]
        PROVE  daemon'[req'[r].host].records[NameOf[r]] = r
    <3>0. req'[r].host \in Host
      BY <1>0, <2>4 DEF GenInv, Askers
    <3>1. CASE req'[r].host # g.host
      <4>1. req'[r] = req[r]
        BY <2>2, <3>1
      <4>2. daemon'[req[r].host] = daemon[req[r].host]
        BY <1>0, <1>8, <3>0, <3>1, <4>1 DEF WriteAndRestart, TypeOK
      <4> QED BY <1>0, <2>1, <2>4, <3>0, <3>1, <4>1, <4>2 DEF AnsweredIsServed
    <3>2. CASE req'[r].host = g.host
      <4>1. daemon'[g.host] = [records |-> g.records, subnets |-> subnets[g.host]]
        BY <1>0, <1>8, <2>1, <2>4, <3>2 DEF WriteAndRestart, TypeOK
      <4>2. Keeps(g, r)
        BY <1>0 DEF ReadFresh
      <4>3. g.records[NameOf[r]] = r
        BY <2>1, <2>2, <2>4, <3>2, <4>2 DEF Keeps
      <4> QED BY <3>2, <4>1, <4>3
    <3> QED BY <3>1, <3>2
  <2> QED BY <2>3, <2>4 DEF ReadFresh, AnsweredIsServed
<1>9. ASSUME NEW h \in Host, Crash(h) PROVE ReadFresh' /\ AnsweredIsServed'
  <2>1. gens' \subseteq gens /\ UNCHANGED <<req, records, daemon, mixed>>
    BY <1>9 DEF Crash
  <2> QED BY <1>0, <2>1, SameRecords
<1>10. CASE UNCHANGED <<gens, req, records, daemon, mixed>>
  BY <1>0, <1>10, SameRecords
<1>11. ASSUME NEW k \in 1..MaxChanges, Broadcast(k)
       PROVE  UNCHANGED <<gens, req, records, daemon, mixed>>
  BY <1>11 DEF Broadcast
<1>12. ASSUME NEW net \in Net, NEW row \in Row \union {NoRow}, ChangeNetworks(net, row)
       PROVE  UNCHANGED <<gens, req, records, daemon, mixed>>
  BY <1>12 DEF ChangeNetworks
<1>14. ASSUME NEW h \in Host, Renew(h) \/ Lapse(h)
       PROVE  UNCHANGED <<gens, req, records, daemon, mixed>>
  BY <1>14 DEF Renew, Lapse
<1>13. CASE UNCHANGED vars
  BY <1>10, <1>13 DEF vars
<1> QED
  BY <1>2, <1>3, <1>4, <1>5, <1>6, <1>7, <1>8, <1>9, <1>10, <1>11, <1>12, <1>13, <1>14 DEF Next

(* The record of a node whose request was answered is served, and goes on  *)
(* to be served, as long as no two generations have run into each other    *)
(* since one ran alone.                                                    *)
THEOREM AnsweredStaysServed == Spec => []AnsweredIsServed
<1>1. Init => RecInv
  BY InitTypeOK DEF Init, RecInv, GenInv, Apart, Askers, ReadFresh, AnsweredIsServed
<1>2. RecInv => AnsweredIsServed
  BY DEF RecInv
<1> QED BY <1>1, <1>2, RecStep, PTL DEF Spec

-----------------------------------------------------------------------------
(* Subnets.  While a host has heard of every change of the networks and     *)
(* none is in its queue, what a restart there has listed are the networks,  *)
(* and what it has set are the subnets they give; and if none is under way, *)
(* that is what the service and its dhcpd have.                             *)
Here(h) == RowsOf(networks) \intersect Local[h]

Quiet(h) == unheard[h] = {} /\ casts[h] = {}

Restarting(h) == \E g \in gens : g.host = h /\ Relists(g)

Follows(h) ==
    /\ \A g \in gens :
        g.host = h /\ Relists(g) /\ (g.alone \/ "subnets" \notin mixed[h]) =>
            \/ g.step = "list"
            \/ g.networks = networks /\ (g.step = "subnets" \/ subnets[h] = Here(h))
    /\ h \in up /\ "subnets" \notin mixed[h] /\ ~ Restarting(h) =>
            subnets[h] = Here(h) /\ (daemon[h] # NoConf => daemon[h].subnets = Here(h))

OnlyRelists == \A g \in gens : g.step \in {"list", "subnets"} => Relists(g)

SubInv == GenInv /\ OnlyRelists /\ \A h \in Host : Quiet(h) => Follows(h)

\* Every generation is still there after one has begun, or after its own step.
LEMMA StillThere ==
  ASSUME TypeOK,
         \/ \E h \in Host, c \in Cause : Begin(h, c)
         \/ \E g \in gens : ListNetworks(g) \/ SetSubnets(g) \/ ReadRecords(g),
         NEW o \in gens
  PROVE  \E d \in gens' : d.host = o.host /\ d.for = o.for
<1>0. o \in Generation
  BY DEF TypeOK
<1>1. ASSUME NEW h \in Host, NEW c \in Cause, Begin(h, c)
      PROVE  \E d \in gens' : d.host = o.host /\ d.for = o.for
  <2>1. CASE o.host = h
    <3>1. [o EXCEPT !.alone = FALSE] \in gens'
      BY <1>1, <2>1 DEF Begin, GensOf
    <3> QED BY <1>0, <3>1 DEF Generation
  <2>2. CASE o.host # h
    BY <1>1, <2>2 DEF Begin, GensOf
  <2> QED BY <2>1, <2>2
<1>2. ASSUME NEW g \in gens, ListNetworks(g) \/ SetSubnets(g) \/ ReadRecords(g)
      PROVE  \E d \in gens' : d.host = o.host /\ d.for = o.for
  <2>1. PICK x : gens' = (gens \ {g}) \union {x} /\ x.host = g.host /\ x.for = g.for
    BY <1>2, StepReplaces
  <2> QED BY <2>1
<1> QED BY <1>1, <1>2

\* A step that leaves the subnets and the dhcpd of a host alone keeps Follows,
\* if the restarts there go on as they must.
LEMMA SameSubnets ==
  ASSUME NEW h \in Host, Follows(h), UNCHANGED networks,
         subnets'[h] = subnets[h], daemon'[h] = daemon[h], h \in up' => h \in up,
         mixed[h] \subseteq mixed'[h],
         Restarting(h) => Restarting(h)',
         \A d \in gens' : d.host = h /\ Relists(d) =>
            \/ d.step = "list"
            \/ d.step = "subnets" /\ d.networks = networks
            \/ \E o \in gens : /\ o.host = h /\ Relists(o) /\ o.step # "list"
                               /\ o.step = "subnets" => d.step = "subnets"
                               /\ d.networks = o.networks
                               /\ d.alone => o.alone
  PROVE  Follows(h)'
<1>0. Here(h)' = Here(h)
  BY DEF Here
<1>1. ASSUME NEW d \in gens', d.host = h, Relists(d), d.alone \/ "subnets" \notin mixed'[h]
      PROVE  \/ d.step = "list"
             \/ d.networks = networks /\ (d.step = "subnets" \/ subnets[h] = Here(h))
  <2>1. CASE \E o \in gens : /\ o.host = h /\ Relists(o) /\ o.step # "list"
                             /\ o.step = "subnets" => d.step = "subnets"
                             /\ d.networks = o.networks
                             /\ d.alone => o.alone
    <3>1. PICK o \in gens : /\ o.host = h /\ Relists(o) /\ o.step # "list"
                            /\ o.step = "subnets" => d.step = "subnets"
                            /\ d.networks = o.networks
                            /\ d.alone => o.alone
      BY <2>1
    <3>2. o.alone \/ "subnets" \notin mixed[h]
      BY <1>1, <3>1
    <3> QED BY <3>1, <3>2 DEF Follows
  <2> QED BY <1>1, <2>1
<1>2. ASSUME h \in up', "subnets" \notin mixed'[h], ~ Restarting(h)'
      PROVE  subnets[h] = Here(h) /\ (daemon[h] # NoConf => daemon[h].subnets = Here(h))
  BY <1>2 DEF Follows
<1> QED BY <1>0, <1>1, <1>2 DEF Follows, Relists

\* One generation begins.
LEMMA BeginFollows ==
  ASSUME TypeOK, NEW h \in Host, NEW c \in Cause, Begin(h, c),
         UNCHANGED <<networks, subnets, daemon, up>>,
         NEW k \in Host, Follows(k)
  PROVE  Follows(k)'
<1>1. ASSUME NEW d \in gens', d.host = k, Relists(d)
      PROVE  \/ d.step = "list"
             \/ \E o \in gens : /\ o.host = k /\ Relists(o) /\ o.step = d.step
                                /\ d.networks = o.networks
                                /\ d.alone => o.alone
  BY <1>1, BeginOrigin DEF GensOf, Relists
<1>2. Restarting(k) => Restarting(k)'
  BY StillThere DEF Restarting, Relists
<1>3. mixed[k] \subseteq mixed'[k]
  BY BeginMixed
<1> QED BY <1>1, <1>2, <1>3, SameSubnets

\* What holds where a restart begins, of a host that was not quiet before: the
\* new restart has not listed the networks, and whatever else runs is mixed.
LEMMA RestartFollows ==
  ASSUME TypeOK, NEW h \in Host, NEW c \in Cause \ Request, Begin(h, c)
  PROVE  Follows(h)'
<1>1. ASSUME NEW d \in gens', d.host = h, Relists(d), d.alone \/ "subnets" \notin mixed'[h]
      PROVE  d.step = "list"
  <2>1. CASE \E o \in GensOf(h) : d.for = o.for /\ d.alone = FALSE
    <3>1. PICK o \in GensOf(h) : d.for = o.for /\ d.alone = FALSE
      BY <2>1
    <3>2. Relists(o)
      BY <1>1, <3>1 DEF Relists
    <3> QED BY <1>1, <3>1, <3>2, BeginMixed
  <2>2. CASE ~ \E o \in GensOf(h) : d.for = o.for /\ d.alone = FALSE
    BY <1>1, <2>2, BeginOrigin
  <2> QED BY <2>1, <2>2
<1>2. Restarting(h)'
  <2> DEFINE d == [host |-> h, for |-> c, step |-> StartsAt(c),
                   networks |-> NoNetworks, records |-> NoRecords, alone |-> GensOf(h) = {}]
  <2>1. d \in gens'
    BY DEF Begin
  <2>2. d.host = h /\ d.for = c
    OBVIOUS
  <2> QED BY <2>1, <2>2 DEF Restarting, Relists
<1> QED BY <1>1, <1>2 DEF Follows, Relists

\* What holds where a restart has listed the networks, whatever its host had not
\* heard of: what it has listed is new, and whatever else restarts is mixed.
LEMMA ListFollows ==
  ASSUME GenInv, OnlyRelists, NEW g \in gens, ListNetworks(g), ~SetSubnets(g), ~ReadRecords(g)
  PROVE  Follows(g.host)'
<1>0. TypeOK /\ Apart /\ g.step = "list" /\ Relists(g) /\ UNCHANGED <<networks, mixed>>
  BY DEF GenInv, OnlyRelists, ListNetworks, tableVars
<1>1. ASSUME NEW d \in gens', d.host = g.host, Relists(d),
             d.alone \/ "subnets" \notin mixed[g.host]
      PROVE  d.step = "subnets" /\ d.networks = networks
  <2>1. PICK o \in gens :
           /\ d.host = o.host /\ d.for = o.for /\ d.alone = o.alone
           /\ d = o \/ (o = g /\ d.step = "subnets" /\ d.networks = networks)
    BY <1>0, <1>1, StepOrigin
  <2>2. o = g
    BY <1>0, <1>1, <2>1 DEF Apart, Relists
  <2>3. g \notin gens' \/ d.step = "subnets"
    <3>1. gens' = (gens \ {g}) \union {[g EXCEPT !.step = "subnets", !.networks = networks]}
      BY DEF ListNetworks, Step
    <3>2. [g EXCEPT !.step = "subnets", !.networks = networks].step = "subnets"
      BY <1>0 DEF TypeOK, Generation
    <3> QED BY <1>0, <3>1, <3>2
  <2> QED BY <1>0, <2>1, <2>2, <2>3
<1>2. Restarting(g.host)'
  <2>1. \E d \in gens' : d.host = g.host /\ d.for = g.for
    BY <1>0, StillThere
  <2> QED BY <1>0, <2>1 DEF Restarting, Relists
<1> QED BY <1>0, <1>1, <1>2 DEF Follows, Relists

\* The invariant of subnets is inductive.
LEMMA SubStep == SubInv /\ [Next]_vars => SubInv'
<1> SUFFICES ASSUME SubInv, [Next]_vars
             PROVE  OnlyRelists' /\ \A k \in Host : Quiet(k)' => Follows(k)'
  BY GenStep DEF SubInv
<1>0. /\ TypeOK /\ GenInv /\ GenInv' /\ TypeOK' /\ Apart /\ OnlyRelists
      /\ \A k \in Host : Quiet(k) => Follows(k)
  BY GenStep DEF SubInv, GenInv
<1> USE DEF tableVars, apiVars, dhcpdVars
<1>b. \A g \in gens : /\ ListNetworks(g) => g.step = "list"
                      /\ SetSubnets(g) => g.step = "subnets"
                      /\ ReadRecords(g) => g.step = "read"
  BY DEF ListNetworks, SetSubnets, ReadRecords
\* A generation begins, after a message of its host was taken or with none.
<1>1. ASSUME NEW h \in Host, NEW c \in Cause, Begin(h, c),
             UNCHANGED <<networks, unheard, subnets, daemon, up>>,
             \A k \in Host : casts'[k] = casts[k] \/ (k = h /\ c \notin Request)
      PROVE  OnlyRelists' /\ \A k \in Host : Quiet(k)' => Follows(k)'
  <2>1. OnlyRelists'
    BY <1>0, <1>1, BeginOrigin DEF OnlyRelists, GensOf, Relists
  <2>2. ASSUME NEW k \in Host, Quiet(k)' PROVE Follows(k)'
    <3>1. CASE casts'[k] = casts[k]
      <4>1. Follows(k)
        BY <1>0, <1>1, <2>2, <3>1 DEF Quiet
      <4> QED BY <1>0, <1>1, <4>1, BeginFollows
    <3>2. CASE k = h /\ c \notin Request
      BY <1>0, <1>1, <3>2, RestartFollows
    <3> QED BY <1>1, <3>1, <3>2
  <2> QED BY <2>1, <2>2
<1>2. ASSUME NEW h \in Host, BootService(h)
      PROVE  OnlyRelists' /\ \A k \in Host : Quiet(k)' => Follows(k)'
  <2>1. Boot \in Cause
    BY DhcpAssumption DEF DhcpAssumption, Boot, Cause
  <2>2. Begin(h, Boot) /\ UNCHANGED <<networks, unheard, casts, subnets, daemon, up>>
    BY <1>2 DEF BootService
  <2>3. \A k \in Host : casts'[k] = casts[k] \/ (k = h /\ Boot \notin Request)
    BY <2>2
  <2> QED BY <1>1, <2>1, <2>2, <2>3
<1>3. ASSUME NEW k \in 1..MaxChanges, NEW h \in Host, RestartDhcp(h, k)
      PROVE  OnlyRelists' /\ \A j \in Host : Quiet(j)' => Follows(j)'
  <2>1. k \in Cause /\ k \notin Request
    BY DhcpAssumption DEF DhcpAssumption, Cause
  <2>2. \A j \in Host : casts'[j] = casts[j] \/ j = h
    BY <1>0, <1>3 DEF RestartDhcp, TypeOK
  <2> QED BY <1>1, <1>3, <2>1, <2>2 DEF RestartDhcp
<1>4. ASSUME NEW q \in Request, EnableDhcpOption(q)
      PROVE  OnlyRelists' /\ \A k \in Host : Quiet(k)' => Follows(k)'
  <2>1. req[q].host \in Host /\ q \in Cause
    BY <1>0, <1>4 DEF EnableDhcpOption, TypeOK, Cause
  <2>2. /\ Begin(req[q].host, q)
        /\ UNCHANGED <<networks, unheard, casts, subnets, daemon, up>>
    BY <1>4 DEF EnableDhcpOption, serviceVars
  <2>3. \A k \in Host : casts'[k] = casts[k] \/ (k = req[q].host /\ q \notin Request)
    BY <2>2
  <2> QED BY <1>1, <2>1, <2>2, <2>3
\* A step of a generation that sets no subnets.
<1>5. ASSUME NEW g \in gens, ListNetworks(g) \/ ReadRecords(g)
      PROVE  OnlyRelists' /\ \A k \in Host : Quiet(k)' => Follows(k)'
  <2>1. ASSUME NEW d \in gens'
        PROVE  \E o \in gens :
                 /\ d.host = o.host /\ d.for = o.for /\ d.alone = o.alone
                 /\ \/ d = o
                    \/ o.step = "list" /\ d.step = "subnets" /\ d.networks = networks
                    \/ o.step = "read" /\ d.step = "write" /\ d.networks = o.networks
    BY <1>0, <1>5, <1>b, <2>1, StepOrigin
  <2>2. OnlyRelists'
    BY <1>0, <2>1 DEF OnlyRelists, Relists
  <2>3. UNCHANGED <<networks, casts, subnets, daemon, up, mixed>>
    BY <1>5 DEF ListNetworks, ReadRecords
  <2>4. ASSUME NEW k \in Host, Quiet(k)', unheard'[k] = unheard[k] PROVE Follows(k)'
    <3>1. Follows(k)
      BY <1>0, <2>3, <2>4 DEF Quiet
    <3>2. Restarting(k) => Restarting(k)'
      BY <1>0, <1>5, StillThere DEF Restarting, Relists
    <3>3. ASSUME NEW d \in gens', d.host = k, Relists(d)
          PROVE  \/ d.step = "list"
                 \/ d.step = "subnets" /\ d.networks = networks
                 \/ \E o \in gens : /\ o.host = k /\ Relists(o) /\ o.step # "list"
                                    /\ o.step = "subnets" => d.step = "subnets"
                                    /\ d.networks = o.networks
                                    /\ d.alone => o.alone
      <4>1. PICK o \in gens :
              /\ d.host = o.host /\ d.for = o.for /\ d.alone = o.alone
              /\ \/ d = o
                 \/ o.step = "list" /\ d.step = "subnets" /\ d.networks = networks
                 \/ o.step = "read" /\ d.step = "write" /\ d.networks = o.networks
        BY <2>1
      <4> QED BY <3>3, <4>1 DEF Relists
    <3> QED BY <2>3, <3>1, <3>2, <3>3, SameSubnets
  <2>5. ASSUME NEW k \in Host, unheard'[k] # unheard[k] PROVE Follows(k)'
    <3>1. ListNetworks(g) /\ k = g.host /\ g.step = "list"
      BY <1>0, <1>5, <2>5 DEF ListNetworks, ReadRecords, TypeOK
    <3> QED BY <1>0, <1>b, <3>1, ListFollows
  <2> QED BY <2>2, <2>4, <2>5
<1>6. ASSUME NEW g \in gens, SetSubnets(g)
      PROVE  OnlyRelists' /\ \A k \in Host : Quiet(k)' => Follows(k)'
  <2>0. g \in Generation /\ g.host \in Host /\ Relists(g) /\ g.step = "subnets"
    BY <1>0, <1>6 DEF TypeOK, Generation, OnlyRelists, SetSubnets
  <2>a. ~ListNetworks(g) /\ ~ReadRecords(g)
    BY <1>b, <2>0
  <2>1. ASSUME NEW d \in gens'
        PROVE  \E o \in gens :
                 /\ d.host = o.host /\ d.for = o.for /\ d.alone = o.alone
                 /\ d = o \/ (o = g /\ d.step = "read" /\ d.networks = g.networks)
    BY <1>0, <1>6, <2>a, <2>1, StepOrigin
  <2>2. OnlyRelists'
    BY <1>0, <2>1 DEF OnlyRelists, Relists
  <2>3. UNCHANGED <<networks, unheard, casts, daemon, up, mixed>>
    BY <1>6 DEF SetSubnets
  <2>4. ASSUME NEW k \in Host, Quiet(k)' PROVE Follows(k)'
    <3>1. Follows(k)
      BY <1>0, <2>3, <2>4 DEF Quiet
    <3>2. Restarting(k) => Restarting(k)'
      BY <1>0, <1>6, StillThere DEF Restarting, Relists
    <3>3. CASE k # g.host
      <4>1. subnets'[k] = subnets[k]
        BY <1>0, <1>6, <3>3 DEF SetSubnets, TypeOK
      <4>2. \A d \in gens' : d.host = k => d \in gens
        BY <2>1, <3>3
      <4> QED BY <2>3, <3>1, <3>2, <4>1, <4>2, SameSubnets
    <3>4. CASE k = g.host
      <4>1. subnets'[k] = NewSubnets(g)
        BY <1>0, <1>6, <3>4 DEF SetSubnets, TypeOK
      <4>2. Restarting(k)'
        BY <2>0, <3>2, <3>4 DEF Restarting
      <4>3. ASSUME NEW d \in gens', d.host = k, Relists(d), d.alone \/ "subnets" \notin mixed[k]
            PROVE  d.networks = networks /\ subnets'[k] = Here(k)
        <5>1. PICK o \in gens :
                /\ d.host = o.host /\ d.for = o.for /\ d.alone = o.alone
                /\ d = o \/ (o = g /\ d.step = "read" /\ d.networks = g.networks)
          BY <2>1
        <5>2. o = g /\ (g.alone \/ "subnets" \notin mixed[k])
          BY <1>0, <2>0, <3>4, <4>3, <5>1 DEF Apart, Relists
        <5>3. g.networks = networks
          BY <2>0, <3>1, <3>4, <5>2 DEF Follows
        <5>4. d.networks = g.networks
          BY <5>1, <5>2
        <5> QED BY <3>4, <4>1, <5>3, <5>4 DEF NewSubnets, Here
      <4>4. Here(k)' = Here(k)
        BY <2>3 DEF Here
      <4> QED BY <2>3, <4>2, <4>3, <4>4 DEF Follows, Relists
    <3> QED BY <3>3, <3>4
  <2> QED BY <2>2, <2>4
<1>7. ASSUME NEW g \in gens, NEW o \in {"runs", "exits", "raises"}, WriteAndRestart(g, o)
      PROVE  OnlyRelists' /\ \A k \in Host : Quiet(k)' => Follows(k)'
  <2>1. /\ gens' = gens \ {g} /\ g.step = "write" /\ g.host \in Host
        /\ UNCHANGED <<networks, unheard, casts, subnets>>
        /\ \A k \in Host : k # g.host => mixed'[k] = mixed[k] /\ daemon'[k] = daemon[k]
        /\ up' \subseteq up \union {g.host}
    <3>1. g.host \in Host /\ \A k \in Host : k # g.host => mixed'[k] = mixed[k]
      BY <1>0, <1>7, WriteMixed
    <3>2. gens' = gens \ {g} /\ g.step = "write" /\ UNCHANGED <<networks, unheard, casts, subnets>>
      BY <1>7 DEF WriteAndRestart
    <3>3. \A k \in Host : k # g.host => daemon'[k] = daemon[k]
      BY <1>0, <1>7 DEF WriteAndRestart, TypeOK
    <3>4. up' \subseteq up \union {g.host}
      BY <1>7 DEF WriteAndRestart, Answer
    <3> QED BY <3>1, <3>2, <3>3, <3>4
  <2>2. OnlyRelists'
    BY <1>0, <2>1 DEF OnlyRelists, Relists
  <2>3. \A k \in Host : Here(k)' = Here(k)
    BY <2>1 DEF Here
  <2>4. ASSUME NEW k \in Host, Quiet(k)', k # g.host PROVE Follows(k)'
    <3>1. Follows(k)
      BY <1>0, <2>1, <2>4 DEF Quiet
    <3>2. Restarting(k) => Restarting(k)'
      BY <2>1, <2>4 DEF Restarting, Relists
    <3>3. \A d \in gens' : d.host = k => d \in gens
      BY <2>1
    <3> QED BY <2>1, <2>4, <3>1, <3>2, <3>3, SameSubnets
  <2>5. ASSUME Quiet(g.host)' PROVE Follows(g.host)'
    <3>0. Follows(g.host)
      BY <1>0, <2>1, <2>5 DEF Quiet
    <3>1. daemon'[g.host] # NoConf => daemon'[g.host].subnets = subnets[g.host]
      BY <1>0, <1>7, <2>1 DEF WriteAndRestart, TypeOK
    <3>2. CASE Relists(g)
      <4>1. ASSUME NEW d \in gens', d.host = g.host, Relists(d)
            PROVE  ~d.alone /\ "subnets" \in mixed'[g.host]
        <5>1. ~g.alone /\ ~d.alone /\ "subnets" \in mixed[g.host]
          BY <1>0, <2>1, <3>2, <4>1 DEF Apart
        <5> QED BY <1>0, <1>7, <5>1, WriteMixed
      <4>2. ASSUME "subnets" \notin mixed'[g.host]
            PROVE  subnets[g.host] = Here(g.host)
        <5>1. g.alone \/ "subnets" \notin mixed[g.host]
          BY <1>0, <1>7, <4>2, WriteMixed
        <5> QED BY <2>1, <3>0, <3>2, <5>1 DEF Follows
      <4> QED BY <2>1, <2>3, <3>1, <4>1, <4>2 DEF Follows, Relists
    <3>3. CASE ~Relists(g)
      <4>1. "subnets" \in mixed'[g.host] <=> "subnets" \in mixed[g.host]
        BY <1>0, <1>7, <3>3, WriteMixed
      <4>2. up' = up
        <5>1. g.for # Boot
          BY <3>3, DhcpAssumption DEF DhcpAssumption, Relists, Boot
        <5> QED BY <1>7, <5>1 DEF WriteAndRestart, Answer
      <4>3. Restarting(g.host) => Restarting(g.host)'
        BY <2>1, <3>3 DEF Restarting, Relists
      <4> QED BY <2>1, <2>3, <3>0, <3>1, <4>1, <4>2, <4>3 DEF Follows, Relists
    <3> QED BY <3>2, <3>3
  <2> QED BY <2>1, <2>2, <2>4, <2>5
<1>8. ASSUME NEW h \in Host, Crash(h)
      PROVE  OnlyRelists' /\ \A k \in Host : Quiet(k)' => Follows(k)'
  <2>1. /\ gens' = gens \ GensOf(h) /\ up' = up \ {h}
        /\ UNCHANGED <<networks, unheard, casts, daemon, mixed>>
        /\ \A k \in Host : k # h => subnets'[k] = subnets[k]
    BY <1>0, <1>8 DEF Crash, TypeOK
  <2>2. OnlyRelists'
    BY <1>0, <2>1 DEF OnlyRelists, Relists
  <2>3. ASSUME NEW k \in Host, Quiet(k)' PROVE Follows(k)'
    <3>1. CASE k = h
      BY <2>1, <3>1 DEF Follows, GensOf
    <3>2. CASE k # h
      <4>1. Follows(k)
        BY <1>0, <2>1, <2>3 DEF Quiet
      <4>2. Restarting(k) => Restarting(k)'
        BY <2>1, <3>2 DEF Restarting, Relists, GensOf
      <4> QED BY <2>1, <3>2, <4>1, <4>2, SameSubnets
    <3> QED BY <3>1, <3>2
  <2> QED BY <2>2, <2>3
<1>9. ASSUME NEW net \in Net, NEW row \in Row \union {NoRow}, ChangeNetworks(net, row)
      PROVE  OnlyRelists' /\ \A k \in Host : Quiet(k)' => Follows(k)'
  <2>1. gens' = gens /\ \A k \in Host : unheard'[k] # {}
    BY <1>9 DEF ChangeNetworks
  <2> QED BY <1>0, <2>1 DEF OnlyRelists, Relists, Quiet
\* A broadcast is cast to a host, or nothing changes for it.
<1>10. ASSUME NEW j \in 1..MaxChanges, Broadcast(j)
       PROVE  OnlyRelists' /\ \A k \in Host : Quiet(k)' => Follows(k)'
  <2>1. UNCHANGED <<networks, up, subnets, daemon, gens, mixed>>
    BY <1>10 DEF Broadcast
  <2>2. ASSUME NEW k \in Host
        PROVE  casts'[k] # {} \/ (casts'[k] = casts[k] /\ unheard'[k] = unheard[k])
    BY <1>10 DEF Broadcast
  <2> QED BY <1>0, <2>1, <2>2 DEF OnlyRelists, Relists, Quiet, Follows, Restarting, Here
\* Requests that go on leave all this alone, and so do the rows of services.
<1>11. CASE UNCHANGED <<networks, unheard, casts, up, subnets, daemon, gens, mixed>>
  BY <1>0, <1>11 DEF OnlyRelists, Relists, Quiet, Follows, Restarting, Here
<1>12. ASSUME NEW q \in Request,
              \/ WriteRecord(q) \/ GetServices(q) \/ NoService(q) \/ CallTimesOut(q)
              \/ \E h \in Host : CheckSupport(q, h)
       PROVE  UNCHANGED <<networks, unheard, casts, up, subnets, daemon, gens, mixed>>
  BY <1>12 DEF WriteRecord, GetServices, CheckSupport, NoService, CallTimesOut, serviceVars
<1>13. ASSUME NEW h \in Host, Renew(h) \/ Lapse(h)
       PROVE  UNCHANGED <<networks, unheard, casts, up, subnets, daemon, gens, mixed>>
  BY <1>13 DEF Renew, Lapse
<1>14. CASE UNCHANGED vars
  BY <1>11, <1>14 DEF vars
<1> QED
  BY <1>2, <1>3, <1>4, <1>5, <1>6, <1>7, <1>8, <1>9, <1>10, <1>11, <1>12, <1>13, <1>14 DEF Next

(* A service to which every change of the networks since it listed them was *)
(* cast, and which has worked these off, has their subnets, and its dhcpd   *)
(* serves them, unless two restarts listed the networks at the same time    *)
(* and none has run alone since.                                            *)
THEOREM SubnetsAreFollowed == Spec => []SubnetsFollowNetworks
<1>1. Init => SubInv
  BY InitTypeOK DEF Init, SubInv, GenInv, Apart, Askers, OnlyRelists, Follows
<1>2. SubInv => SubnetsFollowNetworks
  <2> SUFFICES ASSUME SubInv, NEW h \in up, Quiet(h), GensOf(h) = {}, "subnets" \notin mixed[h]
               PROVE  subnets[h] = Here(h) /\ (daemon[h] # NoConf => daemon[h].subnets = Here(h))
    BY DEF SubnetsFollowNetworks, Quiet, Here
  <2>1. h \in Host /\ ~ Restarting(h)
    BY DEF SubInv, GenInv, TypeOK, Restarting, GensOf
  <2> QED BY <2>1 DEF SubInv, Follows
<1> QED BY <1>1, <1>2, SubStep, PTL DEF Spec
=============================================================================
