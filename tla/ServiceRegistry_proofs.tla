------------------------ MODULE ServiceRegistry_proofs ------------------------
(***************************************************************************)
(* Theorems about the services table, for any number of hosts and          *)
(* processes, any interval and any timeout longer than it.                 *)
(***************************************************************************)
EXTENDS ServiceRegistry, TLAPS

\* The initial state is well typed.
LEMMA InitTypeOK == Init => TypeOK
  BY RegistryAssumption DEF RegistryAssumption, Init, TypeOK, Phase

\* Every step keeps the types.
LEMMA TypeStep == TypeOK /\ [Next]_vars => TypeOK'
<1> SUFFICES ASSUME TypeOK, [Next]_vars PROVE TypeOK'
  OBVIOUS
<1> USE RegistryAssumption DEF RegistryAssumption, TypeOK, Phase, Renewed
<1>1. CASE Tick
  <2>1. row' \in [Host -> [there : BOOLEAN, online : BOOLEAN, age : 0..Timeout]]
    BY <1>1 DEF Tick
  <2>2. clock' \in [Worker -> 0..Interval]
    <3>1. ASSUME NEW w \in Worker, keepalive[w] = "waiting"
          PROVE  clock[w] + 1 \in 0..Interval
      <4>1. clock[w] # Interval
        BY <1>1, <3>1 DEF Tick, Woken
      <4>2. clock[w] \in 0..Interval /\ Interval \in Nat
        OBVIOUS
      <4> QED BY ONLY <4>1, <4>2
    <3> QED BY <1>1, <3>1 DEF Tick
  <2> QED BY <1>1, <2>1, <2>2 DEF Tick
<1>2. ASSUME NEW w \in Worker, Launch(w) PROVE TypeOK'
  BY <1>2 DEF Launch
\* What a registration does to the phase and to the row.
<1>a. ASSUME NEW w \in Worker, NEW p \in Phase, phase' = [phase EXCEPT ![w] = p],
             row' = row \/ row' = [row EXCEPT ![HostOf[w]] = Renewed],
             UNCHANGED <<keepalive, clock, misses, deregister>>
      PROVE  TypeOK'
  <2>1. Renewed \in [there : BOOLEAN, online : BOOLEAN, age : 0..Timeout]
    OBVIOUS
  <2>2. row' \in [Host -> [there : BOOLEAN, online : BOOLEAN, age : 0..Timeout]]
    BY ONLY <1>a, <2>1, TypeOK DEF TypeOK
  <2>3. phase' \in [Worker -> Phase]
    BY ONLY <1>a, TypeOK DEF TypeOK
  <2> QED BY <1>a, <2>2, <2>3
<1>3. ASSUME NEW w \in Worker, LookUp(w) PROVE TypeOK'
  <2>1. \E p \in Phase : phase' = [phase EXCEPT ![w] = p]
    BY <1>3 DEF LookUp
  <2>2. row' = row \/ row' = [row EXCEPT ![HostOf[w]] = Renewed]
    BY ONLY <1>3 DEF LookUp
  <2> QED BY <1>3, <1>a, <2>1, <2>2 DEF LookUp
<1>4. ASSUME NEW w \in Worker, InsertRow(w) PROVE TypeOK'
  <2>1. \E p \in Phase : phase' = [phase EXCEPT ![w] = p]
    BY <1>4 DEF InsertRow
  <2>2. row' = row \/ row' = [row EXCEPT ![HostOf[w]] = Renewed]
    BY ONLY <1>4 DEF InsertRow
  <2> QED BY <1>4, <1>a, <2>1, <2>2 DEF InsertRow
<1>5. ASSUME NEW w \in Worker, RegisterFails(w) PROVE TypeOK'
  BY <1>5 DEF RegisterFails
<1>6. ASSUME NEW w \in Worker, SpawnKeepalive(w) \/ NoKeepalive(w) PROVE TypeOK'
  <2>1. 0 \in 0..Interval /\ Timeout \in 0..Timeout
    OBVIOUS
  <2>2. CASE SpawnKeepalive(w)
    BY <2>1, <2>2 DEF SpawnKeepalive
  <2>3. CASE NoKeepalive(w)
    BY <2>3 DEF NoKeepalive
  <2> QED BY <1>6, <2>2, <2>3
<1>7. ASSUME NEW w \in Worker, CheckEvent(w) \/ WakeUp(w) PROVE TypeOK'
  BY <1>7 DEF CheckEvent, WakeUp
<1>8. ASSUME NEW w \in Worker, Touch(w) PROVE TypeOK'
  <2>1. row' \in [Host -> [there : BOOLEAN, online : BOOLEAN, age : 0..Timeout]]
    BY <1>8 DEF Touch, Touched
  <2> QED BY <1>8, <2>1 DEF Touch
<1>9. ASSUME NEW w \in Worker, TouchFails(w) PROVE TypeOK'
  BY <1>9 DEF TouchFails
<1>10. ASSUME NEW w \in Worker, Signal(w) \/ StopServer(w) PROVE TypeOK'
  BY <1>10 DEF Signal, StopServer
<1>11. ASSUME NEW w \in Worker, DelHost(w) PROVE TypeOK'
  BY <1>11 DEF DelHost
<1>12. ASSUME NEW w \in Worker, Exit(w) \/ Crash(w) PROVE TypeOK'
  BY <1>12 DEF Exit, Crash
<1>13. CASE UNCHANGED vars
  BY <1>13 DEF vars, procVars
<1> QED
  BY <1>1, <1>2, <1>3, <1>4, <1>5, <1>6, <1>7, <1>8, <1>9, <1>10, <1>11, <1>12, <1>13
     DEF Next

(* Every reachable state is well typed: in particular no keepalive waits   *)
(* longer than heartbeat_interval.                                         *)
THEOREM TypeCorrect == Spec => []TypeOK
  BY InitTypeOK, TypeStep, PTL DEF Spec

-----------------------------------------------------------------------------
(* Registration.  Who has registered, or has run into the row, has a row,   *)
(* for rows are never deleted: so the second call of a registration finds   *)
(* one and inserts none, and only that insert could make a start fail.  A   *)
(* process that is not there, or is not yet registered, has no keepalive.   *)
RegisteredHaveRow ==
    \A w \in Worker :
        phase[w] \in {"again", "registered", "running"} \/ keepalive[w] # "none"
            => row[HostOf[w]].there

\* What the phases of a registration are.
Registering == {"starting", "inserting", "again", "reinserting"}

DownAreQuiet ==
    \A w \in Worker :
        phase[w] \in Registering \union {"down"} => keepalive[w] = "none"

NothingReinserted == \A w \in Worker : phase[w] # "reinserting"

RegInv ==
    /\ TypeOK /\ RegisteredHaveRow /\ DownAreQuiet
    /\ NothingReinserted /\ RegistrationSucceeds

\* Rows are never deleted.
LEMMA RowsStay ==
  ASSUME TypeOK, [Next]_vars, NEW h \in Host, row[h].there
  PROVE  row'[h].there
<1> USE RegistryAssumption DEF RegistryAssumption, TypeOK, Renewed
<1>1. CASE Tick
  BY <1>1 DEF Tick
<1>2. ASSUME NEW w \in Worker,
             LookUp(w) \/ InsertRow(w) \/ Touch(w) \/ DelHost(w)
      PROVE  row'[h].there
  <2>1. CASE Touch(w)
    BY <2>1 DEF Touch, Touched
  <2>2. CASE DelHost(w)
    BY <2>2 DEF DelHost
  <2> QED BY <1>2, <2>1, <2>2 DEF LookUp, InsertRow
<1>3. CASE UNCHANGED row
  BY <1>3
<1> QED
  BY <1>1, <1>2, <1>3
     DEF Next, vars, Launch, RegisterFails, SpawnKeepalive, NoKeepalive, CheckEvent, TouchFails,
         WakeUp, Signal, StopServer, Exit, Crash

\* The invariant of registration is inductive.
LEMMA RegStep == RegInv /\ [Next]_vars => RegInv'
<1> SUFFICES ASSUME RegInv, [Next]_vars PROVE RegInv'
  OBVIOUS
<1>0. TypeOK /\ TypeOK' /\ \A h \in Host : row[h].there => row'[h].there
  BY TypeStep, RowsStay DEF RegInv
<1>1. ASSUME NEW w \in Worker PROVE HostOf[w] \in Host
  BY RegistryAssumption DEF RegistryAssumption
<1> USE DEF RegInv, RegisteredHaveRow, DownAreQuiet, Registering, NothingReinserted,
           RegistrationSucceeds
\* A step in which only w changes, and w changes as the invariant allows.
<1>2. ASSUME NEW w \in Worker, NEW p \in Phase, NEW k,
             phase' = [phase EXCEPT ![w] = p], keepalive' = [keepalive EXCEPT ![w] = k],
             p \notin {"failed", "reinserting"},
             p \in Registering \union {"down"} => k = "none",
             p \in {"again", "registered", "running"} \/ k # "none"
               => row'[HostOf[w]].there
      PROVE  RegInv'
  BY <1>0, <1>1, <1>2 DEF TypeOK
<1>3. CASE Tick \/ UNCHANGED vars
  BY <1>0, <1>1, <1>3 DEF Tick, vars, procVars
<1> USE DEF TypeOK, Phase
<1>4. ASSUME NEW w \in Worker, Launch(w) PROVE RegInv'
  <2>1. keepalive' = [keepalive EXCEPT ![w] = "none"] /\ phase' = [phase EXCEPT ![w] = "starting"]
    BY <1>0, <1>4 DEF Launch
  <2> QED BY <1>2, <2>1
\* The second call of a registration finds the row that the first ran into.
<1>5. ASSUME NEW w \in Worker, LookUp(w) \/ InsertRow(w) PROVE RegInv'
  <2>1. CASE LookUp(w)
    <3>1. phase[w] = "again" => row[HostOf[w]].there
      BY <1>1
    <3>2. PICK p \in {"inserting", "again", "registered"} :
            /\ phase' = [phase EXCEPT ![w] = p]
            /\ p # "inserting" => row'[HostOf[w]].there
      BY <1>0, <1>1, <2>1, <3>1 DEF LookUp, Renewed
    <3>3. keepalive' = [keepalive EXCEPT ![w] = "none"]
      BY <1>0, <2>1 DEF LookUp
    <3> QED BY <1>2, <3>2, <3>3
  <2>2. CASE InsertRow(w)
    <3>1. phase[w] = "inserting"
      BY <2>2 DEF InsertRow
    <3>2. PICK p \in {"again", "registered"} :
            phase' = [phase EXCEPT ![w] = p] /\ row'[HostOf[w]].there
      BY <1>0, <1>1, <2>2, <3>1 DEF InsertRow, Renewed
    <3>3. keepalive' = [keepalive EXCEPT ![w] = "none"]
      BY <1>0, <2>2 DEF InsertRow
    <3> QED BY <1>2, <3>2, <3>3
  <2> QED BY <1>5, <2>1, <2>2
<1>6. ASSUME NEW w \in Worker, SpawnKeepalive(w) PROVE RegInv'
  BY <1>0, <1>1, <1>2, <1>6 DEF SpawnKeepalive
<1>7. ASSUME NEW w \in Worker,
             NoKeepalive(w) \/ Signal(w) \/ StopServer(w) \/ DelHost(w)
      PROVE  RegInv'
  <2>1. PICK p \in {"leaving", "running", "draining", "waiting"} :
          /\ phase' = [phase EXCEPT ![w] = p]
          /\ p = "running" => phase[w] = "running"
    <3>1. CASE Signal(w)
      BY <1>0, <3>1 DEF Signal
    <3>2. CASE NoKeepalive(w) \/ StopServer(w) \/ DelHost(w)
      BY <1>0, <3>2 DEF NoKeepalive, StopServer, DelHost
    <3> QED BY <1>7, <3>1, <3>2
  <2>2. keepalive' = [keepalive EXCEPT ![w] = keepalive[w]]
    BY <1>0, <1>7 DEF NoKeepalive, Signal, StopServer, DelHost
  <2>3. phase[w] = "running" \/ keepalive[w] # "none" => row'[HostOf[w]].there
    BY <1>0, <1>1
  <2> QED BY <1>2, <2>1, <2>2, <2>3
<1>8. ASSUME NEW w \in Worker, CheckEvent(w) \/ Touch(w) \/ TouchFails(w) \/ WakeUp(w)
      PROVE  RegInv'
  <2>1. /\ phase' = [phase EXCEPT ![w] = phase[w]]
        /\ keepalive[w] # "none"
    BY <1>0, <1>8 DEF CheckEvent, Touch, TouchFails, WakeUp
  <2>2. PICK k : keepalive' = [keepalive EXCEPT ![w] = k]
    BY <1>8 DEF CheckEvent, Touch, TouchFails, WakeUp
  <2> QED BY <1>0, <1>1, <1>2, <2>1, <2>2
<1>9. ASSUME NEW w \in Worker, Exit(w) \/ Crash(w) PROVE RegInv'
  BY <1>0, <1>1, <1>2, <1>9 DEF Exit, Crash
<1>10. ASSUME NEW w \in Worker, RegisterFails(w) PROVE RegInv'
  <2>1. keepalive' = [keepalive EXCEPT ![w] = "none"] /\ phase' = [phase EXCEPT ![w] = "down"]
    BY <1>0, <1>10 DEF RegisterFails
  <2> QED BY <1>2, <2>1
<1> QED
  BY <1>3, <1>4, <1>5, <1>6, <1>7, <1>8, <1>9, <1>10 DEF Next

\* The invariant of registration holds in every reachable state.
LEMMA RegInvariant == Spec => []RegInv
<1>1. Init => RegInv
  BY InitTypeOK, RegistryAssumption
     DEF RegistryAssumption, Init, RegInv, RegisteredHaveRow, DownAreQuiet,
         NothingReinserted, RegistrationSucceeds
<1> QED BY <1>1, RegStep, PTL DEF Spec

(* No start fails because of the row, whatever siblings that start, stop or *)
(* die do to it in the course of the two calls of a registration.           *)
THEOREM StartSucceeds == Spec => []RegistrationSucceeds
<1>1. RegInv => RegistrationSucceeds
  BY DEF RegInv
<1> QED BY <1>1, RegInvariant, PTL

-----------------------------------------------------------------------------
(* Heartbeats.  The keepalive of a process that runs goes on, unless an     *)
(* error other than a lost connection ends it; and the row is at most as    *)
(* old as the heartbeats that were lost since the last that got through,    *)
(* and the wait it is in, have taken.                                       *)
HeartbeatsSurvive == "dberror" \notin Faults

Bound(w) == IF keepalive[w] = "waiting" THEN misses[w] * Interval + clock[w]
                                        ELSE (misses[w] + 1) * Interval

Beats(w) ==
    phase[w] = "running" =>
        /\ keepalive[w] \in {"checking", "touching", "waiting"}
        /\ misses[w] < Timeout => row[HostOf[w]].age <= Bound(w)

BeatInv == RegInv /\ \A w \in Worker : Beats(w)

\* The only arithmetic of the argument that is not linear.
LEMMA OneMoreInterval ==
  ASSUME NEW m \in Nat
  PROVE  /\ m * Interval \in Nat
         /\ (m + 1) * Interval = m * Interval + Interval
         /\ m + 1 <= (m + 1) * Interval
         /\ (m + 1) * Interval \in Nat
<1>1. Interval \in Nat /\ Interval >= 1
  BY RegistryAssumption DEF RegistryAssumption
<1>2. (m + 1) * Interval = m * Interval + Interval
  BY <1>1
<1>3. m * Interval \in Nat
  BY <1>1
<1>4. m <= m * Interval
  BY <1>1
<1> QED BY <1>1, <1>2, <1>3, <1>4

\* A bound is a natural number.
LEMMA BoundIsNat == ASSUME TypeOK, NEW w \in Worker PROVE Bound(w) \in Nat
<1>1. misses[w] \in Nat /\ clock[w] \in Nat
  BY RegistryAssumption DEF RegistryAssumption, TypeOK
<1> QED BY <1>1, OneMoreInterval DEF Bound

\* What others do leaves the bound of a process that they do not touch alone,
\* and lets its row get only younger.
LEMMA OthersHelp ==
  ASSUME TypeOK, NEW w \in Worker, Beats(w),
         phase'[w] = "running" => phase[w] = "running",
         keepalive'[w] = keepalive[w], clock'[w] = clock[w], misses'[w] = misses[w],
         row'[HostOf[w]].age \in {0, row[HostOf[w]].age}
  PROVE  Beats(w)'
<1>1. Bound(w)' = Bound(w)
  BY DEF Bound
<1>2. 0 <= Bound(w)
  BY BoundIsNat
<1>3. QED
  BY <1>1, <1>2 DEF Beats

\* The age of a row is what it was, or it starts again from 0.
LEMMA AgeStep ==
  ASSUME TypeOK, [Next]_vars, ~Tick, NEW h \in Host
  PROVE  row'[h].age \in {0, row[h].age}
<1> USE RegistryAssumption DEF RegistryAssumption, TypeOK, Renewed
<1>1. ASSUME NEW w \in Worker, LookUp(w) \/ InsertRow(w)
      PROVE  row'[h].age \in {0, row[h].age}
  BY <1>1 DEF LookUp, InsertRow
<1>2. ASSUME NEW w \in Worker, Touch(w) PROVE row'[h].age \in {0, row[h].age}
  BY <1>2 DEF Touch, Touched
<1>3. ASSUME NEW w \in Worker, DelHost(w) PROVE row'[h].age \in {0, row[h].age}
  BY <1>3 DEF DelHost
<1>4. CASE UNCHANGED row
  BY <1>4
<1> QED
  BY <1>1, <1>2, <1>3, <1>4
     DEF Next, vars, Launch, RegisterFails, SpawnKeepalive, NoKeepalive, CheckEvent, TouchFails,
         WakeUp, Signal, StopServer, Exit, Crash

\* The bound on the age of the row is inductive.
LEMMA BeatStep == ASSUME HeartbeatsSurvive PROVE BeatInv /\ [Next]_vars => BeatInv'
<1> SUFFICES ASSUME BeatInv, [Next]_vars, NEW v \in Worker PROVE Beats(v)'
  BY RegStep DEF BeatInv
<1>0. TypeOK /\ TypeOK' /\ Beats(v) /\ HostOf[v] \in Host
  BY TypeStep, RegistryAssumption DEF BeatInv, RegInv, RegistryAssumption
<1>1. /\ misses[v] \in Nat /\ clock[v] \in 0..Interval
      /\ row[HostOf[v]].age \in Nat /\ Interval \in Nat
  BY <1>0, RegistryAssumption DEF RegistryAssumption, TypeOK
<1>2. CASE Tick
  <2>1. /\ phase' = phase /\ keepalive' = keepalive /\ misses' = misses
        /\ row'[HostOf[v]].age <= row[HostOf[v]].age + 1
        /\ row'[HostOf[v]].age \in Nat
    BY <1>0, <1>1, <1>2, RegistryAssumption DEF Tick, TypeOK, RegistryAssumption
  <2>2. CASE phase[v] = "running"
    <3>1. keepalive[v] = "waiting" /\ clock'[v] = clock[v] + 1
      BY <1>0, <1>2, <2>2 DEF Tick, Beats
    <3>2. Bound(v) = misses[v] * Interval + clock[v]
      BY <3>1 DEF Bound
    <3>3. Bound(v)' = misses[v] * Interval + (clock[v] + 1)
      BY <3>1, <2>1 DEF Bound
    <3>4. misses[v] * Interval \in Nat
      BY <1>1, OneMoreInterval
    <3> QED BY <1>0, <1>1, <2>1, <2>2, <3>1, <3>2, <3>3, <3>4 DEF Beats
  <2>3. CASE phase[v] # "running"
    BY <2>1, <2>3 DEF Beats
  <2> QED BY <2>2, <2>3
<1>3. CASE ~Tick
  <2>1. row'[HostOf[v]].age \in {0, row[HostOf[v]].age}
    BY <1>0, <1>3, AgeStep
  <2>2. ASSUME NEW w \in Worker, SpawnKeepalive(w), w = v PROVE Beats(v)'
    BY <1>0, <2>2, RegistryAssumption DEF SpawnKeepalive, Beats, TypeOK, RegistryAssumption
  <2>3. ASSUME NEW w \in Worker, CheckEvent(w), w = v PROVE Beats(v)'
    <3>1. CASE phase[v] = "running"
      <4>1. /\ keepalive[v] = "checking" /\ keepalive'[v] = "touching"
            /\ misses' = misses /\ phase' = phase
        BY <1>0, <2>3, <3>1 DEF CheckEvent, StopRequested, TypeOK
      <4>2. Bound(v)' = Bound(v) /\ Bound(v) \in Nat
        BY <1>0, <4>1, BoundIsNat DEF Bound
      <4> QED BY <1>0, <2>1, <4>1, <4>2 DEF Beats
    <3>2. CASE phase[v] # "running"
      BY <2>3, <3>2 DEF CheckEvent, Beats
    <3> QED BY <3>1, <3>2
  <2>4. ASSUME NEW w \in Worker, Touch(w), w = v PROVE Beats(v)'
    <3>1. /\ row'[HostOf[v]].age = 0 /\ keepalive'[v] = "waiting"
      BY <1>0, <2>4 DEF Touch, Touched, TypeOK
    <3>2. Bound(v)' \in Nat
      <4>1. misses'[v] = 0 /\ clock'[v] = 0
        BY <1>0, <2>4 DEF Touch, TypeOK
      <4>2. 0 * Interval \in Nat
        BY OneMoreInterval
      <4> QED BY <3>1, <4>1, <4>2 DEF Bound
    <3> QED BY <3>1, <3>2 DEF Beats
  <2>5. ASSUME NEW w \in Worker, TouchFails(w), w = v PROVE Beats(v)'
    <3>1. /\ keepalive[v] = "touching" /\ keepalive'[v] = "waiting" /\ clock'[v] = 0
          /\ row' = row /\ phase' = phase
      BY <1>0, <2>5, HeartbeatsSurvive
         DEF TouchFails, LoopSurvives, HeartbeatsSurvive, TypeOK
    <3>2. misses'[v] = IF misses[v] < Timeout THEN misses[v] + 1 ELSE misses[v]
      BY <1>0, <2>5 DEF TouchFails, TypeOK
    <3>3. CASE misses[v] < Timeout
      <4>1. Bound(v) = (misses[v] + 1) * Interval
        BY <3>1 DEF Bound
      <4>2. Bound(v)' = (misses[v] + 1) * Interval + 0
        BY <3>1, <3>2, <3>3 DEF Bound
      <4>3. Bound(v) \in Nat
        BY <1>0, BoundIsNat
      <4>4. Bound(v)' = Bound(v)
        BY <4>1, <4>2, <4>3
      <4> QED BY <1>0, <3>1, <3>3, <4>4 DEF Beats
    <3>4. CASE ~(misses[v] < Timeout)
      BY <3>1, <3>2, <3>4 DEF Beats
    <3> QED BY <3>3, <3>4
  <2>6. ASSUME NEW w \in Worker, WakeUp(w), w = v PROVE Beats(v)'
    <3>1. /\ keepalive[v] = "waiting" /\ keepalive'[v] = "checking"
          /\ row' = row /\ phase' = phase /\ misses' = misses
          /\ phase[v] = "running" => clock[v] = Interval
      BY <1>0, <2>6 DEF WakeUp, Woken, StopRequested, TypeOK
    <3>2. phase[v] = "running" => Bound(v)' = Bound(v)
      BY <1>1, <3>1, OneMoreInterval DEF Bound
    <3> QED BY <1>0, <3>1, <3>2 DEF Beats
  <2>7. CASE /\ phase'[v] = "running" => phase[v] = "running"
             /\ keepalive'[v] = keepalive[v] /\ clock'[v] = clock[v]
             /\ misses'[v] = misses[v]
    BY <1>0, <2>1, <2>7, OthersHelp
  <2>8. CASE phase'[v] # "running"
    BY <2>8 DEF Beats
  <2>9. ASSUME NEW w \in Worker,
               \/ Launch(w) \/ LookUp(w) \/ InsertRow(w) \/ RegisterFails(w)
               \/ NoKeepalive(w) \/ Signal(w) \/ StopServer(w) \/ DelHost(w)
        PROVE  Beats(v)'
    <3>1. keepalive' = keepalive /\ clock' = clock /\ misses' = misses
      BY <2>9 DEF Launch, LookUp, InsertRow, RegisterFails, NoKeepalive, Signal,
                  StopServer, DelHost
    <3>2. phase'[v] = "running" => phase[v] = "running"
      BY <1>0, <2>9 DEF Launch, LookUp, InsertRow, RegisterFails, NoKeepalive, Signal,
                        StopServer, DelHost, TypeOK, Phase
    <3> QED BY <2>7, <3>1, <3>2
  <2>10. ASSUME NEW w \in Worker, Exit(w) \/ Crash(w) PROVE Beats(v)'
    <3>1. CASE w = v
      BY <1>0, <2>10, <3>1, <2>8 DEF Exit, Crash, TypeOK
    <3>2. CASE w # v
      BY <1>0, <2>10, <3>2, <2>7 DEF Exit, Crash, TypeOK
    <3> QED BY <3>1, <3>2
  <2>11. ASSUME NEW w \in Worker, w # v,
                \/ SpawnKeepalive(w) \/ CheckEvent(w) \/ Touch(w)
                \/ TouchFails(w) \/ WakeUp(w)
         PROVE  Beats(v)'
    BY <1>0, <2>7, <2>11
       DEF SpawnKeepalive, CheckEvent, Touch, TouchFails, WakeUp, TypeOK
  <2>12. CASE UNCHANGED vars
    BY <2>7, <2>12 DEF vars, procVars
  <2> QED
    BY <1>3, <2>2, <2>3, <2>4, <2>5, <2>6, <2>9, <2>10, <2>11, <2>12 DEF Next
<1> QED BY <1>2, <1>3

(* A process that runs is found by those who send requests, as long as the  *)
(* heartbeats lost in a row leave less than heartbeat_timeout, unless an    *)
(* error other than a lost connection may end its keepalive.                *)
THEOREM RunningIsListed == ASSUME HeartbeatsSurvive PROVE Spec => []RunningStaysListed
<1>1. Init => BeatInv
  <2>1. Init => RegInv
    BY InitTypeOK, RegistryAssumption
       DEF RegistryAssumption, Init, RegInv, RegisteredHaveRow, DownAreQuiet,
           NothingReinserted, RegistrationSucceeds
  <2> QED BY <2>1 DEF Init, BeatInv, Beats
<1>2. BeatInv => RunningStaysListed
  <2> SUFFICES ASSUME BeatInv, NEW w \in Worker, phase[w] = "running",
                      (misses[w] + 1) * Interval < Timeout
               PROVE  Listed(HostOf[w])
    BY DEF RunningStaysListed
  <2>1. /\ misses[w] \in Nat /\ clock[w] \in 0..Interval /\ Timeout \in Nat
        /\ Interval \in Nat /\ HostOf[w] \in Host /\ row[HostOf[w]].age \in Nat
    BY RegistryAssumption DEF RegistryAssumption, BeatInv, RegInv, TypeOK
  <2>2. row[HostOf[w]].there
    BY DEF BeatInv, RegInv, RegisteredHaveRow
  <2>3. misses[w] < Timeout
    <3>1. misses[w] + 1 <= (misses[w] + 1) * Interval /\ (misses[w] + 1) * Interval \in Nat
      BY <2>1, OneMoreInterval
    <3>2. (misses[w] + 1) * Interval < Timeout
      OBVIOUS
    <3> QED BY <2>1, <3>1, <3>2
  <2>4. row[HostOf[w]].age <= Bound(w) /\ Bound(w) \in Nat
    BY <2>3, BoundIsNat DEF BeatInv, RegInv, Beats
  <2>5. Bound(w) <= (misses[w] + 1) * Interval
    <3>1. /\ misses[w] * Interval \in Nat /\ (misses[w] + 1) * Interval \in Nat
          /\ (misses[w] + 1) * Interval = misses[w] * Interval + Interval
      BY <2>1, OneMoreInterval
    <3>2. CASE keepalive[w] = "waiting"
      BY <2>1, <3>1, <3>2 DEF Bound
    <3>3. CASE keepalive[w] # "waiting"
      BY <3>1, <3>3 DEF Bound
    <3> QED BY <3>2, <3>3
  <2>6. row[HostOf[w]].age < Timeout
    BY <2>1, <2>4, <2>5, OneMoreInterval
  <2> QED BY <2>2, <2>6 DEF Listed
<1> QED BY <1>1, <1>2, BeatStep, PTL DEF Spec

-----------------------------------------------------------------------------
(* The table as the list of services that readers see.                     *)

\* What a step of the table is to those who read it.
LEMMA MembershipStep ==
  ASSUME RegInv, RegInv', [Next]_vars
  PROVE  [Promise!MembershipNext]_(Promise!memberVars)
<1>0. TypeOK /\ TypeOK' /\ \A w \in Worker : HostOf[w] \in Host
  BY RegistryAssumption DEF RegInv, RegistryAssumption
<1> DEFINE A == {w \in Worker : phase[w] \notin {"down", "failed"}}
           L == {h \in Host : Listed(h)}
\* The three kinds of step that change what a reader sees.
<1>1. ASSUME NEW w \in Worker, w \in A, A' = A, L' = L \union {HostOf[w]}
      PROVE  Promise!MembershipNext
  BY <1>1 DEF Promise!MembershipNext, Promise!Enlist
<1>2. ASSUME L' \subseteq L, A' = A PROVE Promise!MembershipNext
  <2>1. /\ L \ L' \in SUBSET Host /\ L \ L' \subseteq L
        /\ L' = L \ (L \ L')
    BY <1>2
  <2> QED BY <1>2, <2>1 DEF Promise!MembershipNext, Promise!Lapse
<1>3. ASSUME NEW w \in Worker, L' = L,
             \/ w \notin A /\ A' = A \union {w}
             \/ w \in A /\ A' = A \ {w}
      PROVE  Promise!MembershipNext
  BY <1>3 DEF Promise!MembershipNext, Promise!Start, Promise!Stop
<1>4. ASSUME row' = row PROVE L' = L
  BY <1>4 DEF Listed
<1>5. ASSUME NEW w \in Worker, phase' = [phase EXCEPT ![w] = phase'[w]],
             phase[w] \notin {"down", "failed"}, phase'[w] \notin {"down", "failed"}
      PROVE  A' = A
  BY <1>0, <1>5 DEF TypeOK
<1>6. ASSUME NEW w \in Worker, row' = [row EXCEPT ![HostOf[w]] = row'[HostOf[w]]],
             row'[HostOf[w]].there, row'[HostOf[w]].age = 0
      PROVE  L' = L \union {HostOf[w]}
  BY <1>0, <1>6, RegistryAssumption DEF Listed, TypeOK, RegistryAssumption
<1>7. CASE Tick
  <2>1. \A h \in Host : row'[h].there = row[h].there /\ row'[h].age >= row[h].age
    BY <1>0, <1>7, RegistryAssumption DEF Tick, TypeOK, RegistryAssumption
  <2>2. \A h \in Host : row'[h].age \in Nat /\ row[h].age \in Nat /\ Timeout \in Nat
    BY <1>0, RegistryAssumption DEF TypeOK, RegistryAssumption
  <2>3. L' \subseteq L
    BY <2>1, <2>2 DEF Listed
  <2>4. A' = A
    BY <1>7 DEF Tick
  <2> QED BY <1>2, <2>3, <2>4
<1>8. ASSUME NEW w \in Worker, Launch(w) PROVE Promise!MembershipNext
  <2>1. w \notin A /\ A' = A \union {w}
    BY <1>0, <1>8 DEF Launch, TypeOK
  <2>2. L' = L
    BY <1>4, <1>8 DEF Launch
  <2> QED BY <1>3, <2>1, <2>2
<1>9. ASSUME NEW w \in Worker, Exit(w) \/ Crash(w) \/ RegisterFails(w)
      PROVE  Promise!MembershipNext
  <2>1. phase[w] \notin {"down", "failed"}
    BY <1>9 DEF Exit, Crash, RegisterFails, RegInv, RegistrationSucceeds
  <2>2. w \in A /\ A' = A \ {w}
    BY <1>0, <1>9, <2>1 DEF Exit, Crash, RegisterFails, TypeOK
  <2>3. L' = L
    BY <1>4, <1>9 DEF Exit, Crash, RegisterFails
  <2> QED BY <1>3, <2>2, <2>3
<1>10. ASSUME NEW w \in Worker, LookUp(w) \/ InsertRow(w)
       PROVE  Promise!MembershipNext
  <2>1. A' = A /\ w \in A
    <3>1. /\ phase' = [phase EXCEPT ![w] = phase'[w]]
          /\ phase[w] \notin {"down", "failed"} /\ phase'[w] \notin {"down", "failed"}
      BY <1>0, <1>10 DEF LookUp, InsertRow, TypeOK, RegInv, RegisteredHaveRow,
                        NothingReinserted, RegistrationSucceeds
    <3> QED BY <1>5, <3>1
  <2>2. CASE row' = row
    BY <1>2, <1>4, <2>1, <2>2
  <2>3. CASE row' = [row EXCEPT ![HostOf[w]] = Renewed]
    <3>1. /\ row' = [row EXCEPT ![HostOf[w]] = row'[HostOf[w]]]
          /\ row'[HostOf[w]].there /\ row'[HostOf[w]].age = 0
      BY <1>0, <2>3 DEF Renewed, TypeOK
    <3> QED BY <1>1, <1>6, <2>1, <3>1
  <2> QED BY <1>10, <2>2, <2>3 DEF LookUp, InsertRow
<1>11. ASSUME NEW w \in Worker, Touch(w) PROVE Promise!MembershipNext
  <2>1. A' = A /\ w \in A
    BY <1>11 DEF Touch, RegInv, DownAreQuiet, RegistrationSucceeds
  <2>2. /\ row' = [row EXCEPT ![HostOf[w]] = row'[HostOf[w]]]
        /\ row'[HostOf[w]].there /\ row'[HostOf[w]].age = 0
    BY <1>0, <1>11 DEF Touch, Touched, TypeOK, RegInv, RegisteredHaveRow
  <2> QED BY <1>1, <1>6, <2>1, <2>2
<1>12. ASSUME NEW w \in Worker, DelHost(w) PROVE Promise!MembershipNext
  <2>1. A' = A
    <3>1. /\ phase' = [phase EXCEPT ![w] = phase'[w]]
          /\ phase[w] \notin {"down", "failed"} /\ phase'[w] \notin {"down", "failed"}
      BY <1>0, <1>12 DEF DelHost, TypeOK
    <3> QED BY <1>5, <3>1
  <2>2. \A h \in Host : row'[h].there = row[h].there /\ row'[h].age = row[h].age
    BY <1>0, <1>12 DEF DelHost, TypeOK
  <2>3. L' = L
    BY <2>2 DEF Listed
  <2> QED BY <1>2, <2>1, <2>3
<1>13. ASSUME NEW w \in Worker,
              \/ SpawnKeepalive(w) \/ NoKeepalive(w) \/ CheckEvent(w) \/ TouchFails(w)
              \/ WakeUp(w) \/ Signal(w) \/ StopServer(w)
       PROVE  Promise!MembershipNext
  <2>1. A' = A
    <3>1. \/ phase' = phase
          \/ /\ phase' = [phase EXCEPT ![w] = phase'[w]]
             /\ phase[w] \notin {"down", "failed"} /\ phase'[w] \notin {"down", "failed"}
      BY <1>0, <1>13 DEF SpawnKeepalive, NoKeepalive, CheckEvent, TouchFails, WakeUp,
                         Signal, StopServer, TypeOK
    <3> QED BY <1>5, <3>1
  <2>2. row' = row
    BY <1>13 DEF SpawnKeepalive, NoKeepalive, CheckEvent, TouchFails, WakeUp, Signal,
                 StopServer
  <2> QED BY <1>2, <1>4, <2>1, <2>2
<1>14. CASE UNCHANGED vars
  <2>1. A' = A /\ L' = L
    BY <1>4, <1>14 DEF vars, procVars
  <2> QED BY <1>2, <2>1
<1> QED
  BY <1>7, <1>8, <1>9, <1>10, <1>11, <1>12, <1>13, <1>14 DEF Next

(* Those who send requests can rely on the safety part of Membership: a     *)
(* host is enlisted only by a process of it that is there.                  *)
THEOREM ImplementsSafety == Spec => Promise!MembershipSafety
<1>1. Init => Promise!MembershipInit
  BY DEF Init, Promise!MembershipInit, Listed
<1>2. RegInv /\ RegInv' /\ [Next]_vars => [Promise!MembershipNext]_(Promise!memberVars)
  BY MembershipStep
<1> QED BY <1>1, <1>2, RegInvariant, PTL DEF Spec, Promise!MembershipSafety
=============================================================================
