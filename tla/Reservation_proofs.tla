-------------------------- MODULE Reservation_proofs --------------------------
(***************************************************************************)
(* Theorems about the exclusive node lock, for any number of hosts, tasks, *)
(* names and attempts.                                                     *)
(***************************************************************************)
EXTENDS Reservation, TLAPS

\* The initial state is well typed.
LEMMA InitTypeOK == Init => TypeOK
  BY ReservationAssumption DEF ReservationAssumption, Init, TypeOK, Phase

\* Rows that exist have been created: RowOf maps them into Row.
RowsCreated == \A n \in Name : /\ exists[n] => gen[n] \in 1..MaxGen
                               /\ ~exists[n] => reservation[n] = NoTag

\* The rows a task reads are rows that were created.
LEMMA RowsInRow == ASSUME TypeOK, RowsCreated, NEW S \in SUBSET Name
                   PROVE  Rows(S) \in SUBSET Row
  BY DEF TypeOK, RowsCreated, Rows, Row, RowOf

TypeInv == TypeOK /\ RowsCreated

\* The type invariant is inductive.
LEMMA TypeStep == TypeInv /\ [Next]_vars => TypeInv'
<1> SUFFICES ASSUME TypeOK, RowsCreated, [Next]_vars PROVE TypeInv'
  BY DEF TypeInv
<1> USE ReservationAssumption DEF ReservationAssumption, TypeInv, tableVars, taskVars
<1>1. ASSUME NEW n \in Name, CreateNode(n) PROVE TypeInv'
  BY <1>1 DEF CreateNode, TypeOK, RowsCreated, Row
<1>2. ASSUME NEW t \in Task, AcquireExclusive(t) PROVE TypeInv'
  BY <1>2 DEF AcquireExclusive, TypeOK, RowsCreated, Phase
<1>3. ASSUME NEW t \in Task, AcquireShared(t) PROVE TypeInv'
  <2>1. PICK S \in SUBSET Name :
          /\ node_names' = [node_names EXCEPT ![t] = S]
          /\ nodes' = [nodes EXCEPT ![t] = Rows({n \in S : reservation[n] = NoTag})]
    BY <1>3 DEF AcquireShared
  <2>2. Rows({n \in S : reservation[n] = NoTag}) \in SUBSET Row
    BY RowsInRow
  <2> QED BY <1>3, <2>1, <2>2 DEF AcquireShared, TypeOK, RowsCreated, Phase
<1>4. ASSUME NEW t \in Task, UpgradeLock(t) PROVE TypeInv'
  BY <1>4 DEF UpgradeLock, TypeOK, RowsCreated, Phase
<1>5. ASSUME NEW t \in Task, ReserveNodes(t) PROVE TypeInv'
  <2>1. Rows(node_names[t]) \in SUBSET Row
    BY RowsInRow DEF TypeOK
  <2> QED BY <1>5, <2>1 DEF ReserveNodes, TypeOK, RowsCreated, Phase
<1>6. ASSUME NEW t \in Task, RetryReserve(t) PROVE TypeInv'
  BY <1>6 DEF RetryReserve, MayRetry, TypeOK, RowsCreated, Phase
<1>7. ASSUME NEW t \in Task, Forget(t), UNCHANGED <<gen, exists>>,
             reservation' \in [Name -> Host \union {NoTag}],
             \A n \in Name : reservation'[n] \in {reservation[n], NoTag}
      PROVE  TypeInv'
  BY <1>7 DEF Forget, TypeOK, RowsCreated, Phase
<1>8. ASSUME NEW t \in Task, GiveUp(t) \/ LoadFails(t) \/ ReleaseFails(t)
      PROVE  TypeInv'
  BY <1>7, <1>8 DEF GiveUp, LoadFails, ReleaseFails, TypeOK
<1>9. ASSUME NEW t \in Task, ReleaseResources(t) PROVE TypeInv'
  BY <1>7, <1>9 DEF ReleaseResources, TypeOK
<1>10. ASSUME NEW t \in Task, LoadNodes(t) PROVE TypeInv'
  BY <1>10 DEF LoadNodes, TypeOK, RowsCreated, Phase
<1>11. ASSUME NEW t \in Task, DestroyNodes(t) PROVE TypeInv'
  BY <1>11 DEF DestroyNodes, TypeOK, RowsCreated, Phase
<1>12. ASSUME NEW T \in SUBSET Task, Crash(T) PROVE TypeInv'
  <2>1. 0 \in 0..(Attempts - 1)
    OBVIOUS
  <2>2. phase' \in [Task -> Phase] /\ shared' \in [Task -> BOOLEAN]
    BY <1>12 DEF Crash, TypeOK, Phase
  <2>3. node_names' \in [Task -> SUBSET Name] /\ nodes' \in [Task -> SUBSET Row]
    BY <1>12 DEF Crash, TypeOK
  <2>4. attempts' \in [Task -> 0..(Attempts - 1)]
    BY <1>12, <2>1 DEF Crash, TypeOK
  <2> QED BY <1>12, <2>2, <2>3, <2>4 DEF Crash, TypeOK, RowsCreated
<1>13. CASE UNCHANGED vars
  BY <1>13 DEF vars, TypeOK, RowsCreated, Phase
<1> QED
  BY <1>1, <1>2, <1>3, <1>4, <1>5, <1>6, <1>8, <1>9, <1>10, <1>11, <1>12, <1>13
     DEF Next, TaskStep, Proceed

\* The type invariant with RowsCreated holds in every reachable state.
LEMMA TypeInvariant == Spec => []TypeInv
<1>1. Init => TypeInv
  BY InitTypeOK DEF TypeInv, RowsCreated, Init
<1> QED BY <1>1, TypeStep, PTL DEF Spec

(* Every reachable state is well typed; in particular the retry loop never *)
(* counts up to node_locked_retry_attempts without ending.                 *)
THEOREM TypeCorrect == Spec => []TypeOK
<1>1. TypeInv => TypeOK
  BY DEF TypeInv
<1> QED BY <1>1, TypeInvariant, PTL

-----------------------------------------------------------------------------
(* Mutual exclusion.  A task that holds the lock works on rows of the      *)
(* names it asked for, and the row each of those names has now is one of   *)
(* them: this is what a release by name relies on, and what the re-use of  *)
(* a name breaks.                                                          *)
NoReuse == "recreate" \notin Faults

WorksOnItsNames ==
    \A t \in Task : \A n \in Name :
        /\ HoldsLock(t) /\ n \in node_names[t] =>
             gen[n] >= 1 /\ (exists[n] => RowOf(n) \in nodes[t])
        /\ \A g \in 1..MaxGen : HoldsLock(t) /\ <<n, g>> \in nodes[t] =>
             n \in node_names[t]

IInv == /\ TypeInv
        /\ WorksOnItsNames
        /\ HeldIsReserved
        /\ MutualExclusion

\* Rows(S) holds exactly the rows that the names of S have now.
LEMMA RowOfRows == ASSUME NEW S \in SUBSET Name, NEW n \in Name
                   PROVE  RowOf(n) \in Rows(S) <=> n \in S /\ exists[n]
  BY DEF Rows, RowOf

\* A step that only makes tasks forget what they do keeps the lock safe.
LEMMA ForgetStep ==
  ASSUME IInv, UNCHANGED tableVars, NEW T \in SUBSET Task,
         \A t \in Task : IF t \in T
                          THEN phase'[t] = "idle"
                          ELSE /\ phase'[t] = phase[t] /\ shared'[t] = shared[t]
                               /\ node_names'[t] = node_names[t]
                               /\ nodes'[t] = nodes[t],
         TypeInv'
  PROVE  IInv'
<1>1. \A t \in Task : /\ HoldsLock(t)' => HoldsLock(t) /\ t \notin T
                      /\ t \notin T => Held(t)' = Held(t)
                      /\ t \in T => Held(t)' = {}
  BY DEF HoldsLock, Held, RowOf, tableVars
<1> QED BY <1>1 DEF IInv, WorksOnItsNames, HeldIsReserved, MutualExclusion, RowOf, tableVars

\* Every task that keeps its lock-relevant state keeps what it holds.
LEMMA UntouchedHolds ==
  ASSUME NEW t \in Task, TypeOK, UNCHANGED <<gen, exists>>, phase'[t] = phase[t],
         shared'[t] = shared[t], nodes'[t] = nodes[t]
  PROVE  (HoldsLock(t)' <=> HoldsLock(t)) /\ Held(t)' = Held(t)
  BY DEF HoldsLock, Held, RowOf

\* The inductive invariant of mutual exclusion is preserved by every step.
LEMMA SafetyStep == ASSUME NoReuse PROVE IInv /\ [Next]_vars => IInv'
<1> SUFFICES ASSUME IInv, [Next]_vars PROVE IInv'
  OBVIOUS
<1>0. TypeInv' /\ TypeInv /\ TypeOK
  BY TypeStep DEF IInv, TypeInv
<1> USE DEF tableVars, taskVars
<1>1. ASSUME NEW n \in Name, CreateNode(n) PROVE IInv'
  <2>1. gen[n] = 0 /\ gen'[n] = 1 /\ ~exists[n]
    BY <1>0, <1>1, NoReuse DEF CreateNode, NoReuse, TypeOK
  <2>2. \A t \in Task : HoldsLock(t)' <=> HoldsLock(t)
    BY <1>1 DEF CreateNode, HoldsLock
  <2>3. \A t \in Task : HoldsLock(t) => n \notin node_names[t]
    BY <2>1, <1>0 DEF IInv, WorksOnItsNames
  <2>4. \A m \in Name : m # n => RowOf(m)' = RowOf(m) /\ exists'[m] = exists[m] /\ gen'[m] = gen[m]
    BY <1>0, <1>1 DEF CreateNode, RowOf, TypeOK
  <2>5. 1 \in 1..MaxGen /\ RowOf(n)' = <<n, 1>>
    BY <1>0, <1>1, <2>1, ReservationAssumption DEF CreateNode, RowOf, ReservationAssumption
  <2>6. \A t \in Task : HoldsLock(t) => RowOf(n)' \notin nodes[t]
    BY <2>3, <2>5 DEF IInv, WorksOnItsNames
  <2>7. \A t \in Task : Held(t)' = Held(t)
    BY <1>1, <2>1, <2>2, <2>4, <2>6 DEF Held, CreateNode
  <2>8. WorksOnItsNames'
    BY <1>1, <2>2, <2>3, <2>4, <2>6 DEF IInv, WorksOnItsNames, CreateNode
  <2> QED BY <1>0, <1>1, <2>7, <2>8 DEF IInv, HeldIsReserved, MutualExclusion, CreateNode
<1>2. ASSUME NEW t \in Task,
             AcquireExclusive(t) \/ AcquireShared(t) \/ UpgradeLock(t) \/ RetryReserve(t)
      PROVE  IInv'
  <2>1. ~HoldsLock(t)' /\ UNCHANGED tableVars
    BY <1>0, <1>2 DEF AcquireExclusive, AcquireShared, UpgradeLock, RetryReserve,
                      HoldsLock, TypeOK
  <2>2. \A u \in Task \ {t} : /\ phase'[u] = phase[u] /\ shared'[u] = shared[u]
                              /\ node_names'[u] = node_names[u] /\ nodes'[u] = nodes[u]
    BY <1>0, <1>2 DEF AcquireExclusive, AcquireShared, UpgradeLock, RetryReserve, TypeOK
  <2>3. Held(t)' = {} /\ \A u \in Task \ {t} : (HoldsLock(u)' <=> HoldsLock(u)) /\ Held(u)' = Held(u)
    BY <1>0, <2>1, <2>2, UntouchedHolds DEF Held
  <2>4. WorksOnItsNames'
    BY <2>1, <2>2, <2>3 DEF IInv, WorksOnItsNames, RowOf
  <2> QED BY <1>0, <2>1, <2>3, <2>4 DEF IInv, HeldIsReserved, MutualExclusion
<1>3. ASSUME NEW t \in Task, ReserveNodes(t) PROVE IInv'
  <2>1. \A n \in node_names[t] : exists[n] /\ reservation[n] = NoTag /\ n \in Name
    BY <1>0, <1>3 DEF ReserveNodes, Reservable, TypeOK
  <2>2. nodes'[t] = Rows(node_names[t]) /\ UNCHANGED <<gen, exists, node_names, shared>>
    BY <1>0, <1>3 DEF ReserveNodes, TypeOK
  <2>3. /\ \A n \in Name : RowOf(n) \in nodes'[t] <=> n \in node_names[t]
        /\ \A n \in Name, g \in 1..MaxGen : <<n, g>> \in nodes'[t] => n \in node_names[t]
    BY <2>1, <2>2, RowOfRows, <1>0 DEF TypeOK, Rows, RowOf
  <2>4. HoldsLock(t)' /\ Held(t)' = node_names[t]
    BY <1>0, <1>3, <2>1, <2>2, <2>3 DEF ReserveNodes, HoldsLock, Held, RowOf, TypeOK
  <2>5. \A u \in Task \ {t} : /\ (HoldsLock(u)' <=> HoldsLock(u)) /\ Held(u)' = Held(u)
                              /\ nodes'[u] = nodes[u]
    BY <1>0, <1>3, <2>2, UntouchedHolds DEF ReserveNodes, TypeOK
  <2>6. \A n \in Name : reservation'[n] = IF n \in node_names[t] THEN HostOf[t]
                                                              ELSE reservation[n]
    BY <1>0, <1>3, <2>1 DEF ReserveNodes, TypeOK
  <2>7. \A u \in Task : Held(u) \intersect node_names[t] = {}
    BY <1>0, <2>1, ReservationAssumption DEF IInv, HeldIsReserved, ReservationAssumption
  <2>8. WorksOnItsNames'
    <3>1. \A n \in node_names[t] : gen[n] \in 1..MaxGen
      BY <1>0, <2>1 DEF TypeInv, RowsCreated
    <3> QED BY <2>2, <2>3, <2>5, <3>1, <1>0 DEF IInv, WorksOnItsNames, RowOf, TypeOK
  <2>9. HeldIsReserved'
    <3>1. ASSUME NEW u \in Task, NEW n \in Held(u)' PROVE reservation'[n] = HostOf[u]
      <4>1. CASE u = t
        BY <4>1, <2>4, <2>6, <2>1, <3>1
      <4>2. CASE u # t
        <5>1. n \in Held(u) /\ n \in Name
          BY <4>2, <2>5, <3>1 DEF Held
        <5> QED BY <5>1, <2>6, <2>7 DEF IInv, HeldIsReserved
      <4> QED BY <4>1, <4>2
    <3> QED BY <3>1 DEF HeldIsReserved
  <2>10. MutualExclusion'
    BY <2>4, <2>5, <2>7 DEF IInv, MutualExclusion
  <2> QED BY <1>0, <2>8, <2>9, <2>10 DEF IInv
<1>4. ASSUME NEW t \in Task, LoadNodes(t) PROVE IInv'
  <2>1. /\ \A u \in Task : HoldsLock(u)' <=> HoldsLock(u)
        /\ UNCHANGED <<tableVars, node_names, nodes>>
    BY <1>0, <1>4 DEF LoadNodes, HoldsLock, TypeOK
  <2>2. \A u \in Task : Held(u)' = Held(u)
    BY <2>1 DEF Held, RowOf
  <2> QED BY <1>0, <2>1, <2>2 DEF IInv, WorksOnItsNames, HeldIsReserved, MutualExclusion, RowOf
<1>5. ASSUME NEW t \in Task, DestroyNodes(t) PROVE IInv'
  <2>1. /\ \A u \in Task : HoldsLock(u)' <=> HoldsLock(u)
        /\ UNCHANGED <<gen, node_names, nodes>>
    BY <1>0, <1>5 DEF DestroyNodes, HoldsLock, TypeOK
  <2>2. PICK D \in SUBSET nodes[t] :
          /\ exists' = [n \in Name |-> exists[n] /\ ~(exists[n] /\ RowOf(n) \in D)]
          /\ reservation' = [n \in Name |-> IF exists[n] /\ RowOf(n) \in D
                                             THEN NoTag ELSE reservation[n]]
    BY <1>5 DEF DestroyNodes
  <2>3. \A n \in Name : exists'[n] => exists[n] /\ reservation'[n] = reservation[n]
    BY <2>2
  <2>4. \A u \in Task : Held(u)' \subseteq Held(u) /\ \A n \in Held(u)' : n \in Name /\ exists'[n]
    BY <2>1, <2>3 DEF Held, RowOf
  <2>5. WorksOnItsNames'
    BY <2>1, <2>3 DEF IInv, WorksOnItsNames, RowOf
  <2>6. HeldIsReserved' /\ MutualExclusion'
    BY <2>3, <2>4 DEF IInv, HeldIsReserved, MutualExclusion
  <2> QED BY <1>0, <2>5, <2>6 DEF IInv
<1>6. ASSUME NEW t \in Task, GiveUp(t) \/ LoadFails(t) \/ ReleaseFails(t)
      PROVE  IInv'
  <2>1. UNCHANGED tableVars /\ Forget(t)
    BY <1>6 DEF GiveUp, LoadFails, ReleaseFails
  <2> QED BY <1>0, <2>1, ForgetStep, {t} \in SUBSET Task DEF Forget, TypeOK
<1>7. ASSUME NEW t \in Task, ReleaseResources(t) PROVE IInv'
  <2>1. UNCHANGED <<gen, exists>> /\ Forget(t) /\ ~HoldsLock(t)' /\ Held(t)' = {}
    BY <1>0, <1>7 DEF ReleaseResources, Forget, HoldsLock, Held, TypeOK
  <2>2. \A u \in Task \ {t} : /\ (HoldsLock(u)' <=> HoldsLock(u)) /\ Held(u)' = Held(u)
                              /\ nodes'[u] = nodes[u] /\ node_names'[u] = node_names[u]
    BY <1>0, <2>1, UntouchedHolds DEF Forget, TypeOK
  <2>3. ASSUME NEW u \in Task \ {t}, NEW n \in Held(u) PROVE reservation'[n] = reservation[n]
    <3>1. n \in Name /\ exists[n]
      BY DEF Held
    <3>2. CASE shared[t]
      BY <1>7, <3>1, <3>2, <1>0 DEF ReleaseResources, TypeOK
    <3>3. CASE ~shared[t]
      <4>1. n \in node_names[t] => n \in Held(t)
        BY <1>7, <3>1, <3>3 DEF ReleaseResources, HoldsLock, Held, IInv, WorksOnItsNames
      <4>2. n \notin Held(t)
        BY <2>3 DEF IInv, MutualExclusion
      <4> QED BY <1>7, <3>1, <4>1, <4>2, <1>0 DEF ReleaseResources, Released, TypeOK
    <3> QED BY <3>2, <3>3, <1>0 DEF TypeOK
  <2>4. HeldIsReserved'
    BY <2>1, <2>2, <2>3 DEF IInv, HeldIsReserved
  <2>5. WorksOnItsNames' /\ MutualExclusion'
    BY <2>1, <2>2 DEF IInv, WorksOnItsNames, MutualExclusion, RowOf
  <2> QED BY <1>0, <2>4, <2>5 DEF IInv
<1>8. ASSUME NEW T \in SUBSET Task, Crash(T) PROVE IInv'
  BY <1>0, <1>8, ForgetStep DEF Crash, TypeOK
<1>9. CASE UNCHANGED vars
  BY <1>9, <1>0, ForgetStep, {} \in SUBSET Task DEF vars
<1> QED
  BY <1>1, <1>2, <1>3, <1>4, <1>5, <1>6, <1>7, <1>8, <1>9 DEF Next, TaskStep, Proceed

\* It holds in every reachable state if no name is used twice.
LEMMA SafetyInvariant == ASSUME NoReuse PROVE Spec => []IInv
<1>1. Init => IInv
  <2>1. Init => TypeInv
    BY InitTypeOK DEF TypeInv, RowsCreated, Init
  <2>2. Init => \A t \in Task : ~HoldsLock(t) /\ Held(t) = {}
    BY DEF Init, HoldsLock, Held
  <2> QED BY <2>1, <2>2 DEF IInv, WorksOnItsNames, HeldIsReserved, MutualExclusion
<1>2. IInv /\ [Next]_vars => IInv'
  BY SafetyStep
<1> QED BY <1>1, <1>2, PTL DEF Spec

(* Without re-use of names, no two tasks of any hosts ever work on the     *)
(* same row under an exclusive lock: not after crashes, not when loading   *)
(* or releasing fails, and although the tag tells only the host.           *)
THEOREM LockExcludes == ASSUME NoReuse PROVE Spec => []MutualExclusion
<1>1. IInv => MutualExclusion
  BY DEF IInv
<1> QED BY <1>1, SafetyInvariant, PTL

(* Without re-use of names, what a task works on exclusively stays         *)
(* reserved for its host until the task ends.                              *)
THEOREM HeldStaysReserved == ASSUME NoReuse PROVE Spec => []HeldIsReserved
<1>1. IInv => HeldIsReserved
  BY DEF IInv
<1> QED BY <1>1, SafetyInvariant, PTL

-----------------------------------------------------------------------------
(* Refinement: what each operation does to the abstract lock.              *)

\* Two functions on Task given pointwise: the form NodeLock's steps have.
LEMMA HoldsUpdated ==
  ASSUME NEW t \in Task, NEW S, Held(t)' = S,
         \A u \in Task \ {t} : Held(u)' = Held(u)
  PROVE  [u \in Task |-> Held(u)]' = [[u \in Task |-> Held(u)] EXCEPT ![t] = S]
  OBVIOUS

\* The steps of a task before the database grants its lock, and the reading of
\* the rows after that, leave the abstract lock alone.
LEMMA QuietSteps ==
  ASSUME NoReuse, IInv, IInv', NEW t \in Task,
         \/ AcquireExclusive(t) \/ AcquireShared(t) \/ UpgradeLock(t)
         \/ RetryReserve(t) \/ GiveUp(t) \/ LoadNodes(t)
  PROVE  UNCHANGED Lock!lockVars
<1>0. TypeOK /\ TypeOK'
  BY DEF IInv, TypeInv
<1>1. UNCHANGED tableVars
  BY DEF AcquireExclusive, AcquireShared, UpgradeLock, RetryReserve, GiveUp, LoadNodes,
         tableVars
<1>2. Held(t)' = Held(t)
  <2>1. CASE LoadNodes(t)
    BY <1>0, <1>1, <2>1 DEF LoadNodes, HoldsLock, Held, RowOf, TypeOK, tableVars
  <2>2. CASE ~LoadNodes(t)
    <3>1. ~HoldsLock(t) /\ ~HoldsLock(t)'
      BY <1>0, <2>2 DEF AcquireExclusive, AcquireShared, UpgradeLock, RetryReserve, GiveUp,
                        Forget, HoldsLock, TypeOK
    <3> QED BY <3>1 DEF Held
  <2> QED BY <2>1, <2>2
<1>3. ASSUME NEW u \in Task, u # t PROVE Held(u)' = Held(u)
  <2>1. phase'[u] = phase[u] /\ shared'[u] = shared[u] /\ nodes'[u] = nodes[u]
    BY <1>0, <1>3 DEF AcquireExclusive, AcquireShared, UpgradeLock, RetryReserve, GiveUp,
                      LoadNodes, Forget, TypeOK
  <2> QED BY <1>0, <1>1, <2>1, UntouchedHolds DEF tableVars
<1> QED BY <1>1, <1>2, <1>3 DEF Lock!lockVars, Locked, tableVars

\* A new row is unlocked: its creation leaves the abstract lock alone.
LEMMA CreateQuiet ==
  ASSUME NoReuse, IInv, IInv', NEW n \in Name, CreateNode(n)
  PROVE  UNCHANGED Lock!lockVars
<1>0. TypeOK /\ TypeOK' /\ RowsCreated
  BY DEF IInv, TypeInv
<1>1. gen[n] = 0 /\ gen'[n] = 1 /\ ~exists[n] /\ reservation[n] = NoTag /\ 1 \in 1..MaxGen
  BY <1>0, ReservationAssumption
     DEF CreateNode, NoReuse, TypeOK, RowsCreated, ReservationAssumption
<1>2. \A t \in Task : (HoldsLock(t)' <=> HoldsLock(t)) /\ nodes'[t] = nodes[t]
  BY DEF CreateNode, HoldsLock, taskVars
<1>3. \A t \in Task : HoldsLock(t) => <<n, 1>> \notin nodes[t]
  BY <1>1 DEF IInv, WorksOnItsNames
<1>4. \A m \in Name : m # n => RowOf(m)' = RowOf(m) /\ exists'[m] = exists[m]
  BY <1>0 DEF CreateNode, RowOf, TypeOK
<1>5. \A t \in Task : Held(t)' = Held(t)
  BY <1>1, <1>2, <1>3, <1>4 DEF Held, RowOf
<1>6. Locked' = Locked
  BY <1>0, <1>1 DEF CreateNode, Locked, TypeOK
<1> QED BY <1>5, <1>6 DEF Lock!lockVars

\* reserve_nodes is an Acquire of the abstract lock.
LEMMA ReserveAcquires ==
  ASSUME NoReuse, IInv, IInv', NEW t \in Task, ReserveNodes(t)
  PROVE  node_names[t] \in SUBSET Name /\ Lock!Acquire(t, node_names[t])
<1>0. TypeOK /\ TypeOK' /\ RowsCreated
  BY DEF IInv, TypeInv
<1>1. \A n \in node_names[t] : exists[n] /\ reservation[n] = NoTag /\ n \in Name
  BY <1>0 DEF ReserveNodes, Reservable, TypeOK
<1>2. Held(t) = {}
  BY <1>0 DEF ReserveNodes, HoldsLock, Held, TypeOK
<1>3. \A n \in Name : RowOf(n) \in nodes'[t] <=> n \in node_names[t]
  BY <1>0, <1>1, RowOfRows DEF ReserveNodes, TypeOK
<1>4. Held(t)' = node_names[t]
  BY <1>0, <1>1, <1>3 DEF ReserveNodes, HoldsLock, Held, RowOf, TypeOK
<1>5. \A u \in Task \ {t} : Held(u)' = Held(u)
  BY <1>0, UntouchedHolds DEF ReserveNodes, TypeOK
<1>6. node_names[t] \intersect Locked = {} /\ Locked' = Locked \union node_names[t]
  BY <1>0, <1>1, ReservationAssumption
     DEF ReserveNodes, Locked, TypeOK, ReservationAssumption
<1> QED BY <1>0, <1>2, <1>4, <1>5, <1>6, HoldsUpdated DEF Lock!Acquire, TypeOK

\* destroy_nodes is a Remove of the rows it deletes.
LEMMA DestroyRemoves ==
  ASSUME NoReuse, IInv, IInv', NEW t \in Task, DestroyNodes(t)
  PROVE  \E D \in SUBSET Name : Lock!Remove(t, D)
<1>0. TypeOK /\ TypeOK'
  BY DEF IInv, TypeInv
<1>1. /\ \A u \in Task : HoldsLock(u)' <=> HoldsLock(u)
      /\ UNCHANGED <<gen, node_names, nodes>> /\ HoldsLock(t)
  BY <1>0 DEF DestroyNodes, HoldsLock, TypeOK
<1>2. PICK D \in SUBSET nodes[t] :
        /\ exists' = [n \in Name |-> exists[n] /\ ~(exists[n] /\ RowOf(n) \in D)]
        /\ reservation' = [n \in Name |-> IF exists[n] /\ RowOf(n) \in D
                                           THEN NoTag ELSE reservation[n]]
  BY DEF DestroyNodes
<1> DEFINE G == {n \in Name : exists[n] /\ RowOf(n) \in D}
<1>3. \A n \in Name : (exists'[n] <=> exists[n] /\ n \notin G)
                    /\ (n \notin G => reservation'[n] = reservation[n])
  BY <1>2
<1>4. G \subseteq Held(t)
  BY <1>1 DEF Held
<1>5. \A u \in Task : Held(u)' = Held(u) \ G
  BY <1>1, <1>3 DEF Held, RowOf
<1>6. \A u \in Task \ {t} : Held(u)' = Held(u)
  BY <1>4, <1>5 DEF IInv, MutualExclusion
<1>7. Locked' = Locked \ G
  BY <1>3 DEF Locked
<1>8. Lock!Remove(t, G)
  BY <1>4, <1>5, <1>6, <1>7, HoldsUpdated DEF Lock!Remove
<1> QED BY <1>8

\* release_resources is a Release, or changes no lock (a shared task).
LEMMA ReleaseReleases ==
  ASSUME NoReuse, IInv, IInv', NEW t \in Task, ReleaseResources(t)
  PROVE  Lock!Release(t)
<1>0. TypeOK /\ TypeOK' /\ RowsCreated
  BY DEF IInv, TypeInv
<1>1. Held(t)' = {}
  BY <1>0 DEF ReleaseResources, Forget, HoldsLock, Held, TypeOK
<1>2. \A u \in Task \ {t} : Held(u)' = Held(u)
  BY <1>0, UntouchedHolds DEF ReleaseResources, Forget, TypeOK
<1>3. Held(t) = IF shared[t] THEN {} ELSE Released(t)
  <2>1. CASE shared[t]
    BY <2>1 DEF ReleaseResources, HoldsLock, Held
  <2>2. CASE ~shared[t]
    <3>1. HoldsLock(t)
      BY <2>2 DEF ReleaseResources, HoldsLock
    <3>2. \A n \in Name : exists[n] => gen[n] \in 1..MaxGen
      BY <1>0 DEF RowsCreated
    <3>3. Held(t) = {n \in node_names[t] : exists[n]}
      BY <1>0, <3>1, <3>2 DEF Held, IInv, WorksOnItsNames, RowOf, TypeOK
    <3>4. \A n \in Held(t) : reservation[n] = HostOf[t]
      BY DEF IInv, HeldIsReserved
    <3> QED BY <2>2, <3>3, <3>4 DEF Released
  <2> QED BY <2>1, <2>2
<1>4. Locked' = Locked \ Held(t)
  BY <1>0, <1>3 DEF ReleaseResources, Locked, TypeOK
<1> QED BY <1>1, <1>2, <1>4, HoldsUpdated DEF Lock!Release

\* A failed load or release, and a crash, are an Abandon.
LEMMA FaultAbandons ==
  ASSUME NEW T \in SUBSET Task, TypeOK, UNCHANGED tableVars,
         \A t \in T : phase'[t] = "idle",
         \A t \in Task \ T : /\ phase'[t] = phase[t] /\ shared'[t] = shared[t]
                             /\ nodes'[t] = nodes[t]
  PROVE  Lock!Abandon(T)
<1>1. \A t \in Task : Held(t)' = IF t \in T THEN {} ELSE Held(t)
  BY UntouchedHolds DEF HoldsLock, Held, tableVars
<1>2. Locked' = Locked
  BY DEF Locked, tableVars
<1> QED BY <1>1, <1>2 DEF Lock!Abandon

\* Every step is a step of the abstract lock or leaves it alone.
LEMMA StepRefines == ASSUME NoReuse, IInv, IInv', [Next]_vars
                     PROVE  [Lock!LockNext]_(Lock!lockVars)
<1>0. TypeOK
  BY DEF IInv, TypeInv
<1>1. ASSUME NEW t \in Task, LoadFails(t) \/ ReleaseFails(t) PROVE Lock!Abandon({t})
  BY <1>0, <1>1, FaultAbandons, {t} \in SUBSET Task
     DEF LoadFails, ReleaseFails, Forget, TypeOK
<1>2. ASSUME NEW T \in SUBSET Task, Crash(T) PROVE Lock!Abandon(T)
  BY <1>0, <1>2, FaultAbandons DEF Crash, TypeOK
<1>3. ASSUME NEW t \in Task, TaskStep(t) PROVE [Lock!LockNext]_(Lock!lockVars)
  <2>1. CASE ReserveNodes(t)
    BY <2>1, ReserveAcquires DEF Lock!LockNext
  <2>2. CASE DestroyNodes(t)
    BY <2>2, DestroyRemoves DEF Lock!LockNext
  <2>3. CASE ReleaseResources(t)
    BY <2>3, ReleaseReleases DEF Lock!LockNext
  <2>4. CASE LoadFails(t) \/ ReleaseFails(t)
    BY <1>1, <2>4, {t} \in SUBSET Task DEF Lock!LockNext
  <2> QED BY <1>3, <2>1, <2>2, <2>3, <2>4, QuietSteps DEF TaskStep, Proceed
<1>4. CASE UNCHANGED vars
  BY <1>4 DEF vars, tableVars, taskVars, Lock!lockVars, Held, HoldsLock, RowOf, Locked
<1> QED BY <1>2, <1>3, <1>4, CreateQuiet DEF Next, Lock!LockNext

(* The reservation column, written by hosts and released by name,          *)
(* implements the abstract lock, faults included, if no name is re-used:   *)
(* tasks take whole groups, and free exactly what they hold.               *)
THEOREM ReservationImplementsNodeLock ==
  ASSUME NoReuse PROVE Spec => ImplementsNodeLock
<1>1. Init => Lock!LockInit
  BY DEF Init, Lock!LockInit, Held, HoldsLock, Locked
<1>2. IInv /\ IInv' /\ [Next]_vars => [Lock!LockNext]_(Lock!lockVars)
  BY StepRefines
<1> QED BY <1>1, <1>2, SafetyInvariant, PTL DEF Spec, ImplementsNodeLock, Lock!LockSpec

-----------------------------------------------------------------------------
(* No reservation is left behind when nothing fails.                       *)

\* The converse of HoldsUpdated.
LEMMA HoldsRead ==
  ASSUME NEW t \in Task, NEW S,
         [u \in Task |-> Held(u)]' = [[u \in Task |-> Held(u)] EXCEPT ![t] = S]
  PROVE  Held(t)' = S /\ \A u \in Task \ {t} : Held(u)' = Held(u)
<1> DEFINE H == [u \in Task |-> Held(u)]
<1>1. \A u \in Task : H[u] = Held(u) /\ H'[u] = Held(u)'
  OBVIOUS
<1>2. H'[t] = S /\ \A u \in Task \ {t} : H'[u] = H[u]
  OBVIOUS
<1> QED BY <1>1, <1>2

\* How the steps of the abstract lock act on "every lock has a holder".
LEMMA HolderStep ==
  ASSUME EveryReservationHasHolder,
         \/ UNCHANGED Lock!lockVars
         \/ \E t \in Task : \/ \E S \in SUBSET Name : Lock!Acquire(t, S) \/ Lock!Remove(t, S)
                           \/ Lock!Release(t)
  PROVE  EveryReservationHasHolder'
<1>1. CASE UNCHANGED Lock!lockVars
  <2>1. \A t \in Task : Held(t)' = Held(t)
    <3> DEFINE H == [t \in Task |-> Held(t)]
    <3>1. H' = H
      BY <1>1 DEF Lock!lockVars
    <3>2. \A t \in Task : H[t] = Held(t) /\ H'[t] = Held(t)'
      OBVIOUS
    <3> QED BY <3>1, <3>2
  <2> QED BY <1>1, <2>1 DEF Lock!lockVars, EveryReservationHasHolder
<1>2. ASSUME NEW t \in Task, NEW S \in SUBSET Name, Lock!Acquire(t, S)
      PROVE  EveryReservationHasHolder'
  <2>1. Held(t)' = S /\ \A u \in Task \ {t} : Held(u)' = Held(u)
    BY <1>2, HoldsRead DEF Lock!Acquire
  <2>2. Held(t) = {} /\ Locked' = Locked \union S
    BY <1>2 DEF Lock!Acquire
  <2> QED BY <2>1, <2>2 DEF EveryReservationHasHolder
<1>3. ASSUME NEW t \in Task, NEW S \in SUBSET Name, Lock!Remove(t, S)
      PROVE  EveryReservationHasHolder'
  <2>1. Held(t)' = Held(t) \ S /\ \A u \in Task \ {t} : Held(u)' = Held(u)
    BY <1>3, HoldsRead DEF Lock!Remove
  <2>2. Locked' = Locked \ S
    BY <1>3 DEF Lock!Remove
  <2> QED BY <2>1, <2>2 DEF EveryReservationHasHolder
<1>4. ASSUME NEW t \in Task, Lock!Release(t) PROVE EveryReservationHasHolder'
  <2>1. \A u \in Task \ {t} : Held(u)' = Held(u)
    BY <1>4, HoldsRead DEF Lock!Release
  <2>2. Locked' = Locked \ Held(t)
    BY <1>4 DEF Lock!Release
  <2> QED BY <2>1, <2>2 DEF EveryReservationHasHolder
<1> QED BY <1>1, <1>2, <1>3, <1>4

(* When nothing fails, every reserved row has a task that will release it. *)
THEOREM ReservationsHaveHolders ==
  ASSUME Faults = {} PROVE Spec => []EveryReservationHasHolder
<1>0. NoReuse
  BY DEF NoReuse
<1>1. Init => EveryReservationHasHolder
  BY DEF Init, EveryReservationHasHolder, Locked
<1>2. IInv /\ IInv' /\ EveryReservationHasHolder /\ [Next]_vars => EveryReservationHasHolder'
  <2> SUFFICES ASSUME IInv, IInv', EveryReservationHasHolder, [Next]_vars
               PROVE  EveryReservationHasHolder'
    OBVIOUS
  <2>1. ASSUME NEW n \in Name, CreateNode(n) PROVE EveryReservationHasHolder'
    BY <1>0, <2>1, CreateQuiet, HolderStep
  <2>2. ASSUME NEW t \in Task, TaskStep(t) PROVE EveryReservationHasHolder'
    <3>1. ~LoadFails(t) /\ ~ReleaseFails(t)
      BY DEF LoadFails, ReleaseFails
    <3>2. CASE ReserveNodes(t)
      BY <1>0, <3>2, ReserveAcquires, HolderStep
    <3>3. CASE DestroyNodes(t)
      BY <1>0, <3>3, DestroyRemoves, HolderStep
    <3>4. CASE ReleaseResources(t)
      BY <1>0, <3>4, ReleaseReleases, HolderStep
    <3>5. CASE \/ AcquireExclusive(t) \/ AcquireShared(t) \/ UpgradeLock(t)
               \/ RetryReserve(t) \/ GiveUp(t) \/ LoadNodes(t)
      BY <1>0, <3>5, QuietSteps, HolderStep
    <3> QED BY <2>2, <3>1, <3>2, <3>3, <3>4, <3>5 DEF TaskStep, Proceed
  <2>3. \A T \in SUBSET Task : ~Crash(T)
    BY DEF Crash
  <2>4. CASE UNCHANGED vars
    BY <2>4 DEF vars, tableVars, taskVars, EveryReservationHasHolder, Held, HoldsLock,
                RowOf, Locked
  <2> QED BY <2>1, <2>2, <2>3, <2>4 DEF Next
<1> QED BY <1>0, <1>1, <1>2, SafetyInvariant, PTL DEF Spec

-----------------------------------------------------------------------------
(* What a step may never do to the reservation column, re-use and all.     *)

\* Only reserve_nodes sets reservations; the other steps may clear some.
LEMMA OthersOnlyClear ==
  ASSUME TypeInv, [Next]_vars, \A t \in Task : ~ReserveNodes(t), NEW n \in Name
  PROVE  reservation'[n] \in {NoTag, reservation[n]}
<1>0. TypeOK
  BY DEF TypeInv
<1>1. ASSUME NEW t \in Task, DestroyNodes(t) PROVE reservation'[n] \in {NoTag, reservation[n]}
  BY <1>0, <1>1 DEF DestroyNodes, TypeOK
<1>2. ASSUME NEW t \in Task, ReleaseResources(t)
      PROVE  reservation'[n] \in {NoTag, reservation[n]}
  BY <1>0, <1>2 DEF ReleaseResources, TypeOK
<1>3. ASSUME NEW t \in Task, TaskStep(t), ~DestroyNodes(t), ~ReleaseResources(t)
      PROVE  reservation' = reservation
  BY <1>3 DEF TaskStep, Proceed, AcquireExclusive, AcquireShared, UpgradeLock, LoadFails,
              ReleaseFails, RetryReserve, GiveUp, LoadNodes, tableVars
<1>4. ASSUME NEW m \in Name, CreateNode(m) PROVE reservation' = reservation
  BY <1>4 DEF CreateNode
<1>5. ASSUME NEW T \in SUBSET Task, Crash(T) PROVE reservation' = reservation
  BY <1>5 DEF Crash, tableVars
<1> QED BY <1>1, <1>2, <1>3, <1>4, <1>5 DEF Next, vars, tableVars

(* reserve_nodes is all or nothing, under every fault.                     *)
THEOREM GroupsAreLockedWhole == Spec => WholeGroupOrNothing
<1>1. ASSUME TypeInv, [Next]_vars, NEW n \in Name,
             reservation'[n] \notin {NoTag, reservation[n]}
      PROVE  \E t \in Task : /\ phase[t] = "locking"
                            /\ n \in node_names[t]
                            /\ \A m \in node_names[t] :
                                 reservation[m] = NoTag /\ reservation'[m] = HostOf[t]
  <2>1. PICK t \in Task : ReserveNodes(t)
    BY <1>1, OthersOnlyClear
  <2>2. n \in node_names[t]
    BY <1>1, <2>1 DEF ReserveNodes
  <2> QED BY <1>1, <2>1, <2>2 DEF ReserveNodes, Reservable, TypeInv, TypeOK
<1>2. TypeInv /\ [Next]_vars =>
        [\A n \in Name : reservation'[n] \notin {NoTag, reservation[n]} =>
          \E t \in Task : /\ phase[t] = "locking"
                          /\ n \in node_names[t]
                          /\ \A m \in node_names[t] :
                               reservation[m] = NoTag /\ reservation'[m] = HostOf[t]]_vars
  BY <1>1
<1> QED BY <1>2, TypeInvariant, PTL DEF Spec, WholeGroupOrNothing

(* Under every fault, re-use of names included, a reservation whose row    *)
(* stays is cleared only by the end of an exclusive task of the host that  *)
(* made it, one that had asked for this name.                              *)
THEOREM OwnHostReleases == Spec => OnlyOwnHostReleases
<1> DEFINE Cleared(n) == reservation[n] # NoTag /\ exists'[n] /\ reservation'[n] = NoTag
           Releaser(n, t) == /\ HostOf[t] = reservation[n]
                             /\ n \in node_names[t] /\ ~shared[t]
                             /\ phase[t] # "idle" /\ phase'[t] = "idle"
<1>1. ASSUME TypeInv, [Next]_vars, NEW n \in Name, Cleared(n)
      PROVE  \E t \in Task : Releaser(n, t)
  <2>0. TypeOK
    BY <1>1 DEF TypeInv
  <2>1. ASSUME NEW t \in Task, DestroyNodes(t) PROVE FALSE
    BY <1>1, <2>0, <2>1 DEF DestroyNodes, TypeOK
  <2>2. ASSUME NEW t \in Task, ReserveNodes(t) PROVE FALSE
    BY <1>1, <2>0, <2>2, ReservationAssumption
       DEF ReserveNodes, TypeOK, ReservationAssumption
  <2>3. ASSUME NEW t \in Task, TaskStep(t), ~ReleaseResources(t) PROVE FALSE
    BY <1>1, <2>1, <2>2, <2>3
       DEF TaskStep, Proceed, AcquireExclusive, AcquireShared, UpgradeLock, LoadFails,
           ReleaseFails, RetryReserve, GiveUp, LoadNodes, tableVars
  <2>4. ASSUME NEW m \in Name, CreateNode(m) PROVE FALSE
    BY <1>1, <2>4 DEF CreateNode
  <2>5. ASSUME NEW T \in SUBSET Task, Crash(T) PROVE FALSE
    BY <1>1, <2>5 DEF Crash, tableVars
  <2>6. PICK t \in Task : ReleaseResources(t)
    BY <1>1, <2>3, <2>4, <2>5 DEF Next, vars, tableVars
  <2>7. Releaser(n, t)
    BY <1>1, <2>0, <2>6 DEF ReleaseResources, Released, Forget, TypeOK
  <2> QED BY <2>7
<1>2. TypeInv /\ [Next]_vars =>
        [\A n \in Name :
           (/\ reservation[n] # NoTag /\ exists'[n]
            /\ reservation'[n] = NoTag) =>
           \E t \in Task : /\ HostOf[t] = reservation[n]
                           /\ n \in node_names[t] /\ ~shared[t]
                           /\ phase[t] # "idle" /\ phase'[t] = "idle"]_vars
  BY <1>1
<1> QED BY <1>2, TypeInvariant, PTL DEF Spec, OnlyOwnHostReleases
=============================================================================
