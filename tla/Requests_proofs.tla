--------------------------- MODULE Requests_proofs ---------------------------
(***************************************************************************)
(* Theorems about requests for groups of nodes, for any number of hosts,   *)
(* nodes, requests and workers.                                            *)
(***************************************************************************)
EXTENDS Requests_cuts

\* What the API holds about a request, a call, and what TypeOK says of the parts
\* of a call.
Entry == [op : Exclusive \union Shared \union {None}, asked : SUBSET Name, todo : SUBSET Name,
          phase : {"idle", "asked", "filtered", "submitting",
                   "network", "answered", "error", "over"},
          left : SUBSET Piece, answer : [Name -> Value \union {None}], done : SUBSET Name]

Call == [req : Request, host : Host, nodes : SUBSET Name,
         future : {"waiting", "replied", "raised"}, run : {"queued", "running", "over"},
         seen : SUBSET Name, ok : SUBSET Name, bad : SUBSET Name]

Sane(c) == c.seen \subseteq c.nodes /\ c.ok \intersect c.bad = {}

\* The answers for nodes that were not sent to any conductor.
Refused == {"missing", "locked", "noconductor"}

\* What holds of a request at any time: what was refused is in no piece, the
\* pieces that are left share no node with one another or with a call, and
\* success is written only where the work was done.
GoodRequest(r) ==
    /\ req[r].phase \in {"idle", "asked", "filtered"} => CallsOf(r) = {}
    /\ req[r].phase # "submitting" => req[r].left = {}
    /\ req[r].phase \in {"asked", "filtered"} => \A n \in req[r].todo : req[r].answer[n] = None
    /\ \A n \in Name : req[r].answer[n] = "success" => n \in req[r].done
    /\ \A p \in req[r].left : \A n \in p.nodes : req[r].answer[n] \notin Refused
    /\ \A p, q \in req[r].left : p # q => p.nodes \intersect q.nodes = {}
    /\ \A p \in req[r].left, c \in CallsOf(r) : p.nodes \intersect c.nodes = {}

\* What holds of a call at any time: one that is queued has done nothing, and
\* what a handler counts as done its request has as done.
GoodCall(c) ==
    /\ c.run = "queued" => c.future = "waiting" /\ c.seen = {} /\ c.ok = {} /\ c.bad = {}
    /\ c.future = "replied" => c.run = "over"
    /\ req[c.req].phase # "over" => c.ok \subseteq req[c.req].done
    /\ \A n \in c.nodes : req[c.req].answer[n] \notin Refused

\* The inductive invariant.
IInv ==
    /\ TypeOK
    /\ OneCallPerNode
    /\ \A r \in Request : GoodRequest(r)
    /\ \A c \in calls : GoodCall(c)

-----------------------------------------------------------------------------
(* A step of a handler.                                                    *)

\* What a step of a handler does to the histories: what it locks is recorded for
\* the reading requests that are under way.
HistoryKept ==
    /\ lockedSince' \in [Request -> SUBSET Name]
    /\ \A r \in Request :
        /\ lockedSince[r] \subseteq lockedSince'[r]
        /\ req[r].op \in Shared /\ req[r].phase \in {"filtered", "submitting"} =>
             locked' \subseteq locked \union lockedSince'[r]

\* What a step of a handler, or the end of the wait for it, makes of its call c.
Effect(c, d) ==
    /\ d \in Call /\ Sane(d) /\ d.req = c.req /\ d.nodes = c.nodes
    /\ d.run # "queued"
    /\ d.future = "replied" => d.run = "over"
    /\ d.run = "running" \/ d.future = "replied" =>
         \/ c.run = "running" /\ d.seen = c.seen
         \/ /\ c.run = "queued"
            /\ \A n \in d.nodes \ d.seen :
                 req[c.req].op \in Shared /\ (n \notin exists \/ n \in locked)
    /\ HistoryKept
    /\ d.ok \subseteq c.ok \union req'[c.req].done
    /\ calls' = (calls \ {c}) \union (IF d.run = "over" /\ req[c.req].phase = "over" THEN {} ELSE {d})
    /\ exists' \subseteq exists /\ locked' \subseteq Name
    /\ affinity' \in [Name -> Host \union {NoHost}]
    /\ req' \in [Request -> Entry]
    /\ \A r \in Request :
        /\ req'[r].op = req[r].op /\ req'[r].phase = req[r].phase /\ req'[r].asked = req[r].asked
        /\ req'[r].todo = req[r].todo /\ req'[r].left = req[r].left
        /\ req'[r].answer = req[r].answer /\ req[r].done \subseteq req'[r].done

\* The parts of TypeOK, by the names of this module.
LEMMA TypesUnfolded ==
  ASSUME TypeOK
  PROVE  /\ req \in [Request -> Entry]
         /\ \A c \in calls : c \in Call /\ Sane(c)
         /\ exists \subseteq Name /\ locked \subseteq Name
         /\ affinity \in [Name -> Host \union {NoHost}]
         /\ lockedSince \in [Request -> SUBSET Name]
BY DEF TypeOK, Entry, Call, Sane

\* A step that locks nothing keeps the histories.
LEMMA NothingLocked ==
  ASSUME TypeOK, lockedSince' = lockedSince, locked' \subseteq locked
  PROVE  HistoryKept
BY TypesUnfolded DEF HistoryKept

\* An answer to a call, or the end of its handler.
LEMMA AnsweredFields ==
  ASSUME NEW c \in Call, NEW out \in {"replied", "raised"}
  PROVE  LET d == Answered(c, out)
         IN  /\ d \in Call /\ d.run = "over" /\ d.req = c.req /\ d.nodes = c.nodes
             /\ d.future = (IF c.future = "waiting" THEN out ELSE c.future)
             /\ d.seen = c.seen /\ d.ok = c.ok /\ d.bad = c.bad
BY DEF Answered, Call

\* A request in which nothing changes but what is done.
LEMMA DoneGrows ==
  ASSUME req \in [Request -> Entry], NEW q \in Request, NEW D \in SUBSET Name,
         req' = [req EXCEPT ![q].done = @ \union D]
  PROVE  /\ req' \in [Request -> Entry]
         /\ D \subseteq req'[q].done
         /\ \A r \in Request :
              /\ req'[r].op = req[r].op /\ req'[r].phase = req[r].phase /\ req'[r].asked = req[r].asked
              /\ req'[r].todo = req[r].todo /\ req'[r].left = req[r].left
              /\ req'[r].answer = req[r].answer /\ req[r].done \subseteq req'[r].done
<1> DEFINE k == [req[q] EXCEPT !.done = req[q].done \union D]
<1>1. req[q] \in Entry
  OBVIOUS
<1>2. /\ k \in Entry /\ k.done = req[q].done \union D
      /\ k.op = req[q].op /\ k.phase = req[q].phase /\ k.asked = req[q].asked
      /\ k.todo = req[q].todo /\ k.left = req[q].left /\ k.answer = req[q].answer
  BY <1>1 DEF Entry
<1>3. req' = [req EXCEPT ![q] = k]
  OBVIOUS
<1> HIDE DEF k
<1>4. req' \in [Request -> Entry] /\ req'[q] = k /\ \A r \in Request \ {q} : req'[r] = req[r]
  BY <1>2, <1>3
<1> QED BY <1>2, <1>4

\* Each step of a handler, and the end of the wait for it, is such an effect.
LEMMA HandlerEffect ==
  ASSUME IInv, NEW c \in calls, HandlerStep(c) \/ CallTimesOut(c)
  PROVE  \E d : Effect(c, d)
<1> USE DEF IInv
<1>1. /\ req \in [Request -> Entry] /\ c \in Call /\ Sane(c)
      /\ exists \subseteq Name /\ locked \subseteq Name
      /\ affinity \in [Name -> Host \union {NoHost}]
  BY TypesUnfolded
<1>2. GoodCall(c)
  OBVIOUS
<1>3. c.req \in Request /\ c.host \in Host /\ c.nodes \subseteq Name /\ c.seen \subseteq Name
      /\ c.ok \subseteq Name /\ c.bad \subseteq Name
  BY <1>1 DEF Call
<1>4. Unlocked(c) \subseteq Name /\ Unlocked(c) \subseteq locked
  BY <1>1 DEF Unlocked
<1>5. ASSUME req' = req
      PROVE  /\ req' \in [Request -> Entry]
             /\ \A r \in Request :
                  /\ req'[r].op = req[r].op /\ req'[r].phase = req[r].phase
                  /\ req'[r].asked = req[r].asked /\ req'[r].todo = req[r].todo
                  /\ req'[r].left = req[r].left /\ req'[r].answer = req[r].answer
                  /\ req[r].done \subseteq req'[r].done
  BY <1>1, <1>5
<1>6. CASE Begin(c)
  <2>1. c.run = "queued" /\ req' = req /\ exists' = exists /\ affinity' = affinity
    BY <1>6 DEF Begin
  <2>2. c.future = "waiting" /\ c.ok = {} /\ c.bad = {}
    BY <1>2, <2>1 DEF GoodCall
  <2>3. CASE req[c.req].op \in Shared
    <3> DEFINE d == [c EXCEPT !.run = "running", !.seen = (c.nodes \intersect exists) \ locked]
    <3>1. d \in Call /\ d.run = "running" /\ d.seen = (c.nodes \intersect exists) \ locked /\ d.req = c.req
          /\ d.nodes = c.nodes /\ d.future = c.future /\ d.ok = c.ok /\ d.bad = c.bad
      BY <1>1, <1>3 DEF Call
    <3>2. Change(c, d) /\ locked' = locked /\ lockedSince' = lockedSince
      BY <1>6, <2>3 DEF Begin
    <3> HIDE DEF d
    <3>3. Sane(d) /\ \A n \in d.nodes \ d.seen :
                        req[c.req].op \in Shared /\ (n \notin exists \/ n \in locked)
      BY <2>2, <2>3, <3>1 DEF Sane
    <3>4. HistoryKept
      BY <3>2, NothingLocked
    <3> QED BY <1>1, <1>5, <2>1, <2>2, <3>1, <3>2, <3>3, <3>4 DEF Effect, Change
  <2>4. CASE req[c.req].op \notin Shared
    <3> DEFINE d == [c EXCEPT !.run = "running", !.seen = c.nodes]
    <3>1. d \in Call /\ d.run = "running" /\ d.seen = c.nodes /\ d.req = c.req
          /\ d.nodes = c.nodes /\ d.future = c.future /\ d.ok = c.ok /\ d.bad = c.bad
      BY <1>1, <1>3 DEF Call
    <3>2. Change(c, d) /\ locked' = locked \union c.nodes /\ lockedSince' = LockedMeanwhile(c.nodes)
      BY <1>6, <2>4 DEF Begin
    <3> HIDE DEF d
    <3>3. Sane(d) /\ d.nodes \ d.seen = {}
      BY <2>2, <3>1 DEF Sane
    <3>4. HistoryKept
      <4>1. lockedSince' = [r \in Request |->
                             IF req[r].op \in Shared /\ req[r].phase \in {"filtered", "submitting"}
                             THEN lockedSince[r] \union c.nodes ELSE lockedSince[r]]
        BY <3>2 DEF LockedMeanwhile
      <4>2. lockedSince \in [Request -> SUBSET Name]
        BY TypesUnfolded
      <4> QED BY <1>3, <3>2, <4>1, <4>2 DEF HistoryKept
    <3> QED BY <1>1, <1>3, <1>5, <2>1, <2>2, <3>1, <3>2, <3>3, <3>4 DEF Effect, Change
  <2> QED BY <2>3, <2>4
<1>7. CASE Refuse(c)
  <2> DEFINE d == Answered(c, "raised")
  <2>1. c.run = "queued" /\ req' = req /\ exists' = exists /\ affinity' = affinity
        /\ locked' = locked /\ lockedSince' = lockedSince /\ Change(c, d)
    BY <1>7 DEF Refuse, nodeVars
  <2>2. c.future = "waiting"
    BY <1>2, <2>1 DEF GoodCall
  <2>3. d \in Call /\ d.run = "over" /\ d.req = c.req /\ d.nodes = c.nodes
        /\ d.future = "raised" /\ d.seen = c.seen /\ d.ok = c.ok /\ d.bad = c.bad
    BY <1>1, <2>2, AnsweredFields
  <2> HIDE DEF d
  <2>4. HistoryKept
    BY <2>1, NothingLocked
  <2> QED BY <1>1, <1>5, <2>1, <2>3, <2>4 DEF Effect, Change, Sane
<1>8. CASE Return(c)
  <2> DEFINE d == Answered(c, "replied")
  <2>1. c.run = "running" /\ req' = req /\ exists' = exists /\ locked' = Unlocked(c)
        /\ lockedSince' = lockedSince /\ Change(c, d)
    BY <1>8 DEF Return
  <2>2. d \in Call /\ d.run = "over" /\ d.req = c.req /\ d.nodes = c.nodes
        /\ d.seen = c.seen /\ d.ok = c.ok /\ d.bad = c.bad
    BY <1>1, AnsweredFields
  <2>3. affinity' \in [Name -> Host \union {NoHost}]
    <3>1. CASE req[c.req].op = "provision"
      BY <1>1, <1>3, <1>8, <3>1 DEF Return
    <3>2. CASE req[c.req].op = "clean"
      BY <1>1, <1>3, <1>8, <3>2 DEF Return
    <3>3. CASE req[c.req].op # "provision" /\ req[c.req].op # "clean"
      BY <1>1, <1>8, <3>3 DEF Return
    <3> QED BY <3>1, <3>2, <3>3
  <2> HIDE DEF d
  <2>4. HistoryKept
    BY <1>4, <2>1, NothingLocked
  <2> QED BY <1>1, <1>4, <1>5, <2>1, <2>2, <2>3, <2>4 DEF Effect, Change, Sane
<1>9. CASE Destroy(c)
  <2> DEFINE gone == {n \in c.seen : affinity[n] = NoHost}
             e == [c EXCEPT !.ok = gone, !.bad = c.seen \ gone]
             d == Answered(e, "replied")
  <2>1. c.run = "running" /\ exists' = exists \ gone /\ locked' = Unlocked(c) /\ Change(c, d)
        /\ req' = [req EXCEPT ![c.req].done = @ \union gone] /\ affinity' = affinity
        /\ lockedSince' = lockedSince
    BY <1>9 DEF Destroy
  <2>2. gone \in SUBSET Name /\ c.seen \ gone \in SUBSET Name
    BY <1>3
  <2> HIDE DEF gone
  <2>3. e \in Call /\ e.ok = gone /\ e.bad = c.seen \ gone /\ e.req = c.req /\ e.nodes = c.nodes
        /\ e.seen = c.seen /\ e.run = c.run /\ e.future = c.future
    BY <1>1, <2>2 DEF Call
  <2> HIDE DEF e
  <2>4. d \in Call /\ d.run = "over" /\ d.req = c.req /\ d.nodes = c.nodes
        /\ d.seen = c.seen /\ d.ok = gone /\ d.bad = c.seen \ gone
    BY <2>3, AnsweredFields
  <2> HIDE DEF d
  <2>5. HistoryKept
    BY <1>4, <2>1, NothingLocked
  <2>6. /\ req' \in [Request -> Entry] /\ gone \subseteq req'[c.req].done
        /\ \A r \in Request :
              /\ req'[r].op = req[r].op /\ req'[r].phase = req[r].phase /\ req'[r].asked = req[r].asked
              /\ req'[r].todo = req[r].todo /\ req'[r].left = req[r].left
              /\ req'[r].answer = req[r].answer /\ req[r].done \subseteq req'[r].done
    BY <1>1, <1>3, <2>1, <2>2, DoneGrows
  <2> QED BY <1>1, <1>4, <2>1, <2>4, <2>5, <2>6 DEF Effect, Change, Sane
<1>10. CASE Raise(c)
  <2> DEFINE d == Answered(c, "raised")
  <2>1. c.run = "running" /\ req' = req /\ exists' = exists /\ affinity' = affinity
        /\ locked' = Unlocked(c) /\ lockedSince' = lockedSince /\ Change(c, d)
    BY <1>10 DEF Raise
  <2>2. d \in Call /\ d.run = "over" /\ d.req = c.req /\ d.nodes = c.nodes
        /\ d.seen = c.seen /\ d.ok = c.ok /\ d.bad = c.bad
    BY <1>1, AnsweredFields
  <2> HIDE DEF d
  <2>3. HistoryKept
    BY <1>4, <2>1, NothingLocked
  <2> QED BY <1>1, <1>4, <1>5, <2>1, <2>2, <2>3 DEF Effect, Change, Sane
<1>11. ASSUME NEW n \in Name, NEW well \in BOOLEAN, GreenthreadEnds(c, n, well)
       PROVE  \E d : Effect(c, d)
  <2>1. c.run = "running" /\ n \in c.seen /\ n \notin c.ok /\ n \notin c.bad
        /\ exists' = exists /\ affinity' = affinity /\ locked' = locked
        /\ lockedSince' = lockedSince
    BY <1>11 DEF GreenthreadEnds, Unfinished, nodeVars
  <2>2. c.future # "replied" /\ HistoryKept
    BY <1>2, <2>1, NothingLocked DEF GoodCall
  <2>3. CASE well
    <3> DEFINE S == c.ok \union {n}
               d == [c EXCEPT !.ok = S, !.bad = c.bad]
    <3>1. S \in SUBSET Name /\ c.ok \in SUBSET Name /\ c.bad \in SUBSET Name
      BY <1>3
    <3>2. d = [c EXCEPT !.ok = c.ok \union {n}]
      BY <1>1 DEF Call
    <3> HIDE DEF S
    <3>3. d \in Call /\ d.ok = S /\ d.bad = c.bad /\ d.req = c.req /\ d.nodes = c.nodes
          /\ d.seen = c.seen /\ d.run = c.run /\ d.future = c.future
      BY <1>1, <3>1 DEF Call
    <3>4. Change(c, d) /\ req' = [req EXCEPT ![c.req].done = @ \union {n}]
      BY <1>11, <2>3, <3>2 DEF GreenthreadEnds
    <3> HIDE DEF d
    <3>5. {n} \in SUBSET Name
      OBVIOUS
    <3>6. /\ req' \in [Request -> Entry] /\ {n} \subseteq req'[c.req].done
          /\ \A r \in Request :
              /\ req'[r].op = req[r].op /\ req'[r].phase = req[r].phase /\ req'[r].asked = req[r].asked
              /\ req'[r].todo = req[r].todo /\ req'[r].left = req[r].left
              /\ req'[r].answer = req[r].answer /\ req[r].done \subseteq req'[r].done
      BY <1>1, <1>3, <3>4, <3>5, DoneGrows
    <3>7. Sane(d)
      BY <1>1, <2>1, <3>3 DEF Sane, S
    <3> QED BY <1>1, <2>1, <2>2, <3>3, <3>4, <3>6, <3>7 DEF Effect, Change, S
  <2>4. CASE ~well
    <3> DEFINE S == c.bad \union {n}
               d == [c EXCEPT !.ok = c.ok, !.bad = S]
    <3>1. S \in SUBSET Name /\ c.ok \in SUBSET Name /\ c.bad \in SUBSET Name
      BY <1>3
    <3>2. d = [c EXCEPT !.bad = c.bad \union {n}]
      BY <1>1 DEF Call
    <3> HIDE DEF S
    <3>3. d \in Call /\ d.ok = c.ok /\ d.bad = S /\ d.req = c.req /\ d.nodes = c.nodes
          /\ d.seen = c.seen /\ d.run = c.run /\ d.future = c.future
      BY <1>1, <3>1 DEF Call
    <3>4. Change(c, d) /\ req' = req
      BY <1>11, <2>4, <3>2 DEF GreenthreadEnds
    <3> HIDE DEF d
    <3>5. Sane(d)
      BY <1>1, <2>1, <3>3 DEF Sane, S
    <3> QED BY <1>1, <1>5, <2>1, <2>2, <3>3, <3>4, <3>5 DEF Effect, Change
  <2> QED BY <2>3, <2>4
<1>12. CASE CallTimesOut(c)
  <2> DEFINE u == IF c.run = "queued" THEN "over" ELSE c.run
             d == [c EXCEPT !.run = u, !.future = "raised"]
  <2>1. u \in {"queued", "running", "over"} /\ u # "queued"
        /\ "raised" \in {"waiting", "replied", "raised"}
    BY <1>1 DEF Call
  <2>2. d = [c EXCEPT !.future = "raised", !.run = IF c.run = "queued" THEN "over" ELSE c.run]
    BY <1>1 DEF Call
  <2>3. Change(c, d) /\ req' = req /\ exists' = exists /\ affinity' = affinity /\ locked' = locked
        /\ lockedSince' = lockedSince
    BY <1>12, <2>2 DEF CallTimesOut, nodeVars
  <2> HIDE DEF u
  <2>4. d \in Call /\ d.run = u /\ d.future = "raised" /\ d.req = c.req /\ d.nodes = c.nodes
        /\ d.seen = c.seen /\ d.ok = c.ok /\ d.bad = c.bad
    BY <1>1, <2>1 DEF Call
  <2> HIDE DEF d
  <2>5. (d.run = "running" => c.run = "running") /\ HistoryKept
    BY <2>3, <2>4, NothingLocked DEF u
  <2> QED BY <1>1, <1>5, <2>1, <2>3, <2>4, <2>5 DEF Effect, Change, Sane
<1> QED BY <1>6, <1>7, <1>8, <1>9, <1>10, <1>11, <1>12 DEF HandlerStep

\* A request in which only what is done grows, while one call changes, keeps the
\* invariant.
LEMMA EffectKeepsInv ==
  ASSUME IInv, NEW c \in calls, NEW d, Effect(c, d)
  PROVE  IInv'
<1> USE DEF IInv
<1>1. /\ req \in [Request -> Entry] /\ \A e \in calls : e \in Call /\ Sane(e)
      /\ exists \subseteq Name
  BY TypesUnfolded
<1>2. c.req \in Request
  BY <1>1 DEF Call
<1>3. d \in Call /\ Sane(d) /\ d.req = c.req /\ d.nodes = c.nodes /\ exists' \subseteq exists
  BY DEF Effect
<1>4. calls' \subseteq (calls \ {c}) \union {d}
  BY DEF Effect
<1>5. \A r \in Request :
        /\ req'[r].op = req[r].op /\ req'[r].phase = req[r].phase /\ req'[r].asked = req[r].asked
        /\ req'[r].todo = req[r].todo /\ req'[r].left = req[r].left
        /\ req'[r].answer = req[r].answer /\ req[r].done \subseteq req'[r].done
  BY DEF Effect
<1>6. TypeOK'
  <2>1. \A e \in calls' : e \in Call /\ Sane(e)
    BY <1>1, <1>3, <1>4
  <2>2. exists' \subseteq Name /\ locked' \subseteq Name
        /\ affinity' \in [Name -> Host \union {NoHost}] /\ req' \in [Request -> Entry]
        /\ lockedSince' \in [Request -> SUBSET Name]
    BY <1>1 DEF Effect, HistoryKept
  <2> QED BY <2>1, <2>2 DEF TypeOK, Entry, Call, Sane
<1>7. OneCallPerNode'
  BY <1>3, <1>4 DEF OneCallPerNode
<1>8. ASSUME NEW r \in Request PROVE GoodRequest(r)'
  <2>1. GoodRequest(r)
    OBVIOUS
  <2>2. \A e \in CallsOf(r)' : \E b \in CallsOf(r) : b.nodes = e.nodes
    BY <1>3, <1>4 DEF CallsOf
  <2> QED BY <1>5, <2>1, <2>2 DEF GoodRequest
<1>9. ASSUME NEW e \in calls' PROVE GoodCall(e)'
  <2>1. CASE e \in calls
    <3>1. GoodCall(e) /\ e.req \in Request
      BY <1>1, <2>1 DEF Call
    <3> QED BY <1>3, <1>5, <3>1 DEF GoodCall
  <2>2. CASE e = d
    <3>1. GoodCall(c)
      OBVIOUS
    <3>2. d.run # "queued" /\ (d.future = "replied" => d.run = "over")
      BY DEF Effect
    <3>4. d.ok \subseteq c.ok \union req'[c.req].done
      BY DEF Effect
    <3>5. req'[d.req].phase # "over" => d.ok \subseteq req'[d.req].done
      BY <1>2, <1>3, <1>5, <3>1, <3>4 DEF GoodCall
    <3>6. \A n \in d.nodes : req'[d.req].answer[n] \notin Refused
      BY <1>2, <1>3, <1>5, <3>1 DEF GoodCall
    <3> QED BY <1>2, <1>3, <1>5, <2>2, <3>2, <3>5, <3>6 DEF GoodCall
  <2> QED BY <1>4, <2>1, <2>2
<1> QED BY <1>6, <1>7, <1>8, <1>9

-----------------------------------------------------------------------------
(* A step of the API.                                                      *)

\* A step that changes one request keeps the invariant if the request is good
\* after it and still fits its calls.
LEMMA RequestStep ==
  ASSUME IInv, NEW r \in Request, UNCHANGED <<nodeVars, calls>>,
         req' \in [Request -> Entry], \A s \in Request \ {r} : req'[s] = req[s],
         GoodRequest(r)',
         CallsOf(r) # {} =>
            /\ req'[r].op = req[r].op
            /\ req'[r].phase = "over" \/ (req[r].phase # "over" /\ req[r].done \subseteq req'[r].done)
            /\ \A c \in CallsOf(r) : \A n \in c.nodes : req'[r].answer[n] \notin Refused
  PROVE  IInv'
<1> USE DEF IInv
<1>1. /\ exists' = exists /\ locked' = locked /\ affinity' = affinity /\ calls' = calls
      /\ lockedSince' = lockedSince
  BY DEF nodeVars
<1>2. TypeOK'
  BY <1>1 DEF TypeOK, Entry
<1>3. OneCallPerNode'
  BY <1>1 DEF OneCallPerNode
<1>4. ASSUME NEW s \in Request PROVE GoodRequest(s)'
  <2>1. CASE s = r
    BY <2>1
  <2>2. CASE s # r
    <3>1. GoodRequest(s) /\ req'[s] = req[s]
      BY <2>2
    <3> QED BY <1>1, <3>1 DEF GoodRequest, CallsOf
  <2> QED BY <2>1, <2>2
<1>5. ASSUME NEW c \in calls' PROVE GoodCall(c)'
  <2>1. c \in calls /\ GoodCall(c) /\ c.req \in Request
    BY <1>1, TypesUnfolded DEF Call
  <2>2. CASE c.req = r
    <3>1. c \in CallsOf(r)
      BY <2>1, <2>2 DEF CallsOf
    <3> QED BY <1>1, <2>1, <2>2, <3>1 DEF GoodCall
  <2>3. CASE c.req # r
    BY <1>1, <2>1, <2>3 DEF GoodCall
  <2> QED BY <2>2, <2>3
<1> QED BY <1>2, <1>3, <1>4, <1>5

\* What the sets of an answer hold.
LEMMA SetType ==
  ASSUME NEW a \in [Name -> Value \union {None}], NEW S, NEW v \in Value
  PROVE  /\ Set(a, S, v) \in [Name -> Value \union {None}]
         /\ \A n \in Name : Set(a, S, v)[n] = IF n \in S THEN v ELSE a[n]
BY DEF Set

\* A new request has no piece and no call.
LEMMA AskKeepsInv ==
  ASSUME IInv, NEW m \in Menu, Ask(m.req, m.op, m.names)
  PROVE  IInv'
<1> DEFINE r == m.req
           a == Set(Idle.answer, m.names \ exists, "missing")
           k == [Idle EXCEPT !.op = m.op, !.phase = "asked", !.asked = m.names,
                             !.todo = m.names \intersect exists, !.answer = a]
<1>1. r \in Request /\ m.op \in Exclusive \union Shared /\ m.names \in SUBSET Name
  BY RequestsAssumption DEF RequestsAssumption
<1>2. req' = [req EXCEPT ![r] = k] /\ req[r].phase = "idle" /\ UNCHANGED <<nodeVars, calls>>
  BY DEF Ask
<1>3. req \in [Request -> Entry] /\ exists \subseteq Name
  BY TypesUnfolded DEF IInv
<1>4. Idle.answer \in [Name -> Value \union {None}] /\ \A n \in Name : Idle.answer[n] = None
  BY DEF Idle
<1>5. a \in [Name -> Value \union {None}] /\ \A n \in Name : a[n] = IF n \in m.names \ exists THEN "missing" ELSE None
  BY <1>4, SetType DEF Value
<1> HIDE DEF a
<1>6. k \in Entry /\ k.phase = "asked" /\ k.left = {} /\ k.todo = m.names \intersect exists
      /\ k.answer = a /\ k.op = m.op /\ k.asked = m.names
  BY <1>1, <1>3, <1>5 DEF Idle, Entry
<1> HIDE DEF k, r
<1>7. req' \in [Request -> Entry] /\ req'[r] = k /\ \A s \in Request \ {r} : req'[s] = req[s]
  BY <1>1, <1>2, <1>3, <1>6
<1>8. CallsOf(r) = {} /\ CallsOf(r)' = {}
  <2>1. CallsOf(r) = {}
    BY <1>1, <1>2 DEF IInv, GoodRequest
  <2> QED BY <1>2, <2>1 DEF CallsOf
<1>9. GoodRequest(r)'
  BY <1>1, <1>5, <1>6, <1>7, <1>8 DEF GoodRequest, None
<1> QED BY <1>1, <1>2, <1>7, <1>8, <1>9, RequestStep

\* A node that is locked is answered for and no longer to be done.
LEMMA FilterKeepsInv ==
  ASSUME IInv, NEW r \in Request, Filter(r)
  PROVE  IInv'
<1> DEFINE a == Set(req[r].answer, req[r].todo \intersect locked, "locked")
           k == [req[r] EXCEPT !.phase = "filtered", !.todo = req[r].todo \ locked, !.answer = a]
<1>1. req \in [Request -> Entry] /\ req[r] \in Entry
  BY TypesUnfolded DEF IInv
<1>2. req[r].phase = "asked" /\ GoodRequest(r) /\ UNCHANGED <<nodeVars, calls>>
  BY DEF IInv, Filter
<1>3. CallsOf(r) = {} /\ CallsOf(r)' = {}
  BY <1>2 DEF GoodRequest, CallsOf
<1>4. req[r].answer \in [Name -> Value \union {None}]
  BY <1>1 DEF Entry
<1>5. a \in [Name -> Value \union {None}]
      /\ \A n \in Name : a[n] = IF n \in req[r].todo \intersect locked THEN "locked" ELSE req[r].answer[n]
  BY <1>4, SetType DEF Value
<1>6. req' = [req EXCEPT ![r] = k]
  BY <1>1 DEF Filter, Entry
<1> HIDE DEF a
<1>7. k \in Entry /\ k.phase = "filtered" /\ k.todo = req[r].todo \ locked /\ k.answer = a
      /\ k.left = req[r].left /\ k.done = req[r].done /\ k.op = req[r].op
  BY <1>1, <1>5 DEF Entry
<1> HIDE DEF k
<1>8. req' \in [Request -> Entry] /\ req'[r] = k /\ \A s \in Request \ {r} : req'[s] = req[s]
  BY <1>1, <1>6, <1>7
<1>9. GoodRequest(r)'
  <2>1. \A n \in Name : a[n] = "success" => req[r].answer[n] = "success"
    BY <1>5
  <2>2. req[r].left = {} /\ (\A n \in req[r].todo : n \in Name /\ req[r].answer[n] = None)
        /\ \A n \in Name : req[r].answer[n] = "success" => n \in req[r].done
    BY <1>1, <1>2 DEF GoodRequest, Entry
  <2> QED BY <1>3, <1>5, <1>7, <1>8, <2>1, <2>2 DEF GoodRequest
<1> QED BY <1>2, <1>3, <1>8, <1>9, RequestStep

\* The steps that only go on to another phase.
LEMMA PhaseStep ==
  ASSUME IInv, NEW r \in Request, NEW p \in {"network", "answered", "error"},
         NEW a \in [Name -> Value \union {None}],
         \A n \in Name : a[n] = "success" => n \in req[r].done,
         \A c \in CallsOf(r) : \A n \in c.nodes : a[n] \notin Refused,
         req[r].phase # "over", UNCHANGED <<nodeVars, calls>>,
         req' = [req EXCEPT ![r].phase = p, ![r].left = {}, ![r].answer = a]
  PROVE  IInv'
<1> DEFINE k == [req[r] EXCEPT !.phase = p, !.left = {}, !.answer = a]
<1>1. req \in [Request -> Entry] /\ req[r] \in Entry
  BY TypesUnfolded DEF IInv
<1>2. req' = [req EXCEPT ![r] = k]
  BY <1>1 DEF Entry
<1>3. k \in Entry /\ k.phase = p /\ k.left = {} /\ k.answer = a /\ k.done = req[r].done /\ k.op = req[r].op
  BY <1>1 DEF Entry
<1> HIDE DEF k
<1>4. req' \in [Request -> Entry] /\ req'[r] = k /\ \A s \in Request \ {r} : req'[s] = req[s]
  <2>1. req' \in [Request -> Entry]
    BY <1>1, <1>2, <1>3
  <2>2. req'[r] = k
    BY <1>1, <1>2
  <2>3. \A s \in Request \ {r} : req'[s] = req[s]
    BY <1>1, <1>2
  <2> QED BY <2>1, <2>2, <2>3
<1>5. GoodRequest(r)'
  BY <1>3, <1>4 DEF GoodRequest
<1> QED BY <1>3, <1>4, <1>5, RequestStep

\* The answer is put together from what the calls of the request say.
LEMMA CollectedSays ==
  ASSUME IInv, NEW r \in Request
  PROVE  /\ \A n \in Name : IF \E c \in CallsOf(r) : n \in c.nodes
                             THEN \E c \in CallsOf(r) : n \in c.nodes /\ Collected(r)[n] = Outcome(c, n)
                             ELSE Collected(r)[n] = req[r].answer[n]
         /\ \A c \in CallsOf(r), n \in Name :
              /\ Outcome(c, n) \in {"timeout", "raised", "success", "failed", None}
              /\ Outcome(c, n) = "success" => n \in c.ok
              /\ Outcome(c, n) = None => c.future = "replied" /\ n \notin c.seen
         /\ Collected(r) \in [Name -> Value \union {None}]
<1>1. \A n \in Name : IF \E c \in CallsOf(r) : n \in c.nodes
                       THEN \E c \in CallsOf(r) : n \in c.nodes /\ Collected(r)[n] = Outcome(c, n)
                       ELSE Collected(r)[n] = req[r].answer[n]
  <2> SUFFICES ASSUME NEW n \in Name
               PROVE  IF \E c \in CallsOf(r) : n \in c.nodes
                       THEN \E c \in CallsOf(r) : n \in c.nodes /\ Collected(r)[n] = Outcome(c, n)
                       ELSE Collected(r)[n] = req[r].answer[n]
    OBVIOUS
  <2>1. CASE \E c \in CallsOf(r) : n \in c.nodes
    <3> DEFINE e == CHOOSE c \in CallsOf(r) : n \in c.nodes
    <3>1. e \in CallsOf(r) /\ n \in e.nodes
      BY <2>1
    <3>2. Collected(r)[n] = Outcome(e, n)
      BY <2>1 DEF Collected
    <3> HIDE DEF e
    <3> QED BY <2>1, <3>1, <3>2
  <2>2. CASE ~ \E c \in CallsOf(r) : n \in c.nodes
    BY <2>2 DEF Collected
  <2> QED BY <2>1, <2>2
<1>2. \A c \in CallsOf(r), n \in Name :
        /\ Outcome(c, n) \in {"timeout", "raised", "success", "failed", None}
        /\ Outcome(c, n) = "success" => n \in c.ok
        /\ Outcome(c, n) = None => c.future = "replied" /\ n \notin c.seen
  <2>1. \A c \in CallsOf(r) : c.future \in {"waiting", "replied", "raised"}
    BY TypesUnfolded DEF IInv, CallsOf, Call
  <2> QED BY <2>1 DEF Outcome, Reply, None
<1>3. req[r].answer \in [Name -> Value \union {None}]
  BY TypesUnfolded DEF IInv, Entry
<1>4. \A n \in Name : Collected(r)[n] \in Value \union {None}
  BY <1>1, <1>2, <1>3 DEF Value
<1>5. \E f : Collected(r) = [n \in Name |-> f[n]]
  <2> DEFINE f == Collected(r)
  <2>1. Collected(r) = [n \in Name |-> f[n]]
    BY DEF Collected
  <2> QED BY <2>1
<1> QED BY <1>1, <1>2, <1>4, <1>5

\* The steps that only bring a request to its next phase or end it with an error.
LEMMA GoesOnKeepsInv ==
  ASSUME IInv, NEW r \in Request,
         \/ NothingToDo(r) \/ NotDispatched(r) \/ PoolFull(r) \/ Collect(r) \/ ApiTimeout(r)
         \/ \E works \in BOOLEAN : Network(r, works)
  PROVE  IInv'
<1>1. req \in [Request -> Entry] /\ req[r] \in Entry /\ GoodRequest(r)
  BY TypesUnfolded DEF IInv
<1>2. /\ req[r].answer \in [Name -> Value \union {None}]
      /\ \A n \in Name : req[r].answer[n] = "success" => n \in req[r].done
  BY <1>1 DEF Entry, GoodRequest
<1>3. \A c \in CallsOf(r) : \A n \in c.nodes : n \in Name /\ req[r].answer[n] \notin Refused
  BY TypesUnfolded DEF IInv, GoodCall, CallsOf, Call
<1>4. req[r].phase # "submitting" => req[r].left = {}
  BY <1>1 DEF GoodRequest
<1>5. ASSUME req' = [req EXCEPT ![r].phase = "answered"], req[r].phase = "filtered", UNCHANGED <<nodeVars, calls>>
      PROVE  IInv'
  <2>1. req' = [req EXCEPT ![r].phase = "answered", ![r].left = {}, ![r].answer = req[r].answer]
    BY <1>1, <1>4, <1>5 DEF Entry
  <2> QED BY <1>2, <1>3, <1>5, <2>1, PhaseStep
<1>6. CASE NothingToDo(r)
  BY <1>5, <1>6 DEF NothingToDo
<1>7. CASE NotDispatched(r)
  <2>1. req' = [req EXCEPT ![r].phase = "error"] /\ req[r].phase = "filtered" /\ UNCHANGED <<nodeVars, calls>>
    BY <1>7 DEF NotDispatched
  <2>2. req' = [req EXCEPT ![r].phase = "error", ![r].left = {}, ![r].answer = req[r].answer]
    BY <1>1, <1>4, <2>1 DEF Entry
  <2> QED BY <1>2, <1>3, <2>1, <2>2, PhaseStep
<1>8. CASE PoolFull(r)
  <2>1. req' = [req EXCEPT ![r].phase = "error", ![r].left = {}] /\ req[r].phase = "submitting"
        /\ UNCHANGED <<nodeVars, calls>>
    BY <1>8 DEF PoolFull
  <2>2. req' = [req EXCEPT ![r].phase = "error", ![r].left = {}, ![r].answer = req[r].answer]
    BY <1>1, <2>1 DEF Entry
  <2> QED BY <1>2, <1>3, <2>1, <2>2, PhaseStep
<1>9. CASE Collect(r) \/ ApiTimeout(r)
  <2> DEFINE a == Collected(r)
             p == AfterWait(r)
  <2>1. req' = [req EXCEPT ![r].phase = p, ![r].answer = a] /\ req[r].phase = "submitting"
        /\ req[r].left = {} /\ UNCHANGED <<nodeVars, calls>>
    BY <1>9 DEF Collect, ApiTimeout, Waiting
  <2>2. p \in {"network", "answered", "error"}
    BY DEF AfterWait
  <2>3. a \in [Name -> Value \union {None}]
    BY CollectedSays
  <2>4. ASSUME NEW n \in Name, a[n] = "success" PROVE n \in req[r].done
    <3>1. CASE \E c \in CallsOf(r) : n \in c.nodes
      <4>1. PICK c \in CallsOf(r) : n \in c.nodes /\ a[n] = Outcome(c, n)
        BY <3>1, CollectedSays
      <4>2. n \in c.ok
        BY <2>4, <4>1, CollectedSays
      <4>3. GoodCall(c) /\ c.req = r
        BY DEF IInv, CallsOf
      <4> QED BY <2>1, <4>2, <4>3 DEF GoodCall
    <3>2. CASE ~ \E c \in CallsOf(r) : n \in c.nodes
      <4>1. a[n] = req[r].answer[n]
        BY <3>2, CollectedSays
      <4> QED BY <1>2, <2>4, <4>1
    <3> QED BY <3>1, <3>2
  <2>5. ASSUME NEW c \in CallsOf(r), NEW n \in c.nodes PROVE a[n] \notin Refused
    <3>1. n \in Name
      BY <1>3
    <3>2. PICK e \in CallsOf(r) : n \in e.nodes /\ a[n] = Outcome(e, n)
      BY <3>1, CollectedSays
    <3>3. a[n] \in {"timeout", "raised", "success", "failed", None}
      BY <3>1, <3>2, CollectedSays
    <3> QED BY <3>3 DEF Refused, None
  <2> HIDE DEF a, p
  <2>6. req' = [req EXCEPT ![r].phase = p, ![r].left = {}, ![r].answer = a]
    <3>1. [req[r] EXCEPT !.phase = p, !.answer = a]
            = [req[r] EXCEPT !.phase = p, !.left = {}, !.answer = a]
      BY <1>1, <2>1 DEF Entry
    <3>2. req' = [req EXCEPT ![r] = [req[r] EXCEPT !.phase = p, !.answer = a]]
      BY <2>1
    <3>3. [req EXCEPT ![r].phase = p, ![r].left = {}, ![r].answer = a]
            = [req EXCEPT ![r] = [req[r] EXCEPT !.phase = p, !.left = {}, !.answer = a]]
      BY <1>1
    <3> QED BY <3>1, <3>2, <3>3
  <2>7. /\ \A n \in Name : a[n] = "success" => n \in req[r].done
        /\ \A c \in CallsOf(r) : \A n \in c.nodes : a[n] \notin Refused
    BY <2>4, <2>5
  <2>8. req[r].phase # "over"
    BY <2>1
  <2>9. a \in [Name -> Value \union {None}] /\ UNCHANGED <<nodeVars, calls>>
    BY <2>1, <2>3
  <2>10. CASE p = "network"
    <3>1. req' = [req EXCEPT ![r].phase = "network", ![r].left = {}, ![r].answer = a]
      BY <2>6, <2>10
    <3> QED BY <2>7, <2>8, <2>9, <3>1, PhaseStep
  <2>11. CASE p = "answered"
    <3>1. req' = [req EXCEPT ![r].phase = "answered", ![r].left = {}, ![r].answer = a]
      BY <2>6, <2>11
    <3> QED BY <2>7, <2>8, <2>9, <3>1, PhaseStep
  <2> QED BY <2>10, <2>11 DEF p, AfterWait
<1>10. ASSUME NEW works \in BOOLEAN, Network(r, works) PROVE IInv'
  <2> DEFINE a == IF works THEN req[r].answer ELSE Set(req[r].answer, req[r].todo, "nodhcp")
  <2>1. req' = [req EXCEPT ![r].phase = "answered", ![r].answer = a] /\ req[r].phase = "network"
        /\ UNCHANGED <<nodeVars, calls>>
    BY <1>10 DEF Network
  <2>2. a \in [Name -> Value \union {None}]
        /\ \A n \in Name : a[n] = req[r].answer[n] \/ a[n] = "nodhcp"
    BY <1>2, SetType DEF Value
  <2> HIDE DEF a
  <2>3. req' = [req EXCEPT ![r].phase = "answered", ![r].left = {}, ![r].answer = a]
    <3>1. [req[r] EXCEPT !.phase = "answered", !.answer = a]
            = [req[r] EXCEPT !.phase = "answered", !.left = {}, !.answer = a]
      BY <1>1, <1>4, <2>1 DEF Entry
    <3> QED BY <2>1, <3>1
  <2>4. \A n \in Name : a[n] = "success" => n \in req[r].done
    BY <1>2, <2>2
  <2>5. \A c \in CallsOf(r) : \A n \in c.nodes : a[n] \notin Refused
    BY <1>3, <2>2 DEF Refused
  <2> QED BY <2>1, <2>2, <2>3, <2>4, <2>5, PhaseStep
<1> QED BY <1>6, <1>7, <1>8, <1>9, <1>10

\* The pieces have no node that was refused, and no two of them share one.
LEMMA DispatchKeepsInv ==
  ASSUME IInv, NEW r \in Request, NEW L \in SUBSET Host, Dispatch(r, L)
  PROVE  IInv'
<1> DEFINE there == req[r].todo \intersect exists
           lost == {n \in there : affinity[n] \notin L \union {NoHost}}
           P == IF req[r].op = "clean" THEN AffinityPieces(Rows(there), Listed(L))
                                       ELSE AnyPieces(Rows(req[r].todo), Listed(L))
           a == IF req[r].op = "clean" THEN Set(req[r].answer, lost, "noconductor") ELSE req[r].answer
           k == [req[r] EXCEPT !.phase = "submitting", !.left = P, !.answer = a]
<1>1. /\ req \in [Request -> Entry] /\ req[r] \in Entry /\ GoodRequest(r)
      /\ affinity \in [Name -> Host \union {NoHost}]
  BY TypesUnfolded DEF IInv
<1>2. req[r].phase = "filtered" /\ L # {} /\ UNCHANGED <<nodeVars, calls>>
  BY DEF Dispatch
<1>3. req' = [req EXCEPT ![r] = k]
  BY <1>1 DEF Dispatch, Entry
<1>4. CallsOf(r) = {} /\ CallsOf(r)' = {}
  BY <1>1, <1>2 DEF GoodRequest, CallsOf
<1>5. /\ req[r].answer \in [Name -> Value \union {None}] /\ req[r].todo \in SUBSET Name
      /\ \A n \in req[r].todo : req[r].answer[n] = None
      /\ \A n \in Name : req[r].answer[n] = "success" => n \in req[r].done
  BY <1>1, <1>2 DEF Entry, GoodRequest
<1>6. /\ P \subseteq Piece
      /\ \A p \in P : p.nodes \subseteq req[r].todo
      /\ req[r].op = "clean" => \A p \in P : p.nodes \intersect lost = {}
      /\ \A p, q \in P : p # q => p.nodes \intersect q.nodes = {}
  <2>1. CASE req[r].op = "clean"
    <3>1. there \in SUBSET Name
      BY <1>5
    <3>2. P \subseteq Piece /\ IsPartition(P, {n \in there : affinity[n] \in L \union {NoHost}})
      BY <1>1, <1>2, <2>1, <3>1, AffinityPiecesGood
    <3> HIDE DEF P
    <3>3. \A p \in P : p.nodes \subseteq {n \in there : affinity[n] \in L \union {NoHost}}
      BY <3>2 DEF IsPartition
    <3> QED BY <3>2, <3>3 DEF IsPartition
  <2>2. CASE req[r].op # "clean"
    BY <1>2, <1>5, <2>2, AnyPiecesGood
  <2> QED BY <2>1, <2>2
<1>7. /\ a \in [Name -> Value \union {None}]
      /\ \A n \in Name : a[n] = req[r].answer[n] \/ (req[r].op = "clean" /\ n \in lost /\ a[n] = "noconductor")
  BY <1>5, SetType DEF Value
<1> HIDE DEF P, a, lost, there
<1>8. k \in Entry /\ k.phase = "submitting" /\ k.left = P /\ k.answer = a
      /\ k.done = req[r].done /\ k.op = req[r].op
  BY <1>1, <1>6, <1>7 DEF Entry
<1> HIDE DEF k
<1>9. req' \in [Request -> Entry] /\ req'[r] = k /\ \A s \in Request \ {r} : req'[s] = req[s]
  BY <1>1, <1>3, <1>8
<1>10. GoodRequest(r)'
  <2>1. \A n \in Name : a[n] = "success" => n \in req[r].done
    BY <1>5, <1>7
  <2>2. ASSUME NEW p \in P, NEW n \in p.nodes PROVE a[n] \notin Refused
    <3>1. n \in req[r].todo /\ n \in Name /\ (req[r].op = "clean" => n \notin lost)
      BY <1>5, <1>6
    <3> QED BY <1>5, <1>7, <3>1 DEF Refused, None
  <2> QED BY <1>4, <1>6, <1>8, <1>9, <2>1, <2>2 DEF GoodRequest
<1> QED BY <1>2, <1>4, <1>9, <1>10, RequestStep

\* A call has the nodes of one of the pieces that are left, and it leaves them.
LEMMA SubmitKeepsInv ==
  ASSUME IInv, NEW r \in Request, Submit(r)
  PROVE  IInv'
<1>1. /\ req \in [Request -> Entry] /\ req[r] \in Entry /\ GoodRequest(r)
      /\ \A c \in calls : c \in Call /\ Sane(c)
  BY TypesUnfolded DEF IInv
<1>2. PICK p \in req[r].left :
        /\ req' = [req EXCEPT ![r].left = @ \ {p}]
        /\ calls' = calls \union
            {[req |-> r, host |-> p.host, nodes |-> p.nodes, future |-> "waiting",
              run |-> "queued", seen |-> {}, ok |-> {}, bad |-> {}]}
  BY DEF Submit
<1> DEFINE d == [req |-> r, host |-> p.host, nodes |-> p.nodes, future |-> "waiting",
                 run |-> "queued", seen |-> {}, ok |-> {}, bad |-> {}]
<1>3. req[r].phase = "submitting" /\ UNCHANGED nodeVars
  BY DEF Submit
<1>4. p \in Piece /\ req[r].left \in SUBSET Piece
  BY <1>1 DEF Entry
<1>5. d \in Call /\ Sane(d) /\ d.req = r /\ d.nodes = p.nodes /\ d.run = "queued"
      /\ d.future = "waiting" /\ d.seen = {} /\ d.ok = {} /\ d.bad = {}
  BY <1>4 DEF Call, Piece, Sane
<1>6. calls' = calls \union {d}
  BY <1>2
<1> HIDE DEF d
<1>7. /\ req' \in [Request -> Entry]
      /\ \A s \in Request \ {r} : req'[s] = req[s]
      /\ req'[r].left = req[r].left \ {p} /\ req'[r].phase = req[r].phase /\ req'[r].op = req[r].op
      /\ req'[r].answer = req[r].answer /\ req'[r].done = req[r].done /\ req'[r].todo = req[r].todo
  <2>1. [req[r] EXCEPT !.left = req[r].left \ {p}] \in Entry
    BY <1>1 DEF Entry
  <2> QED BY <1>1, <1>2, <2>1 DEF Entry
<1>8. /\ exists' = exists /\ locked' = locked /\ affinity' = affinity
      /\ lockedSince' = lockedSince
  BY <1>3 DEF nodeVars
<1>9. TypeOK'
  <2>1. \A c \in calls' : c \in Call /\ Sane(c)
    BY <1>1, <1>5, <1>6
  <2>2. TypeOK
    BY DEF IInv
  <2> QED BY <1>7, <1>8, <2>1, <2>2 DEF TypeOK, Entry, Call, Sane
<1>10. \A c \in CallsOf(r) : p.nodes \intersect c.nodes = {}
  BY <1>1 DEF GoodRequest
<1>11. OneCallPerNode'
  <2>1. SUFFICES ASSUME NEW c \in calls', NEW e \in calls', c.req = e.req, c # e
                 PROVE  c.nodes \intersect e.nodes = {}
    BY DEF OneCallPerNode
  <2>2. CASE c \in calls /\ e \in calls
    BY <2>1, <2>2 DEF IInv, OneCallPerNode
  <2>3. CASE c = d
    BY <1>5, <1>6, <1>10, <2>1, <2>3 DEF CallsOf
  <2>4. CASE e = d
    BY <1>5, <1>6, <1>10, <2>1, <2>4 DEF CallsOf
  <2> QED BY <1>6, <2>2, <2>3, <2>4
<1>12. ASSUME NEW s \in Request PROVE GoodRequest(s)'
  <2>1. CASE s = r
    <3>1. CallsOf(r)' = CallsOf(r) \union {d}
      BY <1>5, <1>6 DEF CallsOf
    <3>2. \A q \in req[r].left \ {p} : q.nodes \intersect d.nodes = {}
      BY <1>1, <1>5 DEF GoodRequest
    <3> QED BY <1>1, <1>3, <1>7, <2>1, <3>1, <3>2 DEF GoodRequest
  <2>2. CASE s # r
    <3>1. GoodRequest(s) /\ req'[s] = req[s]
      BY <1>7, <2>2 DEF IInv
    <3>2. CallsOf(s)' = CallsOf(s)
      BY <1>5, <1>6, <2>2 DEF CallsOf
    <3> QED BY <3>1, <3>2 DEF GoodRequest
  <2> QED BY <2>1, <2>2
<1>13. ASSUME NEW c \in calls' PROVE GoodCall(c)'
  <2>1. CASE c \in calls
    <3>1. GoodCall(c) /\ c.req \in Request
      BY <1>1, <2>1 DEF IInv, Call
    <3>2. req'[c.req].op = req[c.req].op /\ req'[c.req].phase = req[c.req].phase
          /\ req'[c.req].done = req[c.req].done /\ req'[c.req].answer = req[c.req].answer
      BY <1>7, <3>1
    <3> QED BY <1>8, <3>1, <3>2 DEF GoodCall
  <2>2. CASE c = d
    <3>1. \A n \in d.nodes : req[r].answer[n] \notin Refused
      BY <1>1, <1>5 DEF GoodRequest
    <3> QED BY <1>5, <1>7, <2>2, <3>1 DEF GoodCall
  <2> QED BY <1>6, <2>1, <2>2
<1> QED BY <1>9, <1>11, <1>12, <1>13 DEF IInv

\* A request whose response is sent says nothing more of its nodes.
LEMMA RespondKeepsInv ==
  ASSUME IInv, NEW r \in Request, Respond(r)
  PROVE  IInv'
<1> DEFINE k == [Idle EXCEPT !.op = req[r].op, !.phase = "over"]
<1>1. /\ req \in [Request -> Entry] /\ req[r] \in Entry /\ GoodRequest(r)
      /\ \A c \in calls : c \in Call /\ Sane(c)
  BY TypesUnfolded DEF IInv
<1>2. req' = [req EXCEPT ![r] = k] /\ calls' \subseteq calls
      /\ req[r].phase \in {"answered", "error"}
  BY DEF Respond
<1>3. k \in Entry /\ k.phase = "over" /\ k.op = req[r].op /\ k.left = {}
      /\ \A n \in Name : k.answer[n] = None
  BY <1>1 DEF Idle, Entry
<1> HIDE DEF k
<1>4. req' \in [Request -> Entry] /\ req'[r] = k /\ \A s \in Request \ {r} : req'[s] = req[s]
  BY <1>1, <1>2, <1>3
<1>5. /\ exists' = exists /\ locked' = locked /\ affinity' = affinity
      /\ lockedSince' \in [Request -> SUBSET Name]
  BY TypesUnfolded DEF IInv, Respond
<1>6. TypeOK'
  <2>1. \A c \in calls' : c \in Call /\ Sane(c)
    BY <1>1, <1>2
  <2>2. TypeOK
    BY DEF IInv
  <2> QED BY <1>4, <1>5, <2>1, <2>2 DEF TypeOK, Entry, Call, Sane
<1>7. OneCallPerNode'
  BY <1>2 DEF IInv, OneCallPerNode
<1>8. ASSUME NEW s \in Request PROVE GoodRequest(s)'
  <2>1. CallsOf(s)' \subseteq CallsOf(s)
    BY <1>2 DEF CallsOf
  <2>2. CASE s = r
    BY <1>3, <1>4, <2>2 DEF GoodRequest, None
  <2>3. CASE s # r
    <3>1. GoodRequest(s) /\ req'[s] = req[s]
      BY <1>4, <2>3 DEF IInv
    <3> QED BY <2>1, <3>1 DEF GoodRequest
  <2> QED BY <2>2, <2>3
<1>9. ASSUME NEW c \in calls' PROVE GoodCall(c)'
  <2>1. GoodCall(c) /\ c.req \in Request /\ c.nodes \in SUBSET Name
    BY <1>1, <1>2 DEF IInv, Call
  <2>2. CASE c.req = r
    <3>1. req'[c.req].phase = "over" /\ req'[c.req].op = req[c.req].op
          /\ \A n \in c.nodes : req'[c.req].answer[n] \notin Refused
      BY <1>3, <1>4, <2>1, <2>2 DEF Refused, None
    <3> QED BY <1>5, <2>1, <3>1 DEF GoodCall
  <2>3. CASE c.req # r
    BY <1>4, <1>5, <2>1, <2>3 DEF GoodCall
  <2> QED BY <2>2, <2>3
<1> QED BY <1>6, <1>7, <1>8, <1>9 DEF IInv

\* The handlers of a conductor that dies are over without a reply.
LEMMA DieKeepsInv ==
  ASSUME IInv, NEW h \in Host, Die(h)
  PROVE  IInv'
<1> DEFINE Hit(c) == c.host = h /\ c.run = "running"
           After(c) == IF Hit(c) THEN [c EXCEPT !.run = "over"] ELSE c
<1>1. /\ req \in [Request -> Entry] /\ \A c \in calls : c \in Call /\ Sane(c)
  BY TypesUnfolded DEF IInv
<1>2. /\ exists' = exists /\ locked' = locked /\ affinity' = affinity /\ req' = req
      /\ lockedSince' = lockedSince
  BY DEF Die, nodeVars
<1>3. \A e \in calls' : \E c \in calls : e = After(c)
  BY DEF Die
<1>4. \A c \in calls : /\ After(c) \in Call /\ Sane(After(c)) /\ After(c).req = c.req
                       /\ After(c).nodes = c.nodes /\ After(c).future = c.future
                       /\ After(c).seen = c.seen /\ After(c).ok = c.ok /\ After(c).bad = c.bad
                       /\ (After(c).run = c.run \/ After(c).run = "over")
  BY <1>1 DEF Call, Sane
<1> HIDE DEF After, Hit
<1>5. TypeOK'
  <2>1. \A c \in calls' : c \in Call /\ Sane(c)
    BY <1>3, <1>4
  <2>2. TypeOK
    BY DEF IInv
  <2> QED BY <1>2, <2>1, <2>2 DEF TypeOK, Entry, Call, Sane
<1>6. OneCallPerNode'
  <2>1. SUFFICES ASSUME NEW c \in calls', NEW e \in calls', c.req = e.req, c # e
                 PROVE  c.nodes \intersect e.nodes = {}
    BY DEF OneCallPerNode
  <2>2. PICK a \in calls, b \in calls : c = After(a) /\ e = After(b)
    BY <1>3
  <2>3. a # b /\ a.req = b.req
    BY <1>4, <2>1, <2>2
  <2>4. a.nodes \intersect b.nodes = {}
    BY <2>3 DEF IInv, OneCallPerNode
  <2> QED BY <1>4, <2>2, <2>4
<1>7. ASSUME NEW s \in Request PROVE GoodRequest(s)'
  <2>1. \A e \in CallsOf(s)' : \E c \in CallsOf(s) : c.nodes = e.nodes
    BY <1>3, <1>4 DEF CallsOf
  <2>2. GoodRequest(s)
    BY DEF IInv
  <2> QED BY <1>2, <2>1, <2>2 DEF GoodRequest
<1>8. ASSUME NEW e \in calls' PROVE GoodCall(e)'
  <2>1. PICK c \in calls : e = After(c)
    BY <1>3
  <2>2. GoodCall(c)
    BY DEF IInv
  <2>3. /\ e.req = c.req /\ e.nodes = c.nodes /\ e.future = c.future
        /\ e.seen = c.seen /\ e.ok = c.ok /\ e.bad = c.bad
        /\ (e.run = c.run \/ e.run = "over")
    BY <1>4, <2>1
  <2> QED BY <1>2, <2>2, <2>3 DEF GoodCall
<1> QED BY <1>5, <1>6, <1>7, <1>8 DEF IInv

\* Nothing is asked at the start.
LEMMA InitIInv == Init => IInv
<1> SUFFICES ASSUME Init PROVE IInv
  OBVIOUS
<1>1. Idle \in Entry /\ Idle.phase = "idle" /\ Idle.left = {} /\ \A n \in Name : Idle.answer[n] = None
  BY DEF Idle, Entry
<1>2. exists \subseteq Name /\ locked \subseteq Name /\ affinity \in [Name -> Host \union {NoHost}]
      /\ lockedSince \in [Request -> SUBSET Name] /\ req \in [Request -> Entry] /\ calls = {}
  BY <1>1, RequestsAssumption DEF RequestsAssumption, Init
<1>3. TypeOK
  BY <1>2 DEF TypeOK, Entry
<1>4. ASSUME NEW r \in Request PROVE GoodRequest(r)
  <2>1. req[r] = Idle
    BY DEF Init
  <2> QED BY <1>1, <1>2, <2>1 DEF GoodRequest, CallsOf, None
<1> QED BY <1>2, <1>3, <1>4 DEF IInv, OneCallPerNode

\* A step that changes no variable keeps the invariant.
LEMMA StutterKeepsInv ==
  ASSUME IInv, UNCHANGED vars
  PROVE  IInv'
<1>1. /\ exists' = exists /\ locked' = locked /\ affinity' = affinity /\ req' = req
      /\ calls' = calls /\ lockedSince' = lockedSince
  BY DEF vars, nodeVars
<1> QED BY <1>1 DEF IInv, TypeOK, OneCallPerNode, GoodRequest, GoodCall, CallsOf

\* Every step keeps the invariant.
LEMMA NextKeepsInv == IInv /\ [Next]_vars => IInv'
<1> SUFFICES ASSUME IInv, [Next]_vars PROVE IInv'
  OBVIOUS
<1>1. ASSUME NEW m \in Menu, Ask(m.req, m.op, m.names) PROVE IInv'
  BY <1>1, AskKeepsInv
<1>2. ASSUME NEW r \in Request, ApiGoesOn(r) \/ ApiTimeout(r) PROVE IInv'
  <2>1. CASE Filter(r)
    BY <2>1, FilterKeepsInv
  <2>2. CASE \E L \in SUBSET Host : Dispatch(r, L)
    BY <2>2, DispatchKeepsInv
  <2>3. CASE Submit(r)
    BY <2>3, SubmitKeepsInv
  <2>4. CASE Respond(r)
    BY <2>4, RespondKeepsInv
  <2>5. CASE \/ NothingToDo(r) \/ NotDispatched(r) \/ PoolFull(r) \/ Collect(r) \/ ApiTimeout(r)
             \/ \E works \in BOOLEAN : Network(r, works)
    BY <2>5, GoesOnKeepsInv
  <2> QED BY <1>2, <2>1, <2>2, <2>3, <2>4, <2>5 DEF ApiGoesOn
<1>3. ASSUME NEW c \in calls, HandlerStep(c) \/ CallTimesOut(c) PROVE IInv'
  <2>1. PICK d : Effect(c, d)
    BY <1>3, HandlerEffect
  <2> QED BY <2>1, EffectKeepsInv
<1>4. ASSUME NEW h \in Host, Die(h) PROVE IInv'
  BY <1>4, DieKeepsInv
<1>5. CASE UNCHANGED vars
  BY <1>5, StutterKeepsInv
<1> QED BY <1>1, <1>2, <1>3, <1>4, <1>5 DEF Next

\* The inductive invariant holds at any time.
THEOREM Invariant == Spec => []IInv
<1>1. Init => IInv
  BY InitIInv
<1>2. IInv /\ [Next]_vars => IInv'
  BY NextKeepsInv
<1> QED BY <1>1, <1>2, PTL DEF Spec

\* The requests, the nodes and the calls stay well typed.
THEOREM TypeCorrect == Spec => []TypeOK
<1>1. IInv => TypeOK
  BY DEF IInv
<1> QED BY <1>1, Invariant, PTL

\* Whatever conductors are listed and however many there are, no two calls of a
\* request are for the same node (spawn_rpc_worker, spawn_affinity_worker).
THEOREM NoTwoCalls == Spec => []OneCallPerNode
<1>1. IInv => OneCallPerNode
  BY DEF IInv
<1> QED BY <1>1, Invariant, PTL

\* The answer says success only of nodes whose work was done for this request,
\* though calls are late, time out, or lose their conductor (_wait_rpc_result).
THEOREM SuccessIsTrue == Spec => []AnswerIsTrue
<1>1. IInv => AnswerIsTrue
  BY DEF IInv, GoodRequest, AnswerIsTrue
<1> QED BY <1>1, Invariant, PTL

\* No conductor is ever sent a node that the API refused
\* (_filter_unavailable_nodes, get_topic_for_affinity).
THEOREM RefusedStayHome == Spec => []RefusedIsUntouched
<1>1. IInv => RefusedIsUntouched
  BY DEF IInv, GoodCall, RefusedIsUntouched, Refused
<1> QED BY <1>1, Invariant, PTL

-----------------------------------------------------------------------------
(* Every node that was asked for is in the answer.                         *)

\* The nodes of S that are locked were locked since r was filtered.
Recorded(r, S) == S \intersect locked \subseteq lockedSince[r]

\* A reading request under way: what its conductors have still to list of its
\* nodes, and is locked, was locked since the API found it free.
ListsRecorded(r) ==
    req[r].op \in Shared =>
        /\ req[r].phase = "filtered" => Recorded(r, req[r].todo)
        /\ req[r].phase = "submitting" =>
             /\ \A p \in req[r].left : Recorded(r, p.nodes)
             /\ \A c \in CallsOf(r) : c.run = "queued" => Recorded(r, c.nodes)

\* A node that a handler for r need not have seen.
MayBeUnseen(r, n) ==
    /\ req[r].op \in Shared
    /\ req[r].phase = "submitting" => n \notin exists \/ n \in lockedSince[r]

\* A handler has seen all of its nodes, but for those.
SeesAll(c) ==
    c.run = "running" \/ c.future = "replied" =>
        \A n \in c.nodes \ c.seen : MayBeUnseen(c.req, n)

\* The invariant of the look-ups of the handlers.
ListInv == (\A r \in Request : ListsRecorded(r)) /\ (\A c \in calls : SeesAll(c))

\* A step of the API on a request, which locks nothing.
LEMMA ListRequestStep ==
  ASSUME IInv, ListInv, NEW r \in Request, UNCHANGED <<nodeVars, calls>>,
         \A s \in Request \ {r} : req'[s] = req[s],
         ListsRecorded(r)',
         CallsOf(r) # {} => /\ req'[r].op = req[r].op
                            /\ req'[r].phase = "submitting" => req[r].phase = "submitting"
  PROVE  ListInv'
<1>1. /\ exists' = exists /\ locked' = locked /\ calls' = calls
      /\ lockedSince' = lockedSince
  BY DEF nodeVars
<1>2. ASSUME NEW s \in Request PROVE ListsRecorded(s)'
  <2>1. CASE s = r
    BY <2>1
  <2>2. CASE s # r
    <3>1. ListsRecorded(s) /\ req'[s] = req[s]
      BY <2>2 DEF ListInv
    <3> QED BY <1>1, <3>1 DEF ListsRecorded, Recorded, CallsOf
  <2> QED BY <2>1, <2>2
<1>3. ASSUME NEW c \in calls' PROVE SeesAll(c)'
  <2>1. c \in calls /\ SeesAll(c) /\ c.req \in Request
    BY <1>1, TypesUnfolded DEF ListInv, IInv, Call
  <2>2. CASE c.req = r
    <3>1. c \in CallsOf(r)
      BY <2>1, <2>2 DEF CallsOf
    <3> QED BY <1>1, <2>1, <2>2, <3>1 DEF SeesAll, MayBeUnseen
  <2>3. CASE c.req # r
    BY <1>1, <2>1, <2>3 DEF SeesAll, MayBeUnseen
  <2> QED BY <2>2, <2>3
<1> QED BY <1>2, <1>3 DEF ListInv

\* The steps of the API but Submit and Respond: the API takes on only nodes that
\* are free, and pieces are made of these.
LEMMA ApiKeepsList ==
  ASSUME IInv, ListInv, NEW r \in Request,
         \/ Filter(r) \/ NothingToDo(r) \/ NotDispatched(r) \/ PoolFull(r)
         \/ Collect(r) \/ ApiTimeout(r)
         \/ \E L \in SUBSET Host : Dispatch(r, L)
         \/ \E works \in BOOLEAN : Network(r, works)
  PROVE  ListInv'
<1>1. req \in [Request -> Entry] /\ req[r] \in Entry /\ GoodRequest(r) /\ ListsRecorded(r)
  BY TypesUnfolded DEF IInv, ListInv
<1>2. CASE Filter(r)
  <2>1. /\ UNCHANGED <<nodeVars, calls>> /\ \A s \in Request \ {r} : req'[s] = req[s]
        /\ req[r].phase = "asked" /\ req'[r].phase = "filtered"
        /\ req'[r].todo = req[r].todo \ locked /\ req'[r].op = req[r].op
    BY <1>1, <1>2 DEF Filter, Entry
  <2>2. CallsOf(r) = {} /\ locked' = locked
    BY <1>1, <2>1 DEF GoodRequest, nodeVars
  <2>3. ListsRecorded(r)'
    BY <2>1, <2>2 DEF ListsRecorded, Recorded
  <2> QED BY <2>1, <2>2, <2>3, ListRequestStep
<1>3. CASE \/ NothingToDo(r) \/ NotDispatched(r) \/ PoolFull(r) \/ Collect(r) \/ ApiTimeout(r)
           \/ \E works \in BOOLEAN : Network(r, works)
  <2>1. /\ UNCHANGED <<nodeVars, calls>> /\ \A s \in Request \ {r} : req'[s] = req[s]
        /\ req'[r].phase \in {"answered", "error", "network"} /\ req'[r].op = req[r].op
    <3>1. CASE NothingToDo(r)
      BY <1>1, <3>1 DEF NothingToDo, Entry
    <3>2. CASE NotDispatched(r)
      BY <1>1, <3>2 DEF NotDispatched, Entry
    <3>3. CASE PoolFull(r)
      BY <1>1, <3>3 DEF PoolFull, Entry
    <3>4. CASE Collect(r) \/ ApiTimeout(r)
      BY <1>1, <3>4 DEF Collect, ApiTimeout, AfterWait, Entry
    <3>5. ASSUME NEW works \in BOOLEAN, Network(r, works)
          PROVE  /\ UNCHANGED <<nodeVars, calls>> /\ \A s \in Request \ {r} : req'[s] = req[s]
                 /\ req'[r].phase = "answered" /\ req'[r].op = req[r].op
      <4> DEFINE A == IF works THEN req[r].answer ELSE Set(req[r].answer, req[r].todo, "nodhcp")
      <4>1. req' = [req EXCEPT ![r].phase = "answered", ![r].answer = A]
        BY <3>5 DEF Network
      <4>2. UNCHANGED <<nodeVars, calls>>
        BY <3>5 DEF Network
      <4> HIDE DEF A
      <4> QED BY <1>1, <4>1, <4>2 DEF Entry
    <3> QED BY <1>3, <3>1, <3>2, <3>3, <3>4, <3>5
  <2>2. ListsRecorded(r)'
    BY <2>1 DEF ListsRecorded
  <2> QED BY <2>1, <2>2, ListRequestStep
<1>4. ASSUME NEW L \in SUBSET Host, Dispatch(r, L) PROVE ListInv'
  <2>1. /\ UNCHANGED <<nodeVars, calls>> /\ \A s \in Request \ {r} : req'[s] = req[s]
        /\ req[r].phase = "filtered" /\ req'[r].phase = "submitting" /\ req'[r].op = req[r].op
        /\ L # {}
        /\ req[r].op # "clean" => req'[r].left = AnyPieces(Rows(req[r].todo), Listed(L))
    BY <1>1, <1>4 DEF Dispatch, Entry
  <2>2. CallsOf(r) = {} /\ CallsOf(r)' = {} /\ locked' = locked /\ lockedSince' = lockedSince
    BY <1>1, <2>1 DEF GoodRequest, nodeVars, CallsOf
  <2>3. req[r].todo \in SUBSET Name
    BY <1>1 DEF Entry
  <2>4. ASSUME req[r].op \in Shared
        PROVE  \A p \in req'[r].left : p.nodes \intersect locked \subseteq lockedSince[r]
    <3>1. req[r].op # "clean"
      BY <2>4 DEF Shared
    <3>2. \A p \in AnyPieces(Rows(req[r].todo), Listed(L)) : p.nodes \subseteq req[r].todo
      BY <2>1, <2>3, AnyPiecesGood
    <3>3. req[r].todo \intersect locked \subseteq lockedSince[r]
      BY <1>1, <2>1, <2>4 DEF ListsRecorded, Recorded
    <3>4. req'[r].left = AnyPieces(Rows(req[r].todo), Listed(L))
      BY <2>1, <3>1
    <3> QED BY <3>2, <3>3, <3>4
  <2>5. ListsRecorded(r)'
    BY <2>1, <2>2, <2>4 DEF ListsRecorded, Recorded
  <2> QED BY <2>1, <2>2, <2>5, ListRequestStep
<1> QED BY <1>2, <1>3, <1>4

\* A new request has no call.
LEMMA AskKeepsList ==
  ASSUME IInv, ListInv, NEW m \in Menu, Ask(m.req, m.op, m.names)
  PROVE  ListInv'
<1>1. m.req \in Request /\ req \in [Request -> Entry]
  BY RequestsAssumption, TypesUnfolded DEF RequestsAssumption, IInv
<1>2. /\ UNCHANGED <<nodeVars, calls>> /\ \A s \in Request \ {m.req} : req'[s] = req[s]
      /\ req[m.req].phase = "idle" /\ req'[m.req].phase = "asked"
  BY <1>1 DEF Ask, Idle
<1>3. CallsOf(m.req) = {}
  BY <1>1, <1>2 DEF IInv, GoodRequest
<1>4. ListsRecorded(m.req)'
  BY <1>2 DEF ListsRecorded
<1> QED BY <1>1, <1>2, <1>3, <1>4, ListRequestStep

\* A call has the nodes of a piece.
LEMMA SubmitKeepsList ==
  ASSUME IInv, ListInv, NEW r \in Request, Submit(r)
  PROVE  ListInv'
<1>1. req \in [Request -> Entry] /\ req[r] \in Entry
  BY TypesUnfolded DEF IInv
<1>2. PICK p \in req[r].left :
        /\ req' = [req EXCEPT ![r].left = @ \ {p}]
        /\ calls' = calls \union
            {[req |-> r, host |-> p.host, nodes |-> p.nodes, future |-> "waiting",
              run |-> "queued", seen |-> {}, ok |-> {}, bad |-> {}]}
  BY DEF Submit
<1> DEFINE d == [req |-> r, host |-> p.host, nodes |-> p.nodes, future |-> "waiting",
                 run |-> "queued", seen |-> {}, ok |-> {}, bad |-> {}]
<1>3. d.req = r /\ d.nodes = p.nodes /\ d.run = "queued" /\ d.future = "waiting"
  OBVIOUS
<1>4. calls' = calls \union {d}
  BY <1>2
<1> HIDE DEF d
<1>5. /\ \A s \in Request \ {r} : req'[s] = req[s]
      /\ req'[r].left \subseteq req[r].left /\ req'[r].phase = req[r].phase
      /\ req'[r].op = req[r].op /\ req[r].phase = "submitting"
  BY <1>1, <1>2 DEF Submit, Entry
<1>6. exists' = exists /\ locked' = locked /\ lockedSince' = lockedSince
  BY DEF Submit, nodeVars
<1>7. ASSUME NEW s \in Request PROVE ListsRecorded(s)'
  <2>1. ListsRecorded(s)
    BY DEF ListInv
  <2>2. CASE s = r
    <3>1. CallsOf(r)' = CallsOf(r) \union {d}
      BY <1>3, <1>4 DEF CallsOf
    <3> QED BY <1>2, <1>3, <1>5, <1>6, <2>1, <2>2, <3>1 DEF ListsRecorded, Recorded
  <2>3. CASE s # r
    <3>1. CallsOf(s)' = CallsOf(s)
      BY <1>3, <1>4, <2>3 DEF CallsOf
    <3>2. req'[s] = req[s]
      BY <1>5, <2>3
    <3> QED BY <1>6, <2>1, <3>1, <3>2 DEF ListsRecorded, Recorded
  <2> QED BY <2>2, <2>3
<1>8. ASSUME NEW c \in calls' PROVE SeesAll(c)'
  <2>1. CASE c = d
    BY <1>3, <2>1 DEF SeesAll
  <2>2. CASE c \in calls
    <3>1. SeesAll(c) /\ c.req \in Request
      BY <2>2, TypesUnfolded DEF ListInv, IInv, Call
    <3>2. req'[c.req].op = req[c.req].op /\ req'[c.req].phase = req[c.req].phase
      BY <1>5, <3>1
    <3> QED BY <1>6, <3>1, <3>2 DEF SeesAll, MayBeUnseen
  <2> QED BY <1>4, <2>1, <2>2
<1> QED BY <1>7, <1>8 DEF ListInv

\* The history of a request is forgotten with it.
LEMMA RespondKeepsList ==
  ASSUME IInv, ListInv, NEW r \in Request, Respond(r)
  PROVE  ListInv'
<1>1. req \in [Request -> Entry] /\ lockedSince \in [Request -> SUBSET Name]
  BY TypesUnfolded DEF IInv
<1>2. /\ calls' \subseteq calls /\ exists' = exists /\ locked' = locked
      /\ \A s \in Request \ {r} : req'[s] = req[s] /\ lockedSince'[s] = lockedSince[s]
      /\ req'[r].phase = "over" /\ req'[r].op = req[r].op
  BY <1>1 DEF Respond, Idle
<1>3. ASSUME NEW s \in Request PROVE ListsRecorded(s)'
  <2>1. CASE s = r
    BY <1>2, <2>1 DEF ListsRecorded
  <2>2. CASE s # r
    <3>1. ListsRecorded(s) /\ req'[s] = req[s] /\ lockedSince'[s] = lockedSince[s]
      BY <1>2, <2>2 DEF ListInv
    <3>2. CallsOf(s)' \subseteq CallsOf(s)
      BY <1>2 DEF CallsOf
    <3> QED BY <1>2, <3>1, <3>2 DEF ListsRecorded, Recorded
  <2> QED BY <2>1, <2>2
<1>4. ASSUME NEW c \in calls' PROVE SeesAll(c)'
  <2>1. SeesAll(c) /\ c.req \in Request
    BY <1>2, TypesUnfolded DEF ListInv, IInv, Call
  <2>2. CASE c.req = r
    BY <1>2, <2>1, <2>2 DEF SeesAll, MayBeUnseen
  <2>3. CASE c.req # r
    BY <1>2, <2>1, <2>3 DEF SeesAll, MayBeUnseen
  <2> QED BY <2>2, <2>3
<1> QED BY <1>3, <1>4 DEF ListInv

\* What a handler locks is recorded; what another one then does not list is.
LEMMA EffectKeepsList ==
  ASSUME IInv, ListInv, NEW c \in calls, NEW d, Effect(c, d)
  PROVE  ListInv'
<1>1. /\ req \in [Request -> Entry] /\ c.req \in Request
      /\ d.req = c.req /\ d.nodes = c.nodes /\ d.run # "queued"
      /\ exists' \subseteq exists
      /\ calls' \subseteq (calls \ {c}) \union {d}
  BY TypesUnfolded DEF IInv, Call, Effect
<1>2. \A r \in Request :
        /\ req'[r].op = req[r].op /\ req'[r].phase = req[r].phase
        /\ req'[r].todo = req[r].todo /\ req'[r].left = req[r].left
        /\ lockedSince[r] \subseteq lockedSince'[r]
  BY DEF Effect, HistoryKept
<1>3. \A r \in Request :
        req[r].op \in Shared /\ req[r].phase \in {"filtered", "submitting"} =>
             locked' \subseteq locked \union lockedSince'[r]
  BY DEF Effect, HistoryKept
<1>4. ASSUME NEW r \in Request PROVE ListsRecorded(r)'
  <2>1. ListsRecorded(r)
    BY DEF ListInv
  <2>2. \A e \in CallsOf(r)' : e.run = "queued" => e \in CallsOf(r)
    BY <1>1 DEF CallsOf
  <2>3. ASSUME NEW S, Recorded(r, S), req[r].op \in Shared,
               req[r].phase \in {"filtered", "submitting"}
        PROVE  Recorded(r, S)'
    <3>1. locked' \subseteq locked \union lockedSince'[r] /\ lockedSince[r] \subseteq lockedSince'[r]
      BY <1>2, <1>3, <2>3
    <3> QED BY <2>3, <3>1 DEF Recorded
  <2> QED BY <1>2, <2>1, <2>2, <2>3 DEF ListsRecorded
<1>5. \A r \in Request : \A n : MayBeUnseen(r, n) => MayBeUnseen(r, n)'
  BY <1>1, <1>2 DEF MayBeUnseen
<1>6. ASSUME NEW e \in calls' PROVE SeesAll(e)'
  <2>1. CASE e \in calls
    <3>1. SeesAll(e) /\ e.req \in Request
      BY <2>1, TypesUnfolded DEF ListInv, IInv, Call
    <3> QED BY <1>5, <3>1 DEF SeesAll
  <2>2. CASE e = d
    <3> SUFFICES ASSUME d.run = "running" \/ d.future = "replied", NEW n \in d.nodes \ d.seen
                 PROVE  MayBeUnseen(d.req, n)'
      BY <2>2 DEF SeesAll
    <3>1. \/ c.run = "running" /\ d.seen = c.seen
          \/ /\ c.run = "queued"
             /\ req[c.req].op \in Shared /\ (n \notin exists \/ n \in locked)
      BY DEF Effect
    <3>2. CASE c.run = "running" /\ d.seen = c.seen
      BY <1>1, <1>5, <3>2 DEF ListInv, SeesAll
    <3>3. CASE /\ c.run = "queued"
               /\ req[c.req].op \in Shared /\ (n \notin exists \/ n \in locked)
      <4>1. ASSUME req[c.req].phase = "submitting", n \in locked PROVE n \in lockedSince[c.req]
        <5>1. c \in CallsOf(c.req) /\ ListsRecorded(c.req)
          BY <1>1 DEF CallsOf, ListInv
        <5> QED BY <1>1, <3>3, <4>1, <5>1 DEF ListsRecorded, Recorded
      <4>2. MayBeUnseen(c.req, n)
        BY <3>3, <4>1 DEF MayBeUnseen
      <4> QED BY <1>1, <1>5, <4>2
    <3> QED BY <3>1, <3>2, <3>3
  <2> QED BY <1>1, <2>1, <2>2
<1> QED BY <1>4, <1>6 DEF ListInv

\* A conductor that dies begins nothing.
LEMMA DieKeepsList ==
  ASSUME IInv, ListInv, NEW h \in Host, Die(h)
  PROVE  ListInv'
<1> DEFINE Hit(c) == c.host = h /\ c.run = "running"
           After(c) == IF Hit(c) THEN [c EXCEPT !.run = "over"] ELSE c
<1>1. \A c \in calls : c \in Call
  BY TypesUnfolded DEF IInv
<1>2. /\ exists' = exists /\ locked' = locked /\ req' = req
      /\ lockedSince' = lockedSince
  BY DEF Die, nodeVars
<1>3. \A e \in calls' : \E c \in calls : e = After(c)
  BY DEF Die
<1>4. \A c \in calls : /\ After(c).req = c.req /\ After(c).nodes = c.nodes
                       /\ After(c).future = c.future /\ After(c).seen = c.seen
                       /\ (After(c) = c \/ After(c).run = "over")
  BY <1>1 DEF Call
<1> HIDE DEF After, Hit
<1>5. ASSUME NEW r \in Request PROVE ListsRecorded(r)'
  <2>1. ListsRecorded(r)
    BY DEF ListInv
  <2>2. \A e \in CallsOf(r)' : e.run = "queued" => e \in CallsOf(r)
    BY <1>3, <1>4 DEF CallsOf
  <2> QED BY <1>2, <2>1, <2>2 DEF ListsRecorded, Recorded
<1>6. ASSUME NEW e \in calls' PROVE SeesAll(e)'
  <2>1. PICK c \in calls : e = After(c)
    BY <1>3
  <2>2. SeesAll(c)
    BY DEF ListInv
  <2>3. /\ e.req = c.req /\ e.nodes = c.nodes /\ e.future = c.future /\ e.seen = c.seen
        /\ (e = c \/ e.run = "over")
    BY <1>4, <2>1
  <2> QED BY <1>2, <2>2, <2>3 DEF SeesAll, MayBeUnseen
<1> QED BY <1>5, <1>6 DEF ListInv

\* Every step keeps the invariant of the look-ups.
LEMMA NextKeepsList == IInv /\ ListInv /\ [Next]_vars => ListInv'
<1> SUFFICES ASSUME IInv, ListInv, [Next]_vars PROVE ListInv'
  OBVIOUS
<1>1. ASSUME NEW m \in Menu, Ask(m.req, m.op, m.names) PROVE ListInv'
  BY <1>1, AskKeepsList
<1>2. ASSUME NEW r \in Request, ApiGoesOn(r) \/ ApiTimeout(r) PROVE ListInv'
  BY <1>2, ApiKeepsList, SubmitKeepsList, RespondKeepsList DEF ApiGoesOn
<1>3. ASSUME NEW c \in calls, HandlerStep(c) \/ CallTimesOut(c) PROVE ListInv'
  <2>1. PICK d : Effect(c, d)
    BY <1>3, HandlerEffect
  <2> QED BY <2>1, EffectKeepsList
<1>4. ASSUME NEW h \in Host, Die(h) PROVE ListInv'
  BY <1>4, DieKeepsList
<1>5. CASE UNCHANGED vars
  <2>1. exists' = exists /\ locked' = locked /\ lockedSince' = lockedSince
        /\ req' = req /\ calls' = calls
    BY <1>5 DEF vars, nodeVars
  <2> QED BY <2>1 DEF ListInv, ListsRecorded, Recorded, SeesAll, MayBeUnseen, CallsOf
<1> QED BY <1>1, <1>2, <1>3, <1>4, <1>5 DEF Next

\* A node that may be passed over: it is gone, and the operation locks nothing
\* or asks the table again; or it was locked while an operation that only reads
\* was under way.
Passed(r, n) ==
    \/ n \notin exists /\ req[r].op \in {"get", "clean"}
    \/ n \in lockedSince[r] /\ req[r].op = "get"

\* A node without an entry in the answer is still to be tried, is in a piece, is
\* in a call, or may be passed over.
Covered(r) ==
    /\ req[r].phase \in {"asked", "filtered"} =>
         \A n \in req[r].asked : req[r].answer[n] = None => n \in req[r].todo
    /\ req[r].phase = "submitting" =>
         \A n \in req[r].asked : req[r].answer[n] = None =>
            \/ \E p \in req[r].left : n \in p.nodes
            \/ \E c \in CallsOf(r) : n \in c.nodes
            \/ Passed(r, n)
    /\ req[r].phase \in {"network", "answered"} =>
         \A n \in req[r].asked : req[r].answer[n] = None => Passed(r, n)

\* No request forgets a node.
AllCovered == \A r \in Request : Covered(r)

\* A request that is not touched stays covered.
LEMMA StaysCovered ==
  ASSUME IInv, AllCovered, NEW r \in Request, req'[r] = req[r], exists' \subseteq exists,
         lockedSince[r] \subseteq lockedSince'[r],
         req[r].phase = "submitting" => \A c \in CallsOf(r) : \E d \in CallsOf(r)' : d.nodes = c.nodes
  PROVE  Covered(r)'
<1>1. Covered(r)
  BY DEF AllCovered
<1>2. \A n : Passed(r, n) => Passed(r, n)'
  BY DEF Passed
<1> QED BY <1>1, <1>2 DEF Covered

\* A step of a handler drops no call of a request that waits.
LEMMA HandlerStaysCovered ==
  ASSUME IInv, AllCovered, NEW c \in calls, NEW d, Effect(c, d)
  PROVE  AllCovered'
<1> SUFFICES ASSUME NEW r \in Request PROVE Covered(r)'
  BY DEF AllCovered
<1>1. Covered(r) /\ exists' \subseteq exists /\ lockedSince[r] \subseteq lockedSince'[r]
  BY DEF AllCovered, Effect, HistoryKept
<1>2. req'[r].op = req[r].op /\ req'[r].phase = req[r].phase /\ req'[r].asked = req[r].asked
      /\ req'[r].todo = req[r].todo /\ req'[r].left = req[r].left /\ req'[r].answer = req[r].answer
  BY DEF Effect
<1>3. \A n : Passed(r, n) => Passed(r, n)'
  BY <1>1, <1>2 DEF Passed
<1>4. ASSUME req[r].phase = "submitting"
      PROVE  \A b \in CallsOf(r) : \E e \in CallsOf(r)' : e.nodes = b.nodes
  <2>1. d.req = c.req /\ d.nodes = c.nodes
        /\ calls' = (calls \ {c}) \union (IF d.run = "over" /\ req[c.req].phase = "over" THEN {} ELSE {d})
    BY DEF Effect
  <2>2. c.req = r => d \in calls'
    BY <1>4, <2>1
  <2> QED BY <2>1, <2>2 DEF CallsOf
<1> QED BY <1>1, <1>2, <1>3, <1>4 DEF Covered

\* The wait for the calls leaves out only what may be passed over.
LEMMA CollectCovers ==
  ASSUME IInv, ListInv, AllCovered, NEW r \in Request, req[r].phase = "submitting", req[r].left = {},
         NEW n \in req[r].asked, Collected(r)[n] = None
  PROVE  Passed(r, n)
<1>1. n \in Name
  BY TypesUnfolded DEF IInv, Entry
<1>2. CASE \E c \in CallsOf(r) : n \in c.nodes
  <2>1. PICK c \in CallsOf(r) : n \in c.nodes /\ Collected(r)[n] = Outcome(c, n)
    BY <1>1, <1>2, CollectedSays
  <2>2. c.future = "replied" /\ n \notin c.seen
    BY <1>1, <2>1, CollectedSays
  <2>3. SeesAll(c) /\ c.req = r
    BY DEF ListInv, CallsOf
  <2> QED BY <2>1, <2>2, <2>3 DEF SeesAll, MayBeUnseen, Passed, Shared
<1>3. CASE ~ \E c \in CallsOf(r) : n \in c.nodes
  <2>1. req[r].answer[n] = None
    BY <1>1, <1>3, CollectedSays
  <2> QED BY <1>3, <2>1 DEF AllCovered, Covered
<1> QED BY <1>2, <1>3

\* The nodes that are cut are all in a piece, refused, or gone.
LEMMA DispatchCovers ==
  ASSUME IInv, AllCovered, Len(Conductors) <= 2,
         NEW r \in Request, NEW L \in SUBSET Host, Dispatch(r, L)
  PROVE  Covered(r)'
<1> DEFINE there == req[r].todo \intersect exists
           lost == {n \in there : affinity[n] \notin L \union {NoHost}}
           P == IF req[r].op = "clean" THEN AffinityPieces(Rows(there), Listed(L))
                                       ELSE AnyPieces(Rows(req[r].todo), Listed(L))
           a == IF req[r].op = "clean" THEN Set(req[r].answer, lost, "noconductor") ELSE req[r].answer
<1>1. /\ req \in [Request -> Entry] /\ req[r] \in Entry /\ Covered(r)
      /\ affinity \in [Name -> Host \union {NoHost}]
  BY TypesUnfolded DEF IInv, AllCovered
<1>2. req[r].phase = "filtered" /\ L # {} /\ exists' = exists /\ lockedSince' = lockedSince
      /\ req' = [req EXCEPT ![r].phase = "submitting", ![r].left = P, ![r].answer = a]
  BY DEF Dispatch, nodeVars
<1>3. req[r].answer \in [Name -> Value \union {None}] /\ req[r].todo \in SUBSET Name
      /\ req[r].asked \in SUBSET Name
  BY <1>1 DEF Entry
<1>4. ASSUME NEW n \in req[r].asked, a[n] = None
      PROVE  (\E p \in P : n \in p.nodes) \/ Passed(r, n)
  <2>1. n \in Name
    BY <1>3
  <2>2. CASE req[r].op = "clean"
    <3>1. a[n] = IF n \in lost THEN "noconductor" ELSE req[r].answer[n]
      BY <1>3, <2>1, <2>2, SetType DEF Value
    <3>2. n \notin lost /\ req[r].answer[n] = None
      BY <1>4, <3>1 DEF None
    <3>3. n \in req[r].todo
      BY <1>1, <1>2, <3>2 DEF Covered
    <3>4. CASE n \in exists
      <4>1. n \in {m \in there : affinity[m] \in L \union {NoHost}}
        BY <3>2, <3>3, <3>4
      <4>2. there \in SUBSET Name
        BY <1>3
      <4>3. IsPartition(P, {m \in there : affinity[m] \in L \union {NoHost}})
        BY <1>1, <1>2, <2>2, <4>2, AffinityPiecesGood
      <4> HIDE DEF P
      <4> QED BY <4>1, <4>3 DEF IsPartition
    <3>5. CASE n \notin exists
      BY <2>2, <3>5 DEF Passed
    <3> QED BY <3>4, <3>5
  <2>3. CASE req[r].op # "clean"
    <3>1. n \in req[r].todo
      BY <1>1, <1>2, <1>4, <2>3 DEF Covered
    <3> QED BY <1>2, <1>3, <2>3, <3>1, AnyPiecesCover
  <2> QED BY <2>2, <2>3
<1> HIDE DEF P, a
<1>5. req'[r].phase = "submitting" /\ req'[r].left = P /\ req'[r].answer = a
      /\ req'[r].asked = req[r].asked /\ req'[r].op = req[r].op
  BY <1>1, <1>2 DEF Entry
<1>6. \A n : Passed(r, n) => Passed(r, n)'
  BY <1>2, <1>5 DEF Passed
<1> QED BY <1>4, <1>5, <1>6 DEF Covered

\* The other steps of the API.
LEMMA ApiCovers ==
  ASSUME IInv, ListInv, AllCovered, NEW r \in Request,
         \/ Filter(r) \/ NothingToDo(r) \/ NotDispatched(r) \/ Submit(r) \/ PoolFull(r)
         \/ Collect(r) \/ ApiTimeout(r) \/ Respond(r)
         \/ \E works \in BOOLEAN : Network(r, works)
  PROVE  Covered(r)'
<1>1. req \in [Request -> Entry] /\ req[r] \in Entry /\ Covered(r)
  BY TypesUnfolded DEF IInv, AllCovered
<1>2. req[r].answer \in [Name -> Value \union {None}] /\ req[r].asked \in SUBSET Name
  BY <1>1 DEF Entry
<1>3. CASE Filter(r)
  <2> DEFINE a == Set(req[r].answer, req[r].todo \intersect locked, "locked")
  <2>1. req[r].phase = "asked" /\ req' = [req EXCEPT ![r].phase = "filtered", ![r].todo = @ \ locked, ![r].answer = a]
    BY <1>3 DEF Filter
  <2>2. \A n \in Name : a[n] = IF n \in req[r].todo \intersect locked THEN "locked" ELSE req[r].answer[n]
    BY <1>2, SetType DEF Value
  <2> HIDE DEF a
  <2>3. req'[r].phase = "filtered" /\ req'[r].todo = req[r].todo \ locked /\ req'[r].answer = a
        /\ req'[r].asked = req[r].asked
    BY <1>1, <2>1 DEF Entry
  <2> QED BY <1>1, <1>2, <2>1, <2>2, <2>3 DEF Covered, None
<1>4. CASE NothingToDo(r)
  <2>1. req[r].phase = "filtered" /\ req[r].todo = {} /\ req' = [req EXCEPT ![r].phase = "answered"]
    BY <1>4 DEF NothingToDo
  <2>2. req'[r].phase = "answered" /\ req'[r].answer = req[r].answer /\ req'[r].asked = req[r].asked
    BY <1>1, <2>1 DEF Entry
  <2> QED BY <1>1, <2>1, <2>2 DEF Covered
<1>5. CASE NotDispatched(r) \/ PoolFull(r) \/ Respond(r)
  <2>1. req'[r].phase \in {"error", "over"}
    <3>1. CASE NotDispatched(r) \/ PoolFull(r)
      BY <1>1, <3>1 DEF NotDispatched, PoolFull, Entry
    <3>2. CASE Respond(r)
      BY <1>1, <3>2 DEF Respond, Idle
    <3> QED BY <1>5, <3>1, <3>2
  <2> QED BY <2>1 DEF Covered
<1>6. CASE Submit(r)
  <2>1. PICK p \in req[r].left :
        /\ req' = [req EXCEPT ![r].left = @ \ {p}]
        /\ calls' = calls \union
            {[req |-> r, host |-> p.host, nodes |-> p.nodes, future |-> "waiting",
              run |-> "queued", seen |-> {}, ok |-> {}, bad |-> {}]}
    BY <1>6 DEF Submit
  <2> DEFINE d == [req |-> r, host |-> p.host, nodes |-> p.nodes, future |-> "waiting",
                   run |-> "queued", seen |-> {}, ok |-> {}, bad |-> {}]
  <2>2. d.nodes = p.nodes /\ CallsOf(r)' = CallsOf(r) \union {d}
    BY <2>1 DEF CallsOf
  <2> HIDE DEF d
  <2>3. req[r].phase = "submitting" /\ req'[r].phase = "submitting" /\ req'[r].left = req[r].left \ {p}
        /\ req'[r].answer = req[r].answer /\ req'[r].asked = req[r].asked /\ req'[r].op = req[r].op
    BY <1>1, <1>6, <2>1 DEF Submit, Entry
  <2>4. \A n : Passed(r, n) => Passed(r, n)'
    BY <1>6, <2>3 DEF Submit, nodeVars, Passed
  <2> QED BY <1>1, <2>2, <2>3, <2>4 DEF Covered
<1>7. CASE Collect(r) \/ ApiTimeout(r)
  <2>1. req' = [req EXCEPT ![r].phase = AfterWait(r), ![r].answer = Collected(r)] /\ req[r].phase = "submitting"
        /\ req[r].left = {} /\ exists' = exists /\ lockedSince' = lockedSince
    BY <1>7 DEF Collect, ApiTimeout, Waiting, nodeVars
  <2>2. AfterWait(r) \in {"network", "answered"}
    BY DEF AfterWait
  <2>3. req'[r].phase \in {"network", "answered"} /\ req'[r].answer = Collected(r)
        /\ req'[r].asked = req[r].asked /\ req'[r].op = req[r].op
    BY <1>1, <2>1, <2>2 DEF Entry
  <2>4. \A n \in req[r].asked : Collected(r)[n] = None => Passed(r, n)
    BY <2>1, CollectCovers
  <2>5. \A n : Passed(r, n) => Passed(r, n)'
    BY <2>1, <2>3 DEF Passed
  <2> QED BY <2>3, <2>4, <2>5 DEF Covered
<1>8. ASSUME NEW works \in BOOLEAN, Network(r, works) PROVE Covered(r)'
  <2> DEFINE a == IF works THEN req[r].answer ELSE Set(req[r].answer, req[r].todo, "nodhcp")
  <2>1. req' = [req EXCEPT ![r].phase = "answered", ![r].answer = a] /\ req[r].phase = "network"
        /\ exists' = exists /\ lockedSince' = lockedSince
    BY <1>8 DEF Network, nodeVars
  <2>2. \A n \in Name : a[n] = None => req[r].answer[n] = None
    BY <1>2, SetType DEF Value, None
  <2> HIDE DEF a
  <2>3. req'[r].phase = "answered" /\ req'[r].answer = a
        /\ req'[r].asked = req[r].asked /\ req'[r].op = req[r].op
    BY <1>1, <2>1 DEF Entry
  <2>4. \A n : Passed(r, n) => Passed(r, n)'
    BY <2>1, <2>3 DEF Passed
  <2> QED BY <1>1, <1>2, <2>1, <2>2, <2>3, <2>4 DEF Covered
<1> QED BY <1>3, <1>4, <1>5, <1>6, <1>7, <1>8

\* A new request has all of its names refused or to be done.
LEMMA AskCovers ==
  ASSUME IInv, NEW m \in Menu, Ask(m.req, m.op, m.names)
  PROVE  Covered(m.req)'
<1> DEFINE r == m.req
           a == Set(Idle.answer, m.names \ exists, "missing")
           k == [Idle EXCEPT !.op = m.op, !.phase = "asked", !.asked = m.names,
                             !.todo = m.names \intersect exists, !.answer = a]
<1>1. r \in Request /\ m.names \in SUBSET Name /\ req \in [Request -> Entry]
  BY RequestsAssumption, TypesUnfolded DEF RequestsAssumption, IInv
<1>2. req' = [req EXCEPT ![r] = k]
  BY DEF Ask
<1>3. k.phase = "asked" /\ k.asked = m.names /\ k.todo = m.names \intersect exists /\ k.answer = a
  BY DEF Idle
<1>4. Idle.answer \in [Name -> Value \union {None}]
  BY DEF Idle
<1>5. \A n \in Name : a[n] = IF n \in m.names \ exists THEN "missing" ELSE Idle.answer[n]
  BY <1>4, SetType DEF Value
<1> HIDE DEF k, a
<1>6. req'[r] = k
  BY <1>1, <1>2
<1> QED BY <1>1, <1>3, <1>5, <1>6 DEF Covered, None

\* A step of the API on one request does not touch another.
LEMMA OthersCovered ==
  ASSUME IInv, AllCovered, NEW r \in Request, NEW s \in Request, s # r,
         \/ \E m \in Menu : m.req = r /\ Ask(m.req, m.op, m.names)
         \/ ApiGoesOn(r) \/ ApiTimeout(r)
  PROVE  Covered(s)'
<1>1. req \in [Request -> Entry] /\ lockedSince \in [Request -> SUBSET Name]
  BY TypesUnfolded DEF IInv
<1>2. req'[s] = req[s] /\ exists' = exists /\ lockedSince'[s] = lockedSince[s]
  <2>1. CASE \E m \in Menu : m.req = r /\ Ask(m.req, m.op, m.names)
    BY <1>1, <2>1 DEF Ask, nodeVars
  <2>2. CASE \E L \in SUBSET Host : Dispatch(r, L)
    BY <1>1, <2>2 DEF Dispatch, nodeVars
  <2>3. CASE Filter(r) \/ NothingToDo(r) \/ NotDispatched(r) \/ Submit(r)
    BY <1>1, <2>3 DEF Filter, NothingToDo, NotDispatched, Submit, nodeVars
  <2>4. CASE PoolFull(r) \/ Collect(r) \/ ApiTimeout(r) \/ Respond(r)
    BY <1>1, <2>4 DEF PoolFull, Collect, ApiTimeout, Respond, nodeVars
  <2>5. CASE \E works \in BOOLEAN : Network(r, works)
    BY <1>1, <2>5 DEF Network, nodeVars
  <2> QED BY <2>1, <2>2, <2>3, <2>4, <2>5 DEF ApiGoesOn
<1>3. \A c \in CallsOf(s) : c \in CallsOf(s)'
  <2>1. CASE \E m \in Menu : m.req = r /\ Ask(m.req, m.op, m.names)
    BY <2>1 DEF Ask, CallsOf
  <2>2. CASE \E L \in SUBSET Host : Dispatch(r, L)
    BY <2>2 DEF Dispatch, CallsOf
  <2>3. CASE Filter(r) \/ NothingToDo(r) \/ NotDispatched(r) \/ Submit(r)
    BY <2>3 DEF Filter, NothingToDo, NotDispatched, Submit, CallsOf
  <2>4. CASE PoolFull(r) \/ Collect(r) \/ ApiTimeout(r) \/ Respond(r)
    BY <2>4 DEF PoolFull, Collect, ApiTimeout, Respond, CallsOf
  <2>5. CASE \E works \in BOOLEAN : Network(r, works)
    BY <2>5 DEF Network, CallsOf
  <2> QED BY <2>1, <2>2, <2>3, <2>4, <2>5 DEF ApiGoesOn
<1> QED BY <1>2, <1>3, StaysCovered

\* With one or two conductors, no step makes a request forget a node.
LEMMA NextCovers ==
  ASSUME Len(Conductors) <= 2, IInv, ListInv, AllCovered, [Next]_vars
  PROVE  AllCovered'
<1>1. ASSUME NEW m \in Menu, Ask(m.req, m.op, m.names) PROVE AllCovered'
  <2>1. m.req \in Request
    BY RequestsAssumption DEF RequestsAssumption
  <2> QED BY <1>1, <2>1, AskCovers, OthersCovered DEF AllCovered
<1>2. ASSUME NEW r \in Request, ApiGoesOn(r) \/ ApiTimeout(r) PROVE AllCovered'
  <2>1. Covered(r)'
    BY <1>2, ApiCovers, DispatchCovers DEF ApiGoesOn
  <2> QED BY <1>2, <2>1, OthersCovered DEF AllCovered
<1>3. ASSUME NEW c \in calls, HandlerStep(c) \/ CallTimesOut(c) PROVE AllCovered'
  <2>1. PICK d : Effect(c, d)
    BY <1>3, HandlerEffect
  <2> QED BY <2>1, HandlerStaysCovered
<1>4. ASSUME NEW h \in Host, Die(h) PROVE AllCovered'
  <2> SUFFICES ASSUME NEW r \in Request PROVE Covered(r)'
    BY DEF AllCovered
  <2>1. exists' = exists /\ req' = req /\ lockedSince' = lockedSince
    BY <1>4 DEF Die, nodeVars
  <2>2. ASSUME req[r].phase = "submitting", NEW c \in CallsOf(r)
        PROVE  \E d \in CallsOf(r)' : d.nodes = c.nodes
    <3> DEFINE hit == c.host = h /\ c.run = "running"
               d == IF hit THEN [c EXCEPT !.run = "over"] ELSE c
    <3>1. c \in calls /\ c.req = r /\ c \in Call
      BY TypesUnfolded DEF IInv, CallsOf
    <3>2. c \notin {e \in calls : e.host = h /\ e.run = "running" /\ req[e.req].phase = "over"}
      BY <2>2, <3>1
    <3>3. d \in calls'
      BY <1>4, <3>1, <3>2 DEF Die
    <3>4. d.nodes = c.nodes /\ d.req = r
      BY <3>1 DEF Call
    <3> QED BY <3>3, <3>4 DEF CallsOf
  <2> QED BY <2>1, <2>2, StaysCovered
<1>5. CASE UNCHANGED vars
  <2>1. exists' = exists /\ req' = req /\ calls' = calls /\ lockedSince' = lockedSince
    BY <1>5 DEF vars, nodeVars
  <2> QED BY <2>1 DEF AllCovered, Covered, Passed, CallsOf
<1> QED BY <1>1, <1>2, <1>3, <1>4, <1>5 DEF Next

\* At any time the nodes that exist can be cut so that each is in one piece: for
\* one or two conductors whatever their workers, and for clean with a conductor
\* that is listed.
THEOREM CutsLeaveNothingOut == Spec => []CutsArePartitions
<1>1. TypeOK => CutsArePartitions
  BY CutsPartition DEF TypeOK
<1> QED BY <1>1, TypeCorrect, PTL

\* With one or two conductors, every node that a request names is in its answer:
\* refused, reported on by a call, or taken for late, unless it was deleted, or,
\* for a reading request, locked by somebody after the API had found it free.
\* With three the slices of get_topic_for leave nodes out.
THEOREM NobodyForgotten ==
  ASSUME Len(Conductors) <= 2
  PROVE  Spec => []AnswerCoversAll
<1>1. Init => ListInv /\ AllCovered
  BY DEF Init, ListInv, ListsRecorded, AllCovered, Covered, Idle
<1>2. IInv /\ ListInv /\ AllCovered /\ [Next]_vars => ListInv' /\ AllCovered'
  BY NextCovers, NextKeepsList
<1>3. AllCovered => AnswerCoversAll
  BY DEF AllCovered, Covered, Passed, AnswerCoversAll
<1> QED BY <1>1, <1>2, <1>3, Invariant, PTL DEF Spec
=============================================================================
