------------------------- MODULE PowerControl_proofs -------------------------
(***************************************************************************)
(* Theorems about the control plugins, for any number of nodes, machines   *)
(* and commands.                                                           *)
(***************************************************************************)
EXTENDS PowerControl, WellFoundedInduction, TLAPS

Steps == SshSteps \union {"idle", "connect", "bmc", "end"}

CmdType == [node : Node, op : Exclusive \union Shared, dev : Device \union {NoDevice},
            step : Steps, outcome : Answers, reply : Answers,
            saw : SUBSET {"on", "off", "start"}, due : Device \union {NoDevice}]

MachineType == [on : BOOLEAN, booted : Device, next : Device \union {NoDevice}]

-----------------------------------------------------------------------------
(* The machine of a node.                                                  *)

\* A set of numbers that is not empty has a smallest one.
LEMMA MinIsIn ==
  ASSUME NEW S \in SUBSET Nat, S # {}
  PROVE  Min(S) \in S
<1>1. PICK x \in S : \A y \in S : ~ (<<y, x>> \in OpToRel(<, Nat))
  BY NatLessThanWellFounded, WFMin
<1>2. \A y \in S : x <= y
  <2> SUFFICES ASSUME NEW y \in S PROVE x <= y
    OBVIOUS
  <2>1. ~ (y < x)
    BY <1>1 DEF OpToRel
  <2> QED BY <2>1
<1> QED BY <1>2 DEF Min

\* A node is found on a machine of the hypervisor, or on none.
LEMMA MachineKnown ==
  ASSUME NEW n \in Node
  PROVE  /\ MachineOf(n) \in Machine \union {NoMachine}
         /\ MachineOf(n) = NoMachine => Mgt[n] = "kvm" /\ HostsName(n) = NoMachine
<1> DEFINE found == {i \in DOMAIN Vms : Macs[Vms[i]] \intersect Nics[n] # {}}
<1>1. found \in SUBSET Nat /\ \A i \in found : Vms[i] \in Machine
  BY PowerAssumption DEF PowerAssumption
<1>2. found # {} => Min(found) \in found
  BY <1>1, MinIsIn
<1>3. HostsName(n) \in Machine \union {NoMachine}
  <2>1. HostsName(n) = IF found = {} THEN NoMachine ELSE Vms[Min(found)]
    BY DEF HostsName
  <2> HIDE DEF found
  <2> QED BY <1>1, <1>2, <2>1
<1> QED BY <1>3, PowerAssumption DEF PowerAssumption, MachineOf

-----------------------------------------------------------------------------
(* What the parts of the actions do to the variables.                      *)

\* Only the step of c changes.
LEMMA ProceedEffect ==
  ASSUME cmd \in [Command -> CmdType], NEW c \in Command, NEW s \in Steps, Proceed(c, s)
  PROVE  /\ cmd' \in [Command -> CmdType]
         /\ cmd'[c] = [cmd[c] EXCEPT !.step = s]
         /\ \A d \in Command : d # c => cmd'[d] = cmd[d]
BY DEF Proceed, CmdType

\* Only the step and the outcome of c change.
LEMMA EndsEffect ==
  ASSUME cmd \in [Command -> CmdType], NEW c \in Command, NEW o \in Answers, Ends(c, o)
  PROVE  /\ cmd' \in [Command -> CmdType]
         /\ cmd'[c].step = "end" /\ cmd'[c].outcome = o
         /\ cmd'[c].node = cmd[c].node /\ cmd'[c].op = cmd[c].op
         /\ cmd'[c].reply = cmd[c].reply /\ cmd'[c].saw = cmd[c].saw
         /\ cmd'[c].dev = cmd[c].dev /\ cmd'[c].due = cmd[c].due
         /\ \A d \in Command : d # c => cmd'[d] = cmd[d]
<1>1. cmd'[c] = [cmd[c] EXCEPT !.step = "end", !.outcome = o]
  BY DEF Ends, CmdType
<1>2. cmd'[c] \in CmdType
  BY <1>1 DEF CmdType, Steps
<1>3. DOMAIN cmd' = Command /\ \A d \in Command : d # c => cmd'[d] = cmd[d]
  BY DEF Ends
<1>4. cmd' = [d \in Command |-> cmd'[d]]
  BY DEF Ends
<1>5. /\ cmd'[c].step = "end" /\ cmd'[c].outcome = o
      /\ cmd'[c].node = cmd[c].node /\ cmd'[c].op = cmd[c].op
      /\ cmd'[c].reply = cmd[c].reply /\ cmd'[c].saw = cmd[c].saw
      /\ cmd'[c].dev = cmd[c].dev /\ cmd'[c].due = cmd[c].due
  BY <1>1 DEF CmdType
<1>6. cmd' \in [Command -> CmdType]
  BY <1>2, <1>3, <1>4
<1> QED BY <1>3, <1>5, <1>6

\* What a command sees of a machine m that becomes another.
Sees(d, m, events, c, s) ==
    /\ cmd'[d].node = cmd[d].node /\ cmd'[d].op = cmd[d].op
    /\ cmd'[d].reply = cmd[d].reply /\ cmd'[d].outcome = cmd[d].outcome
    /\ cmd'[d].step = IF d = c THEN s ELSE cmd[d].step
    /\ cmd'[d].dev = cmd[d].dev /\ cmd'[d].due = cmd[d].due
    /\ cmd[d].saw \subseteq cmd'[d].saw
    /\ /\ cmd[d].step \notin {"idle", "end"} /\ MachineOf(cmd[d].node) = m
       /\ cmd[d].reply = "none"
       => events \subseteq cmd'[d].saw

\* Only m and the step of c change, and what the commands on m have seen.
LEMMA BecomesEffect ==
  ASSUME cmd \in [Command -> CmdType], machine \in [Machine -> MachineType],
         NEW m \in Machine, NEW r \in MachineType, NEW events \in SUBSET {"on", "off", "start"},
         NEW c, NEW s \in Steps, Becomes(m, r, events, c, s)
  PROVE  /\ cmd' \in [Command -> CmdType]
         /\ machine' \in [Machine -> MachineType]
         /\ machine'[m] = r /\ \A k \in Machine : k # m => machine'[k] = machine[k]
         /\ \A d \in Command : Sees(d, m, events, c, s)
<1>1. ASSUME NEW d \in Command
      PROVE  /\ cmd'[d] \in CmdType
             /\ cmd'[d].node = cmd[d].node /\ cmd'[d].op = cmd[d].op
             /\ cmd'[d].reply = cmd[d].reply /\ cmd'[d].outcome = cmd[d].outcome
             /\ cmd'[d].step = IF d = c THEN s ELSE cmd[d].step
             /\ cmd'[d].dev = cmd[d].dev /\ cmd'[d].due = cmd[d].due
             /\ cmd'[d].saw = IF d \in Working(cmd[d].node) /\ Target(d) = m /\ cmd[d].reply = "none"
                              THEN cmd[d].saw \union events ELSE cmd[d].saw
  <2> DEFINE saw == IF d \in Working(cmd[d].node) /\ Target(d) = m /\ cmd[d].reply = "none"
                    THEN cmd[d].saw \union events ELSE cmd[d].saw
             step == IF d = c THEN s ELSE cmd[d].step
  <2>1. cmd'[d] = [cmd[d] EXCEPT !.step = step, !.saw = saw]
    BY DEF Becomes
  <2>2. saw \in SUBSET {"on", "off", "start"} /\ step \in Steps /\ cmd[d] \in CmdType
    BY DEF CmdType
  <2> HIDE DEF saw, step
  <2>3. /\ cmd'[d] \in CmdType
        /\ cmd'[d].node = cmd[d].node /\ cmd'[d].op = cmd[d].op
        /\ cmd'[d].reply = cmd[d].reply /\ cmd'[d].outcome = cmd[d].outcome
        /\ cmd'[d].step = step /\ cmd'[d].saw = saw
        /\ cmd'[d].dev = cmd[d].dev /\ cmd'[d].due = cmd[d].due
    BY <2>1, <2>2 DEF CmdType
  <2> QED BY <2>3 DEF saw, step
<1>2. cmd' \in [Command -> CmdType]
  <2>1. cmd' = [d \in Command |-> cmd'[d]]
    BY DEF Becomes
  <2> QED BY <1>1, <2>1
<1>3. /\ machine' \in [Machine -> MachineType]
      /\ machine'[m] = r /\ \A k \in Machine : k # m => machine'[k] = machine[k]
  BY DEF Becomes
<1>4. ASSUME NEW d \in Command, cmd[d].step \notin {"idle", "end"}
      PROVE  d \in Working(cmd[d].node)
  BY <1>4 DEF Working
<1> QED BY <1>1, <1>2, <1>3, <1>4 DEF Target, Sees

-----------------------------------------------------------------------------
(* Where a greenthread can be.  A plugin that has passed its validation     *)
(* works on a machine, on the steps of its operation; a command that holds  *)
(* a lock has begun.                                                        *)
Placed(c) ==
    LET r == cmd[c]
    IN  /\ r.step \notin {"idle", "connect", "end"} => MachineOf(r.node) \in Machine
        /\ r.step \in {"status", "start", "check"} => r.op # "off"
        /\ r.step \in {"edit", "read"} => r.op \notin Power \union {"get"}
        /\ r.step = "bmc" => Mgt[r.node] # "kvm"

HoldersWork == \A n \in Node : holder[n] # NoCommand => cmd[holder[n]].step # "idle"

PlaceInv == TypeOK /\ HoldersWork /\ \A c \in Command : Placed(c)

\* The types of the commands and the machines, by name.
LEMMA TypeParts ==
  ASSUME TypeOK
  PROVE  cmd \in [Command -> CmdType] /\ machine \in [Machine -> MachineType]
BY DEF TypeOK, CmdType, MachineType, Steps

\* A lock stays with its command if that goes on unanswered.
LEMMA SameLocks ==
  ASSUME PlaceInv, UNCHANGED holder,
         \A d \in Command : /\ cmd'[d].node = cmd[d].node /\ cmd'[d].op = cmd[d].op
                            /\ cmd'[d].reply = cmd[d].reply
                            /\ cmd'[d].step = "idle" => cmd[d].step = "idle"
  PROVE  /\ \A n \in Node : holder'[n] # NoCommand =>
             LET c == cmd'[holder'[n]] IN c.node = n /\ c.op \in Exclusive /\ c.reply = "none"
         /\ HoldersWork'
BY DEF PlaceInv, TypeOK, HoldersWork

\* A greenthread that goes to another step of its operation.
LEMMA ProceedPlaced ==
  ASSUME PlaceInv, NEW c \in Command, NEW s \in Steps \ {"idle"}, Proceed(c, s),
         UNCHANGED <<machine, pending, outside, holder, last, disturbed>>,
         LET r == cmd[c]
         IN  /\ s \notin {"connect", "end"} => MachineOf(r.node) \in Machine
             /\ s \in {"status", "start", "check"} => r.op # "off"
             /\ s \in {"edit", "read"} => r.op \notin Power \union {"get"}
             /\ s = "bmc" => Mgt[r.node] # "kvm"
  PROVE  PlaceInv'
<1>1. cmd \in [Command -> CmdType]
  BY TypeParts DEF PlaceInv
<1>2. /\ cmd' \in [Command -> CmdType]
      /\ cmd'[c] = [cmd[c] EXCEPT !.step = s]
      /\ \A d \in Command : d # c => cmd'[d] = cmd[d]
  BY <1>1, ProceedEffect
<1>3. /\ cmd'[c].step = s /\ cmd'[c].node = cmd[c].node /\ cmd'[c].op = cmd[c].op
      /\ cmd'[c].reply = cmd[c].reply
  BY <1>1, <1>2 DEF CmdType
<1>4. \A d \in Command : Placed(d)'
  BY <1>2, <1>3 DEF PlaceInv, Placed
<1>5. /\ HoldersWork'
      /\ \A n \in Node : holder'[n] # NoCommand =>
           LET d == cmd'[holder'[n]] IN d.node = n /\ d.op \in Exclusive /\ d.reply = "none"
  <2>1. \A d \in Command : /\ cmd'[d].node = cmd[d].node /\ cmd'[d].op = cmd[d].op
                           /\ cmd'[d].reply = cmd[d].reply
                           /\ cmd'[d].step = "idle" => cmd[d].step = "idle"
    BY <1>2, <1>3
  <2> QED BY <2>1, SameLocks
<1>6. TypeOK'
  BY <1>2, <1>5 DEF PlaceInv, TypeOK, CmdType, Steps
<1> QED BY <1>4, <1>5, <1>6 DEF PlaceInv

\* A greenthread that ends, having set the boot device or nothing.
LEMMA EndsPlaced ==
  ASSUME PlaceInv, NEW c \in Command, cmd[c].step # "idle", NEW o \in Answers, Ends(c, o),
         machine' \in [Machine -> MachineType],
         pending' \in [Machine -> {"none"} \union Power], disturbed' \subseteq Node,
         UNCHANGED <<outside, holder, last>>
  PROVE  PlaceInv'
<1>1. cmd \in [Command -> CmdType]
  BY TypeParts DEF PlaceInv
<1>2. /\ cmd' \in [Command -> CmdType]
      /\ cmd'[c].step = "end"
      /\ cmd'[c].node = cmd[c].node /\ cmd'[c].op = cmd[c].op /\ cmd'[c].reply = cmd[c].reply
      /\ \A d \in Command : d # c => cmd'[d] = cmd[d]
  BY <1>1, EndsEffect
<1>3. \A d \in Command : Placed(d)'
  BY <1>2 DEF PlaceInv, Placed
<1>4. /\ HoldersWork'
      /\ \A n \in Node : holder'[n] # NoCommand =>
           LET d == cmd'[holder'[n]] IN d.node = n /\ d.op \in Exclusive /\ d.reply = "none"
  <2>1. \A d \in Command : /\ cmd'[d].node = cmd[d].node /\ cmd'[d].op = cmd[d].op
                           /\ cmd'[d].reply = cmd[d].reply
                           /\ cmd'[d].step = "idle" => cmd[d].step = "idle"
    BY <1>2
  <2> QED BY <2>1, SameLocks
<1>5. TypeOK'
  BY <1>2, <1>4 DEF PlaceInv, TypeOK, CmdType, MachineType, Steps
<1> QED BY <1>3, <1>4, <1>5 DEF PlaceInv

\* A machine that becomes another.
LEMMA BecomesPlaced ==
  ASSUME PlaceInv, NEW m \in Machine, NEW r \in MachineType,
         NEW events \in SUBSET {"on", "off", "start"},
         NEW c, NEW s \in Steps \ {"idle"}, Becomes(m, r, events, c, s),
         s \notin {"connect", "end"} /\ c \in Command =>
            /\ cmd[c].step \notin {"idle", "connect", "end"}
            /\ s \in {"status", "start", "check"} => cmd[c].op # "off"
            /\ s \notin {"edit", "read", "bmc"},
         pending' \in [Machine -> {"none"} \union Power], outside' \in 0..MaxOutside,
         disturbed' \subseteq Node, UNCHANGED <<holder, last>>
  PROVE  PlaceInv'
<1>1. cmd \in [Command -> CmdType] /\ machine \in [Machine -> MachineType]
  BY TypeParts DEF PlaceInv
<1>2. /\ cmd' \in [Command -> CmdType]
      /\ machine' \in [Machine -> MachineType]
      /\ \A d \in Command :
           /\ cmd'[d].node = cmd[d].node /\ cmd'[d].op = cmd[d].op
           /\ cmd'[d].reply = cmd[d].reply
           /\ cmd'[d].step = IF d = c THEN s ELSE cmd[d].step
  <2>1. s \in Steps
    OBVIOUS
  <2>2. /\ cmd' \in [Command -> CmdType]
        /\ machine' \in [Machine -> MachineType]
        /\ \A d \in Command : Sees(d, m, events, c, s)
    BY <1>1, <2>1, BecomesEffect
  <2> QED BY <2>2 DEF Sees
<1>3. \A d \in Command : Placed(d)'
  BY <1>2 DEF PlaceInv, Placed
<1>4. /\ HoldersWork'
      /\ \A n \in Node : holder'[n] # NoCommand =>
           LET d == cmd'[holder'[n]] IN d.node = n /\ d.op \in Exclusive /\ d.reply = "none"
  BY <1>2, SameLocks
<1>5. TypeOK'
  BY <1>2, <1>4 DEF PlaceInv, TypeOK, CmdType, MachineType, Steps
<1> QED BY <1>3, <1>4, <1>5 DEF PlaceInv

\* The actions that are a step of a greenthread on its way.
LEMMA StepPlaced ==
  ASSUME PlaceInv, NEW c \in Command,
         \/ Connect(c) \/ Fails(c) \/ GetPowerStatus(c) \/ PowerOff(c) \/ Stop(c) \/ Start(c)
         \/ CheckStarted(c) \/ SetBootDevice(c) \/ GetBootDevice(c)
         \/ BmcGet(c) \/ BmcSet(c) \/ BmcSetBootDevice(c) \/ BmcRefusesDevice(c)
         \/ BmcGetBootDevice(c)
  PROVE  PlaceInv'
<1>0. /\ TypeOK /\ Placed(c) /\ cmd[c] \in CmdType
      /\ machine \in [Machine -> MachineType] /\ pending \in [Machine -> {"none"} \union Power]
      /\ disturbed \subseteq Node
  BY TypeParts DEF PlaceInv, TypeOK
<1>a. cmd[c].node \in Node /\ cmd[c].op \in Exclusive \union Shared
  BY <1>0 DEF CmdType
<1> USE DEF At
\* It ends, and leaves the machines alone.
<1>1. ASSUME cmd[c].step # "idle", NEW o \in Answers, Ends(c, o),
             UNCHANGED <<machine, pending, outside, holder, last, disturbed>>
      PROVE  PlaceInv'
  BY <1>0, <1>1, EndsPlaced
<1>2. CASE Connect(c)
  <2> DEFINE n == cmd[c].node
             ready == Valid(n) /\ (Mgt[n] = "kvm" => HostsName(n) # NoMachine)
  <2>1. CASE ready
    <3>1. Proceed(c, FirstStep(n, cmd[c].op))
      BY <1>2, <2>1 DEF Connect
    <3>2. MachineOf(n) \in Machine
      BY <1>a, <2>1, MachineKnown
    <3>3. LET s == FirstStep(n, cmd[c].op)
          IN  /\ s \in Steps \ {"idle"}
              /\ s \in {"status", "start", "check"} => cmd[c].op # "off"
              /\ s \in {"edit", "read"} => cmd[c].op \notin Power \union {"get"}
              /\ s = "bmc" => Mgt[n] # "kvm"
      BY <1>a DEF FirstStep, PowerStep, DeviceStep, Steps, SshSteps, Exclusive, Shared, Power
    <3>4. UNCHANGED <<machine, pending, outside, holder, last, disturbed>>
      BY <1>2 DEF Connect
    <3> QED BY <3>1, <3>2, <3>3, <3>4, ProceedPlaced
  <2>2. CASE ~ready
    <3>1. Ends(c, "failed") /\ cmd[c].step # "idle"
      BY <1>2, <2>2 DEF Connect
    <3> QED BY <1>1, <1>2, <3>1 DEF Connect, Answers
  <2> QED BY <2>1, <2>2
<1>3. CASE Fails(c)
  BY <1>1, <1>3 DEF Fails, Answers
<1>4. CASE GetPowerStatus(c)
  <2>1. CASE cmd[c].op = "get"
    <3>1. Seen(IsOn(c)) \in Answers
      BY DEF Seen, Answers
    <3> QED BY <1>1, <1>4, <2>1, <3>1 DEF GetPowerStatus
  <2>2. CASE cmd[c].op # "get"
    <3>1. PICK s \in {"offstatus", "start"} : Proceed(c, s)
      BY <1>4, <2>2 DEF GetPowerStatus
    <3>2. s \in Steps \ {"idle"}
      BY DEF Steps, SshSteps
    <3>3. cmd[c].step = "status" /\ UNCHANGED <<machine, pending, outside, holder, last, disturbed>>
      BY <1>4 DEF GetPowerStatus
    <3> QED BY <1>0, <3>1, <3>2, <3>3, ProceedPlaced DEF Placed
  <2> QED BY <2>1, <2>2
<1>5. CASE PowerOff(c)
  <2>1. /\ cmd[c].step \in {"offstatus", "offcheck"}
        /\ UNCHANGED <<machine, pending, outside, holder, last, disturbed>>
    BY <1>5 DEF PowerOff
  <2>2. \/ Proceed(c, "stop")
        \/ cmd[c].op # "off" /\ Proceed(c, "start")
        \/ \E o \in {"ok", "failed"} : Ends(c, o)
    BY <1>5 DEF PowerOff
  <2>3. {"stop", "start"} \subseteq Steps \ {"idle"} /\ {"ok", "failed"} \subseteq Answers
    BY DEF Steps, SshSteps, Answers
  <2>4. CASE Proceed(c, "stop")
    BY <1>0, <2>1, <2>3, <2>4, ProceedPlaced DEF Placed
  <2>5. CASE cmd[c].op # "off" /\ Proceed(c, "start")
    BY <1>0, <2>1, <2>3, <2>5, ProceedPlaced DEF Placed
  <2>6. CASE \E o \in {"ok", "failed"} : Ends(c, o)
    BY <1>1, <2>1, <2>3, <2>6
  <2> QED BY <2>2, <2>4, <2>5, <2>6
<1>6. CASE Stop(c)
  <2>1. cmd[c].step = "stop" /\ Target(c) \in Machine
    BY <1>0, <1>6 DEF Stop, Placed, Target
  <2>2. Off(Target(c)) \in MachineType
    BY <1>0, <2>1 DEF Off, MachineType
  <2>3. CASE IsOn(c)
    <3>1. /\ Becomes(Target(c), Off(Target(c)), {"off"}, c, "offcheck")
          /\ UNCHANGED <<pending, outside, holder, last, disturbed>>
      BY <1>6, <2>3 DEF Stop
    <3>2. "offcheck" \in Steps \ {"idle"}
      BY DEF Steps, SshSteps
    <3>3. outside' \in 0..MaxOutside /\ disturbed' \subseteq Node
      BY <1>0, <3>1 DEF TypeOK
    <3> QED BY <1>0, <2>1, <2>2, <3>1, <3>2, <3>3, BecomesPlaced
  <2>4. CASE ~IsOn(c)
    BY <1>1, <1>6, <2>1, <2>4 DEF Stop, Answers
  <2> QED BY <2>3, <2>4
<1>7. CASE Start(c)
  <2>1. cmd[c].step = "start" /\ Target(c) \in Machine /\ cmd[c].op # "off"
    BY <1>0, <1>7 DEF Start, Placed, Target
  <2>2. Started(Target(c), FALSE) \in MachineType
    BY <1>0, <2>1, PowerAssumption DEF Started, MachineType, PowerAssumption
  <2>3. CASE IsOn(c)
    BY <1>1, <1>7, <2>1, <2>3 DEF Start, Answers
  <2>4. CASE ~IsOn(c)
    <3>1. /\ Becomes(Target(c), Started(Target(c), FALSE), {"on", "start"}, c, "check")
          /\ UNCHANGED <<pending, outside, holder, last, disturbed>>
      BY <1>7, <2>4 DEF Start
    <3>2. "check" \in Steps \ {"idle"}
      BY DEF Steps, SshSteps
    <3>3. outside' \in 0..MaxOutside /\ disturbed' \subseteq Node
      BY <1>0, <3>1 DEF TypeOK
    <3> QED BY <1>0, <2>1, <2>2, <3>1, <3>2, <3>3, BecomesPlaced
  <2> QED BY <2>3, <2>4
<1>8. CASE CheckStarted(c)
  <2>1. \E o \in {"ok", "failed"} : Ends(c, o)
    BY <1>8 DEF CheckStarted
  <2> QED BY <1>1, <1>8, <2>1 DEF CheckStarted, Answers
\* It sets the boot device, and ends.
<1>9. CASE SetBootDevice(c) \/ BmcSetBootDevice(c)
  <2>1. /\ machine' = [machine EXCEPT ![Target(c)].next = cmd[c].dev] /\ Ends(c, "ok")
        /\ cmd[c].step \in {"edit", "bmc"}
        /\ UNCHANGED <<pending, outside, holder, last, disturbed>>
    BY <1>9 DEF SetBootDevice, BmcSetBootDevice, AtBmc
  <2>2. Target(c) \in Machine /\ cmd[c].dev \in Device \union {NoDevice}
    BY <1>0, <2>1 DEF Placed, Target, CmdType
  <2>3. machine' \in [Machine -> MachineType]
    BY <1>0, <2>1, <2>2 DEF MachineType
  <2> QED BY <1>0, <2>1, <2>3, EndsPlaced DEF Answers
<1>10. CASE GetBootDevice(c) \/ BmcGetBootDevice(c)
  <2>1. cmd[c].step \in {"read", "bmc"} /\ Target(c) \in Machine
    BY <1>0, <1>10 DEF GetBootDevice, BmcGetBootDevice, AtBmc, Placed, Target
  <2>2. machine[Target(c)].booted \in Device /\ machine[Target(c)].next \in Device \union {NoDevice}
    BY <1>0, <2>1 DEF MachineType
  <2>3. \E o \in Device \union {"failed"} : Ends(c, o)
    BY <1>10, <2>2, PowerAssumption DEF GetBootDevice, BmcGetBootDevice, PowerAssumption
  <2> QED BY <1>1, <1>10, <2>1, <2>3 DEF GetBootDevice, BmcGetBootDevice, Answers
<1>11. CASE BmcGet(c)
  <2>1. Seen(IsOn(c)) \in Answers
    BY DEF Seen, Answers
  <2> QED BY <1>1, <1>11, <2>1 DEF BmcGet, AtBmc
<1>12. CASE BmcSet(c)
  <2>1. cmd[c].step = "bmc" /\ Target(c) \in Machine /\ cmd[c].op \in Power
    BY <1>0, <1>12 DEF BmcSet, AtBmc, Placed, Target
  <2>2. Accepted(c) \in {"none"} \union Power
    BY <1>0, <2>1 DEF Accepted, Rebooted, Power
  <2>3. pending' \in [Machine -> {"none"} \union Power]
    BY <1>0, <1>12, <2>2 DEF BmcSet
  <2> QED BY <1>0, <1>12, <2>1, <2>3, EndsPlaced DEF BmcSet, Answers
\* It ends without having set the device.
<1>13. CASE BmcRefusesDevice(c)
  <2>1. cmd[c].step # "idle" /\ Ends(c, "ok") /\ UNCHANGED <<machine, pending, outside, holder, last>>
    BY <1>13 DEF BmcRefusesDevice, AtBmc
  <2>2. disturbed' \subseteq Node
    BY <1>0, <1>a, <1>13 DEF BmcRefusesDevice
  <2> QED BY <1>0, <2>1, <2>2, EndsPlaced DEF Answers
<1> QED BY <1>2, <1>3, <1>4, <1>5, <1>6, <1>7, <1>8, <1>9, <1>10, <1>11, <1>12, <1>13

\* A command is received.
LEMMA ReceiveEffect ==
  ASSUME TypeOK, NEW c \in Command, NEW m, Receive(c, m)
  PROVE  /\ m.node \in Node /\ cmd[c].step = "idle"
         /\ cmd' \in [Command -> CmdType]
         /\ cmd'[c].node = m.node /\ cmd'[c].op = m.op
         /\ cmd'[c].step = "connect" /\ cmd'[c].reply = "none" /\ cmd'[c].due = DueDevice(m)
         /\ MachineOf(m.node) \in Machine => Seen(machine[MachineOf(m.node)].on) \in cmd'[c].saw
         /\ \A d \in Command : d # c => cmd'[d] = cmd[d]
<1> DEFINE at == MachineOf(m.node)
           saw == IF at = NoMachine THEN {} ELSE {Seen(machine[at].on)}
           new == [node |-> m.node, op |-> m.op, dev |-> m.dev, step |-> "connect",
                   outcome |-> "none", reply |-> "none", saw |-> saw, due |-> DueDevice(m)]
<1>1. m.node \in Node /\ m.op \in Exclusive \union Shared /\ m.dev \in Device \union {NoDevice}
  BY PowerAssumption DEF PowerAssumption, Receive
<1>2. saw \in SUBSET {"on", "off", "start"}
  BY DEF Seen
<1>3. DueDevice(m) \in Device \union {NoDevice}
  <2>1. last[m.node] # NoCommand => cmd[last[m.node]].dev \in Device \union {NoDevice}
    BY <1>1, TypeParts DEF TypeOK, CmdType
  <2> QED BY <2>1 DEF DueDevice
<1>4. at \in Machine => Seen(machine[at].on) \in saw
  BY PowerAssumption DEF PowerAssumption
<1>5. cmd' = [cmd EXCEPT ![c] = new] /\ cmd[c].step = "idle"
  BY DEF Receive, At
<1> HIDE DEF saw
<1>6. new \in CmdType
  <2>1. "connect" \in Steps /\ "none" \in Answers
    BY DEF Steps, Answers
  <2> QED BY <1>1, <1>2, <1>3, <2>1 DEF CmdType
<1>7. /\ new.node = m.node /\ new.op = m.op /\ new.step = "connect" /\ new.reply = "none"
      /\ new.saw = saw /\ new.due = DueDevice(m)
  OBVIOUS
<1> HIDE DEF new
<1>8. cmd' \in [Command -> CmdType] /\ cmd'[c] = new /\ \A d \in Command : d # c => cmd'[d] = cmd[d]
  BY <1>5, <1>6, TypeParts
<1> QED BY <1>1, <1>4, <1>5, <1>7, <1>8

\* What an answer makes of a command.
LEMMA AnsweredType ==
  ASSUME NEW r \in CmdType
  PROVE  /\ [r EXCEPT !.reply = r.outcome, !.outcome = "none", !.saw = {}] \in CmdType
         /\ [r EXCEPT !.reply = r.outcome, !.outcome = "none", !.saw = {}].node = r.node
         /\ [r EXCEPT !.reply = r.outcome, !.outcome = "none", !.saw = {}].op = r.op
         /\ [r EXCEPT !.reply = r.outcome, !.outcome = "none", !.saw = {}].step = r.step
         /\ [r EXCEPT !.reply = r.outcome, !.outcome = "none", !.saw = {}].outcome = "none"
         /\ [r EXCEPT !.reply = r.outcome, !.outcome = "none", !.saw = {}].reply = r.outcome
         /\ [r EXCEPT !.reply = r.outcome, !.outcome = "none", !.saw = {}].dev = r.dev
         /\ [r EXCEPT !.reply = r.outcome, !.outcome = "none", !.saw = {}].due = r.due
BY DEF CmdType, Answers

\* A command is answered, with its outcome or for it took too long.
LEMMA AnswerEffect ==
  ASSUME TypeOK, NEW c \in Command, HandlerReturns(c) \/ HandlerTimesOut(c)
  PROVE  /\ cmd[c].step # "idle"
         /\ cmd' \in [Command -> CmdType]
         /\ cmd'[c].node = cmd[c].node /\ cmd'[c].op = cmd[c].op /\ cmd'[c].step = cmd[c].step
         /\ cmd'[c].dev = cmd[c].dev /\ cmd'[c].due = cmd[c].due
         /\ \/ /\ HandlerReturns(c) /\ cmd[c].step = "end" /\ cmd'[c].outcome = "none"
               /\ cmd'[c].reply = cmd[c].outcome
            \/ HandlerTimesOut(c) /\ cmd'[c].reply = "timeout"
         /\ \A d \in Command : d # c => cmd'[d] = cmd[d]
<1>0. cmd \in [Command -> CmdType]
  BY TypeParts
<1>1. CASE HandlerReturns(c)
  <2>1. cmd'[c] = [cmd[c] EXCEPT !.reply = cmd[c].outcome, !.outcome = "none", !.saw = {}]
    BY <1>0, <1>1 DEF HandlerReturns, CmdType
  <2>2. /\ cmd'[c] \in CmdType
        /\ cmd'[c].node = cmd[c].node /\ cmd'[c].op = cmd[c].op /\ cmd'[c].step = cmd[c].step
        /\ cmd'[c].outcome = "none" /\ cmd'[c].reply = cmd[c].outcome
        /\ cmd'[c].dev = cmd[c].dev /\ cmd'[c].due = cmd[c].due
    <3>1. cmd[c] \in CmdType
      BY <1>0
    <3> QED BY <2>1, <3>1, AnsweredType
  <2>3. DOMAIN cmd' = Command /\ \A d \in Command : d # c => cmd'[d] = cmd[d]
    BY <1>0, <1>1 DEF HandlerReturns
  <2>4. cmd' = [d \in Command |-> cmd'[d]]
    BY <1>0, <1>1 DEF HandlerReturns
  <2> QED BY <1>0, <1>1, <2>2, <2>3, <2>4 DEF HandlerReturns, At
<1>2. CASE HandlerTimesOut(c)
  <2>1. cmd'[c] = [cmd[c] EXCEPT !.reply = "timeout", !.saw = {}]
    BY <1>0, <1>2 DEF HandlerTimesOut, CmdType
  <2>2. /\ cmd'[c] \in CmdType
        /\ cmd'[c].node = cmd[c].node /\ cmd'[c].op = cmd[c].op /\ cmd'[c].step = cmd[c].step
        /\ cmd'[c].reply = "timeout"
        /\ cmd'[c].dev = cmd[c].dev /\ cmd'[c].due = cmd[c].due
    BY <1>0, <2>1 DEF CmdType, Answers
  <2>3. DOMAIN cmd' = Command /\ \A d \in Command : d # c => cmd'[d] = cmd[d]
    BY <1>0, <1>2 DEF HandlerTimesOut
  <2>4. cmd' = [d \in Command |-> cmd'[d]]
    BY <1>0, <1>2 DEF HandlerTimesOut
  <2> QED BY <1>0, <1>2, <2>2, <2>3, <2>4 DEF HandlerTimesOut
<1> QED BY <1>1, <1>2

\* What a machine may become when no command does it.
LEMMA MachineMoves ==
  ASSUME PlaceInv, \/ \E m \in Machine : Settle(m)
                   \/ \E m \in {Target(c) : c \in Command} \ {NoMachine} : ByItself(m)
  PROVE  \/ UNCHANGED <<machine, cmd>>
         \/ \E m \in Machine, r \in MachineType, events \in SUBSET {"on", "off", "start"} :
              Becomes(m, r, events, NoCommand, "end") /\ Seen(r.on) \in events
<1>0. machine \in [Machine -> MachineType] /\ cmd \in [Command -> CmdType]
  BY TypeParts DEF PlaceInv
<1>1. \A m \in Machine : /\ Off(m) \in MachineType /\ Seen(Off(m).on) \in {"off"}
                         /\ \A once \in BOOLEAN : /\ Started(m, once) \in MachineType
                                                  /\ Seen(Started(m, once).on) \in {"on", "start"}
  <2> SUFFICES ASSUME NEW m \in Machine
               PROVE  /\ Off(m) \in MachineType /\ Seen(Off(m).on) \in {"off"}
                      /\ \A once \in BOOLEAN : /\ Started(m, once) \in MachineType
                                               /\ Seen(Started(m, once).on) \in {"on", "start"}
    OBVIOUS
  <2>1. Off(m) \in MachineType /\ Seen(Off(m).on) = "off"
    BY <1>0 DEF Off, Seen, MachineType
  <2>2. ASSUME NEW once \in BOOLEAN
        PROVE  Started(m, once) \in MachineType /\ Seen(Started(m, once).on) = "on"
    BY <1>0, PowerAssumption DEF PowerAssumption, Started, Seen, MachineType
  <2> QED BY <2>1, <2>2
<1>2. {"off"} \in SUBSET {"on", "off", "start"} /\ {"on", "start"} \in SUBSET {"on", "off", "start"}
  OBVIOUS
<1>3. ASSUME NEW m \in Machine, Settle(m)
      PROVE  \/ UNCHANGED <<machine, cmd>>
             \/ Becomes(m, Off(m), {"off"}, NoCommand, "end")
             \/ Becomes(m, Started(m, TRUE), {"on", "start"}, NoCommand, "end")
  BY <1>3 DEF Settle
<1>4. ASSUME NEW m \in {Target(c) : c \in Command} \ {NoMachine}, ByItself(m)
      PROVE  /\ m \in Machine
             /\ \/ Becomes(m, Off(m), {"off"}, NoCommand, "end")
                \/ \E once \in BOOLEAN : Becomes(m, Started(m, once), {"on", "start"}, NoCommand, "end")
  <2>1. m \in Machine
    BY <1>0, MachineKnown DEF Target, CmdType
  <2> QED BY <1>4, <2>1 DEF ByItself
<1> QED BY <1>1, <1>2, <1>3, <1>4

\* The invariant of places is inductive.
LEMMA PlaceStep == PlaceInv /\ [Next]_vars => PlaceInv'
<1> SUFFICES ASSUME PlaceInv, [Next]_vars PROVE PlaceInv'
  OBVIOUS
<1>0. TypeOK /\ HoldersWork /\ cmd \in [Command -> CmdType] /\ machine \in [Machine -> MachineType]
  BY TypeParts DEF PlaceInv
<1>1. ASSUME NEW c \in Command, NEW m \in Menu, Receive(c, m) PROVE PlaceInv'
  <2>1. /\ m.node \in Node /\ cmd[c].step = "idle"
        /\ cmd' \in [Command -> CmdType]
        /\ cmd'[c].node = m.node /\ cmd'[c].op = m.op
        /\ cmd'[c].step = "connect" /\ cmd'[c].reply = "none"
        /\ \A d \in Command : d # c => cmd'[d] = cmd[d]
    BY <1>0, <1>1, ReceiveEffect
  <2>2. \A d \in Command : Placed(d)'
    BY <2>1 DEF PlaceInv, Placed
  <2>3. /\ UNCHANGED <<machine, pending, outside>>
        /\ \/ /\ m.op \in Exclusive /\ holder' = [holder EXCEPT ![m.node] = c]
              /\ last' = [last EXCEPT ![m.node] = c]
              /\ disturbed' \in {disturbed \union {m.node}, disturbed \ {m.node}}
           \/ UNCHANGED <<holder, last, disturbed>>
    BY <1>1 DEF Receive
  <2>4. ASSUME NEW n \in Node, holder'[n] # NoCommand
        PROVE  LET d == cmd'[holder'[n]]
               IN  d.node = n /\ d.op \in Exclusive /\ d.reply = "none" /\ d.step # "idle"
    <3>1. CASE m.op \in Exclusive /\ holder' = [holder EXCEPT ![m.node] = c] /\ n = m.node
      BY <1>0, <2>1, <3>1 DEF TypeOK
    <3>2. CASE holder'[n] = holder[n]
      <4>1. holder[n] \in Command \ {c}
        BY <1>0, <2>1, <2>4, <3>2 DEF TypeOK, HoldersWork
      <4> QED BY <1>0, <2>1, <2>4, <3>2, <4>1 DEF TypeOK, HoldersWork
    <3> QED BY <1>0, <2>3, <3>1, <3>2 DEF TypeOK
  <2>5. TypeOK'
    <3>1. /\ holder' \in [Node -> Command \union {NoCommand}]
          /\ last' \in [Node -> Command \union {NoCommand}] /\ disturbed' \subseteq Node
      BY <1>0, <2>1, <2>3 DEF TypeOK
    <3> QED BY <1>0, <2>1, <2>3, <2>4, <3>1 DEF TypeOK, CmdType, Steps
  <2> QED BY <2>2, <2>4, <2>5 DEF PlaceInv, HoldersWork
<1>2. ASSUME NEW c \in Command, HandlerReturns(c) \/ HandlerTimesOut(c) PROVE PlaceInv'
  <2>1. /\ cmd' \in [Command -> CmdType]
        /\ cmd'[c].node = cmd[c].node /\ cmd'[c].op = cmd[c].op /\ cmd'[c].step = cmd[c].step
        /\ \A d \in Command : d # c => cmd'[d] = cmd[d]
    BY <1>0, <1>2, AnswerEffect
  <2>2. \A d \in Command : Placed(d)'
    BY <2>1 DEF PlaceInv, Placed
  <2>3. /\ UNCHANGED <<machine, pending, outside, last, disturbed>>
        /\ holder' = [n \in Node |-> IF holder[n] = c THEN NoCommand ELSE holder[n]]
    BY <1>2 DEF HandlerReturns, HandlerTimesOut, Release
  <2>4. \A n \in Node : holder'[n] # NoCommand =>
          /\ holder'[n] = holder[n] /\ holder[n] \in Command \ {c}
          /\ cmd'[holder'[n]] = cmd[holder[n]]
    BY <1>0, <2>1, <2>3 DEF TypeOK
  <2>5. TypeOK'
    <3>1. holder' \in [Node -> Command \union {NoCommand}]
      BY <1>0, <2>3 DEF TypeOK
    <3> QED BY <1>0, <2>1, <2>3, <2>4, <3>1 DEF TypeOK, CmdType, Steps
  <2> QED BY <1>0, <2>2, <2>4, <2>5 DEF PlaceInv, HoldersWork
<1>3. ASSUME \/ \E m \in Machine : Settle(m)
             \/ \E m \in {Target(c) : c \in Command} \ {NoMachine} : ByItself(m)
      PROVE  PlaceInv'
  <2>1. /\ pending' \in [Machine -> {"none"} \union Power] /\ outside' \in 0..MaxOutside
        /\ disturbed' \subseteq Node /\ UNCHANGED <<holder, last>>
    <3>1. ASSUME NEW m \in Machine, Settle(m)
          PROVE  /\ pending' \in [Machine -> {"none"} \union Power]
                 /\ UNCHANGED <<outside, disturbed, holder, last>>
      BY <1>0, <3>1 DEF Settle, TypeOK
    <3>2. ASSUME NEW m, ByItself(m)
          PROVE  /\ outside' \in 0..MaxOutside /\ disturbed' \subseteq Node
                 /\ UNCHANGED <<pending, holder, last>>
      <4>1. outside' \in 0..MaxOutside
        BY <1>0, <3>2, PowerAssumption DEF ByItself, TypeOK, PowerAssumption
      <4>2. disturbed' \subseteq Node /\ UNCHANGED <<pending, holder, last>>
        BY <1>0, <3>2 DEF ByItself, TypeOK
      <4> QED BY <4>1, <4>2
    <3> QED BY <1>0, <1>3, <3>1, <3>2 DEF TypeOK
  <2>2. CASE UNCHANGED <<machine, cmd>>
    BY <1>0, <2>1, <2>2 DEF PlaceInv, TypeOK, HoldersWork, Placed
  <2>3. CASE \E m \in Machine, r \in MachineType, events \in SUBSET {"on", "off", "start"} :
               Becomes(m, r, events, NoCommand, "end")
    <3>1. "end" \in Steps \ {"idle"} /\ NoCommand \notin Command
      BY PowerAssumption DEF Steps, PowerAssumption
    <3> QED BY <2>1, <2>3, <3>1, BecomesPlaced
  <2> QED BY <1>3, <2>2, <2>3, MachineMoves
<1>4. CASE UNCHANGED vars
  BY <1>0, <1>4 DEF vars, PlaceInv, TypeOK, HoldersWork, Placed
<1> QED BY <1>1, <1>2, <1>3, <1>4, StepPlaced DEF Next

\* The initial states are in the invariant of places.
LEMMA InitPlace == Init => PlaceInv
<1> SUFFICES ASSUME Init PROVE PlaceInv
  OBVIOUS
<1>1. PICK slot \in Slots : cmd = [c \in Command |-> Unused(slot[c])]
  BY DEF Init
<1>2. slot \in [Command -> Node]
  BY <1>1, PowerAssumption DEF PowerAssumption
<1>3. cmd \in [Command -> CmdType] /\ \A c \in Command : cmd[c].step = "idle"
  BY <1>1, <1>2 DEF Unused, CmdType, Steps, Answers, Shared
<1>4. machine \in [Machine -> MachineType]
  BY PowerAssumption DEF Init, MachineType, PowerAssumption
<1>5. \A n \in Node : holder[n] = NoCommand
  BY DEF Init
<1>6. TypeOK
  <2>1. /\ pending \in [Machine -> {"none"} \union Power] /\ outside \in 0..MaxOutside
        /\ holder \in [Node -> Command \union {NoCommand}]
        /\ last \in [Node -> Command \union {NoCommand}] /\ disturbed \subseteq Node
    BY PowerAssumption DEF Init, PowerAssumption
  <2> QED BY <1>3, <1>4, <1>5, <2>1 DEF TypeOK, CmdType, MachineType, Steps
<1> QED BY <1>3, <1>5, <1>6 DEF PlaceInv, HoldersWork, Placed

(* The variables of the control plugins keep their types, and a lock belongs *)
(* to a command that still waits for its answer.                            *)
THEOREM TypeCorrect == Spec => []TypeOK
<1>1. PlaceInv => TypeOK
  BY DEF PlaceInv
<1> QED BY <1>1, InitPlace, PlaceStep, PTL DEF Spec

-----------------------------------------------------------------------------
(* What a command has seen.  While it is under way it has seen the machine   *)
(* as it is now, and when it is about to look whether the machine runs, its *)
(* start.  With that its outcome is true.                                   *)
Witnessed(c) ==
    LET r == cmd[c]
        m == MachineOf(r.node)
    IN  r.reply = "none" =>
        /\ r.step \notin {"idle", "end"} /\ m \in Machine => Seen(machine[m].on) \in r.saw
        /\ r.step = "check" => "start" \in r.saw
        /\ r.step = "end" =>
            /\ r.op = "get" /\ r.outcome \in {"on", "off"} => r.outcome \in r.saw
            /\ Mgt[r.node] = "kvm" /\ r.outcome = "ok" =>
                /\ r.op = "off" => "off" \in r.saw
                /\ r.op \in {"on", "boot"} => "start" \in r.saw

SeenInv == PlaceInv /\ \A c \in Command : Witnessed(c)

\* A greenthread goes to a step other than the look at a started machine.
LEMMA ProceedWitnessed ==
  ASSUME SeenInv, NEW c \in Command, cmd[c].step \notin {"idle", "end"},
         NEW s \in Steps \ {"end", "check"}, Proceed(c, s), UNCHANGED machine
  PROVE  \A d \in Command : Witnessed(d)'
<1>0. cmd \in [Command -> CmdType]
  BY TypeParts DEF SeenInv, PlaceInv
<1>1. /\ cmd'[c] = [cmd[c] EXCEPT !.step = s]
      /\ \A d \in Command : d # c => cmd'[d] = cmd[d]
  BY <1>0, ProceedEffect
<1>2. /\ cmd'[c].step = s /\ cmd'[c].node = cmd[c].node
      /\ cmd'[c].reply = cmd[c].reply /\ cmd'[c].saw = cmd[c].saw
  BY <1>0, <1>1 DEF CmdType
<1>3. Witnessed(c)'
  BY <1>2 DEF SeenInv, Witnessed
<1>4. \A d \in Command : d # c => Witnessed(d)'
  BY <1>1 DEF SeenInv, Witnessed
<1> QED BY <1>3, <1>4

\* A greenthread ends with an outcome that is true.
LEMMA EndsWitnessed ==
  ASSUME SeenInv, NEW c \in Command, NEW o \in Answers, Ends(c, o),
         \A m \in Machine : machine'[m].on = machine[m].on,
         LET r == cmd[c]
         IN  r.reply = "none" =>
             /\ r.op = "get" /\ o \in {"on", "off"} => o \in r.saw
             /\ Mgt[r.node] = "kvm" /\ o = "ok" =>
                 /\ r.op = "off" => "off" \in r.saw
                 /\ r.op \in {"on", "boot"} => "start" \in r.saw
  PROVE  \A d \in Command : Witnessed(d)'
<1>0. cmd \in [Command -> CmdType]
  BY TypeParts DEF SeenInv, PlaceInv
<1>1. /\ cmd'[c].step = "end" /\ cmd'[c].outcome = o
      /\ cmd'[c].node = cmd[c].node /\ cmd'[c].op = cmd[c].op
      /\ cmd'[c].reply = cmd[c].reply /\ cmd'[c].saw = cmd[c].saw
      /\ \A d \in Command : d # c => cmd'[d] = cmd[d]
  BY <1>0, EndsEffect
<1>2. Witnessed(c)'
  BY <1>1 DEF Witnessed
<1>3. \A d \in Command : d # c => Witnessed(d)'
  BY <1>1 DEF SeenInv, Witnessed
<1> QED BY <1>2, <1>3

\* A machine becomes another: every command under way on it has seen that.
LEMMA BecomesWitnessed ==
  ASSUME SeenInv, NEW m \in Machine, NEW r \in MachineType,
         NEW events \in SUBSET {"on", "off", "start"}, Seen(r.on) \in events,
         NEW c, NEW s \in Steps, Becomes(m, r, events, c, s),
         c \in Command => /\ cmd[c].step \notin {"idle", "end"} /\ MachineOf(cmd[c].node) = m
                          /\ s # "end"
                          /\ s = "check" => "start" \in events
  PROVE  \A d \in Command : Witnessed(d)'
<1>0. cmd \in [Command -> CmdType] /\ machine \in [Machine -> MachineType]
  BY TypeParts DEF SeenInv, PlaceInv
<1>1. /\ machine'[m] = r /\ \A k \in Machine : k # m => machine'[k] = machine[k]
      /\ \A d \in Command : Sees(d, m, events, c, s)
  BY <1>0, BecomesEffect
<1>2. ASSUME NEW d \in Command PROVE Witnessed(d)'
  <2>1. Witnessed(d) /\ Sees(d, m, events, c, s)
    BY <1>1 DEF SeenInv
  <2>2. cmd'[d].step \notin {"idle", "end"} => cmd[d].step \notin {"idle", "end"}
    BY <2>1 DEF Sees
  <2>3. ASSUME cmd'[d].reply = "none", cmd'[d].step \notin {"idle", "end"},
               MachineOf(cmd[d].node) \in Machine
        PROVE  Seen(machine'[MachineOf(cmd[d].node)].on) \in cmd'[d].saw
    <3>1. cmd[d].step \notin {"idle", "end"} /\ cmd[d].reply = "none" /\ cmd[d].saw \subseteq cmd'[d].saw
      BY <2>1, <2>2, <2>3 DEF Sees
    <3>2. CASE MachineOf(cmd[d].node) = m
      BY <1>1, <2>1, <3>1, <3>2 DEF Sees
    <3>3. CASE MachineOf(cmd[d].node) # m
      BY <1>1, <2>1, <2>3, <3>1, <3>3 DEF Witnessed
    <3> QED BY <3>2, <3>3
  <2>4. cmd'[d].reply = "none" /\ cmd'[d].step = "check" => "start" \in cmd'[d].saw
    BY <2>1 DEF Witnessed, Sees
  <2>5. cmd'[d].step = "end" => cmd[d].step = "end" \/ (d = c /\ c \notin Command)
    BY <2>1 DEF Sees
  <2> QED BY <2>1, <2>3, <2>4, <2>5 DEF Witnessed, Sees
<1> QED BY <1>2

\* The actions of a greenthread.
LEMMA StepWitnessed ==
  ASSUME SeenInv, NEW c \in Command,
         \/ Connect(c) \/ Fails(c) \/ GetPowerStatus(c) \/ PowerOff(c) \/ Stop(c) \/ Start(c)
         \/ CheckStarted(c) \/ SetBootDevice(c) \/ GetBootDevice(c)
         \/ BmcGet(c) \/ BmcSet(c) \/ BmcSetBootDevice(c) \/ BmcRefusesDevice(c)
         \/ BmcGetBootDevice(c)
  PROVE  \A d \in Command : Witnessed(d)'
<1>0. /\ Placed(c) /\ Witnessed(c) /\ cmd[c] \in CmdType /\ machine \in [Machine -> MachineType]
      /\ cmd[c].node \in Node
  BY TypeParts DEF SeenInv, PlaceInv, CmdType
<1> USE DEF At
\* An outcome that says nothing of the power.
<1>1. ASSUME NEW o \in Answers, Ends(c, o), UNCHANGED machine,
             o = "failed" \/ cmd[c].op \in {"setdev", "getdev"}
      PROVE  \A d \in Command : Witnessed(d)'
  BY <1>1, EndsWitnessed
\* What is there now has been seen.
<1>2. cmd[c].reply = "none" /\ cmd[c].step \notin {"idle", "connect", "end"}
      => Seen(IsOn(c)) \in cmd[c].saw
  BY <1>0 DEF Placed, Witnessed, IsOn, Target
<1>3. CASE Connect(c)
  <2>1. \/ Proceed(c, FirstStep(cmd[c].node, cmd[c].op))
        \/ Ends(c, "failed")
    BY <1>3 DEF Connect
  <2>2. FirstStep(cmd[c].node, cmd[c].op) \in Steps \ {"end", "check"}
    BY DEF FirstStep, PowerStep, DeviceStep, Steps, SshSteps
  <2>3. cmd[c].step = "connect" /\ UNCHANGED machine
    BY <1>3 DEF Connect
  <2> QED BY <1>1, <2>1, <2>2, <2>3, ProceedWitnessed DEF Answers
<1>4. CASE Fails(c)
  BY <1>1, <1>4 DEF Fails, Answers
<1>5. CASE GetPowerStatus(c)
  <2>1. cmd[c].step = "status" /\ UNCHANGED machine
    BY <1>5 DEF GetPowerStatus
  <2>2. CASE cmd[c].op = "get"
    <3>1. Ends(c, Seen(IsOn(c))) /\ Seen(IsOn(c)) \in {"on", "off"}
      BY <1>5, <2>2 DEF GetPowerStatus, Seen
    <3> QED BY <1>2, <2>1, <2>2, <3>1, EndsWitnessed DEF Answers
  <2>3. CASE cmd[c].op # "get"
    <3>1. PICK s \in {"offstatus", "start"} : Proceed(c, s)
      BY <1>5, <2>3 DEF GetPowerStatus
    <3>2. s \in Steps \ {"end", "check"}
      BY DEF Steps, SshSteps
    <3> QED BY <2>1, <3>1, <3>2, ProceedWitnessed
  <2> QED BY <2>2, <2>3
<1>6. CASE PowerOff(c)
  <2>1. cmd[c].step \in {"offstatus", "offcheck"} /\ UNCHANGED machine
    BY <1>6 DEF PowerOff
  <2>2. \/ \E s \in {"stop", "start"} : Proceed(c, s)
        \/ cmd[c].op = "off" /\ ~IsOn(c) /\ Ends(c, "ok")
        \/ Ends(c, "failed")
    BY <1>6 DEF PowerOff
  <2>3. CASE \E s \in {"stop", "start"} : Proceed(c, s)
    <3>1. {"stop", "start"} \subseteq Steps \ {"end", "check"}
      BY DEF Steps, SshSteps
    <3> QED BY <2>1, <2>3, <3>1, ProceedWitnessed
  <2>4. CASE cmd[c].op = "off" /\ ~IsOn(c) /\ Ends(c, "ok")
    <3>1. cmd[c].reply = "none" => "off" \in cmd[c].saw
      BY <1>2, <2>1, <2>4 DEF Seen
    <3> QED BY <2>1, <2>4, <3>1, EndsWitnessed DEF Answers
  <2>5. CASE Ends(c, "failed")
    BY <1>1, <2>1, <2>5 DEF Answers
  <2> QED BY <2>2, <2>3, <2>4, <2>5
<1>7. CASE Stop(c)
  <2>1. cmd[c].step = "stop" /\ Target(c) \in Machine
    BY <1>0, <1>7 DEF Stop, Placed, Target
  <2>2. Off(Target(c)) \in MachineType /\ Seen(Off(Target(c)).on) = "off"
    BY <1>0, <2>1 DEF Off, MachineType, Seen
  <2>3. CASE IsOn(c)
    <3>1. Becomes(Target(c), Off(Target(c)), {"off"}, c, "offcheck")
      BY <1>7, <2>3 DEF Stop
    <3>2. "offcheck" \in Steps /\ MachineOf(cmd[c].node) = Target(c)
      BY DEF Steps, SshSteps, Target
    <3> QED BY <2>1, <2>2, <3>1, <3>2, BecomesWitnessed
  <2>4. CASE ~IsOn(c)
    BY <1>1, <1>7, <2>4 DEF Stop, Answers
  <2> QED BY <2>3, <2>4
<1>8. CASE Start(c)
  <2>1. cmd[c].step = "start" /\ Target(c) \in Machine
    BY <1>0, <1>8 DEF Start, Placed, Target
  <2>2. Started(Target(c), FALSE) \in MachineType /\ Seen(Started(Target(c), FALSE).on) = "on"
    BY <1>0, <2>1, PowerAssumption DEF Started, MachineType, PowerAssumption, Seen
  <2>3. CASE IsOn(c)
    BY <1>1, <1>8, <2>3 DEF Start, Answers
  <2>4. CASE ~IsOn(c)
    <3>1. Becomes(Target(c), Started(Target(c), FALSE), {"on", "start"}, c, "check")
      BY <1>8, <2>4 DEF Start
    <3>2. "check" \in Steps /\ MachineOf(cmd[c].node) = Target(c)
      BY DEF Steps, SshSteps, Target
    <3> QED BY <2>1, <2>2, <3>1, <3>2, BecomesWitnessed
  <2> QED BY <2>3, <2>4
<1>9. CASE CheckStarted(c)
  <2>1. cmd[c].step = "check" /\ cmd[c].op # "off" /\ UNCHANGED machine
    BY <1>0, <1>9 DEF CheckStarted, Placed
  <2>2. PICK o \in {"ok", "failed"} : Ends(c, o)
    BY <1>9 DEF CheckStarted
  <2>3. cmd[c].reply = "none" => "start" \in cmd[c].saw
    BY <1>0, <2>1 DEF Witnessed
  <2> QED BY <2>1, <2>2, <2>3, EndsWitnessed DEF Answers
<1>10. CASE SetBootDevice(c) \/ BmcSetBootDevice(c)
  <2>1. /\ machine' = [machine EXCEPT ![Target(c)].next = cmd[c].dev] /\ Ends(c, "ok")
        /\ cmd[c].step = "edit" \/ cmd[c].op = "setdev"
    BY <1>10 DEF SetBootDevice, BmcSetBootDevice, AtBmc
  <2>2. \A m \in Machine : machine'[m].on = machine[m].on
    BY <1>0, <2>1 DEF MachineType
  <2>3. cmd[c].op \notin Power
    BY <1>0, <2>1 DEF Placed, Power
  <2> QED BY <2>1, <2>2, <2>3, EndsWitnessed DEF Answers, Power
<1>11. CASE GetBootDevice(c) \/ BmcGetBootDevice(c)
  <2>1. /\ cmd[c].step \in {"read", "bmc"} /\ Target(c) \in Machine /\ UNCHANGED machine
        /\ cmd[c].op \in {"setdev", "getdev"}
    <3>1. cmd[c].op \in Exclusive \union Shared
      BY <1>0 DEF CmdType
    <3> QED BY <1>0, <1>11, <3>1
            DEF GetBootDevice, BmcGetBootDevice, AtBmc, Placed, Target, Exclusive, Shared
  <2>2. machine[Target(c)].booted \in Device /\ machine[Target(c)].next \in Device \union {NoDevice}
    BY <1>0, <2>1 DEF MachineType
  <2>3. \E o \in Device \union {"failed"} : Ends(c, o)
    BY <1>11, <2>2, PowerAssumption DEF GetBootDevice, BmcGetBootDevice, PowerAssumption
  <2> QED BY <1>1, <2>1, <2>3 DEF Answers
<1>12. CASE BmcGet(c)
  <2>1. /\ Ends(c, Seen(IsOn(c))) /\ Seen(IsOn(c)) \in {"on", "off"}
        /\ cmd[c].step = "bmc" /\ cmd[c].op = "get" /\ UNCHANGED machine
    BY <1>12 DEF BmcGet, AtBmc, Seen
  <2> QED BY <1>2, <2>1, EndsWitnessed DEF Answers
<1>13. CASE BmcSet(c)
  <2>1. Ends(c, "ok") /\ cmd[c].step = "bmc" /\ cmd[c].op \in Power /\ UNCHANGED machine
    BY <1>13 DEF BmcSet, AtBmc
  <2>2. Mgt[cmd[c].node] # "kvm"
    BY <1>0, <2>1 DEF Placed
  <2> QED BY <2>1, <2>2, EndsWitnessed DEF Answers, Power
<1>14. CASE BmcRefusesDevice(c)
  <2>1. Ends(c, "ok") /\ cmd[c].op = "setdev" /\ UNCHANGED machine
    BY <1>14 DEF BmcRefusesDevice, AtBmc
  <2> QED BY <1>1, <2>1 DEF Answers
<1> QED BY <1>3, <1>4, <1>5, <1>6, <1>7, <1>8, <1>9, <1>10, <1>11, <1>12, <1>13, <1>14

\* The invariant of what is seen is inductive.
LEMMA SeenStep == SeenInv /\ [Next]_vars => SeenInv'
<1> SUFFICES ASSUME SeenInv, [Next]_vars PROVE \A d \in Command : Witnessed(d)'
  BY PlaceStep DEF SeenInv
<1>0. PlaceInv /\ TypeOK /\ \A d \in Command : Witnessed(d)
  BY DEF SeenInv, PlaceInv
<1>1. ASSUME NEW c \in Command, NEW m \in Menu, Receive(c, m) PROVE \A d \in Command : Witnessed(d)'
  <2>1. /\ cmd'[c].node = m.node /\ cmd'[c].step = "connect"
        /\ MachineOf(m.node) \in Machine => Seen(machine[MachineOf(m.node)].on) \in cmd'[c].saw
        /\ \A d \in Command : d # c => cmd'[d] = cmd[d]
    BY <1>0, <1>1, ReceiveEffect
  <2>2. machine' = machine
    BY <1>1 DEF Receive
  <2>3. Witnessed(c)'
    BY <2>1, <2>2 DEF Witnessed
  <2> QED BY <1>0, <2>1, <2>2, <2>3 DEF Witnessed
<1>2. ASSUME NEW c \in Command, HandlerReturns(c) \/ HandlerTimesOut(c)
      PROVE  \A d \in Command : Witnessed(d)'
  <2>1. /\ cmd'[c].step = cmd[c].step
        /\ \/ cmd[c].step = "end" /\ cmd'[c].outcome = "none"
           \/ cmd'[c].reply = "timeout"
        /\ \A d \in Command : d # c => cmd'[d] = cmd[d]
    BY <1>0, <1>2, AnswerEffect
  <2>2. machine' = machine
    BY <1>2 DEF HandlerReturns, HandlerTimesOut
  <2>3. Witnessed(c)'
    BY <2>1 DEF Witnessed
  <2> QED BY <1>0, <2>1, <2>2, <2>3 DEF Witnessed
<1>3. ASSUME \/ \E m \in Machine : Settle(m)
             \/ \E m \in {Target(c) : c \in Command} \ {NoMachine} : ByItself(m)
      PROVE  \A d \in Command : Witnessed(d)'
  <2>1. CASE UNCHANGED <<machine, cmd>>
    BY <1>0, <2>1 DEF Witnessed
  <2>2. CASE \E m \in Machine, r \in MachineType, events \in SUBSET {"on", "off", "start"} :
               Becomes(m, r, events, NoCommand, "end") /\ Seen(r.on) \in events
    <3>1. "end" \in Steps /\ NoCommand \notin Command
      BY PowerAssumption DEF Steps, PowerAssumption
    <3> QED BY <2>2, <3>1, BecomesWitnessed
  <2> QED BY <1>0, <1>3, <2>1, <2>2, MachineMoves
<1>4. CASE UNCHANGED vars
  BY <1>0, <1>4 DEF vars, Witnessed
<1> QED BY <1>1, <1>2, <1>3, <1>4, StepWitnessed DEF Next

(* What a plugin is about to answer is true of some moment of its request,   *)
(* whatever other greenthreads, guests and left-over commands do to the     *)
(* machine.                                                                 *)
THEOREM AnswersAreWitnessed == Spec => []AnswersAreTrue
<1>1. Init => SeenInv
  <2> SUFFICES ASSUME Init PROVE \A c \in Command : Witnessed(c)
    BY InitPlace DEF SeenInv
  <2>1. \A c \in Command : cmd[c].step = "idle"
    BY DEF Init, Unused
  <2> QED BY <2>1 DEF Witnessed
<1>2. SeenInv => AnswersAreTrue
  BY DEF SeenInv, Witnessed, AnswersAreTrue, At
<1> QED BY <1>1, <1>2, SeenStep, PTL DEF Spec

-----------------------------------------------------------------------------
(* What was done stays done.                                               *)

\* No two nodes are the same machine.
OwnMachines ==
    \A n, k \in Node : MachineOf(n) = MachineOf(k) /\ MachineOf(n) # NoMachine => n = k

\* The steps of each operation; a greenthread whose answer was taken is over.
OnItsWay(c) ==
    LET r == cmd[c]
    IN  /\ r.step = "status" => r.op \in {"on", "boot", "get"}
        /\ r.step \in {"offstatus", "stop", "offcheck"} => r.op \in Power
        /\ r.step \in {"start", "check"} => r.op \in {"on", "boot"}
        /\ r.step = "edit" => r.op = "setdev"
        /\ r.step = "read" => r.op = "getdev"
        /\ r.step \notin {"idle", "connect", "bmc", "end"} => Mgt[r.node] = "kvm"
        /\ r.step = "idle" => r.op = "get" /\ r.reply = "none"
        /\ r.reply = "ok" => r.step = "end"

Succeeded(r) == r.step = "end" /\ (r.reply = "ok" \/ (r.reply = "none" /\ r.outcome = "ok"))

\* A machine v, of which the BMC has to do p yet, on the way of its last command
\* r and after it: until it is started the device that was set is still set, and
\* the BMC owes nothing but what the command asked for.
Follows(r, v, p) ==
    LET set == r.due # NoDevice => v.next = r.due
        started == v.on /\ (r.due # NoDevice => v.booted = r.due)
    IN  /\ r.step \notin {"check", "end"} => p = "none" /\ set
        /\ r.step = "check" => p = "none" /\ (r.due # NoDevice => v.booted = r.due)
        /\ Succeeded(r) =>
            /\ r.op = "setdev" => p = "none" /\ v.next = r.dev
            /\ r.op = "off" => p \in {"none", "off"} /\ (p = "none" => ~ v.on)
            /\ r.op = "on" => /\ p \in {"none", "on"} /\ (p = "none" => v.on)
                              /\ Mgt[r.node] = "kvm" => started
            /\ r.op = "boot" => IF p = "none" THEN started
                                ELSE set /\ (p = "boot" \/ (p = "on" /\ ~ v.on))

\* The last command of a node is the only one that may change its machine, and
\* the machine follows it, unless the node is disturbed.
LastFollowed(n) ==
    LET l == last[n]
        m == MachineOf(n)
    IN  l # NoCommand =>
        /\ cmd[l].node = n /\ cmd[l].op \in Exclusive /\ cmd[l].step # "idle"
        /\ n \notin disturbed =>
            /\ \A d \in Command \ {l} :
                  cmd[d].node = n /\ cmd[d].op \in Exclusive => cmd[d].step \in {"idle", "end"}
            /\ Succeeded(cmd[l]) => m \in Machine
            /\ m \in Machine => Follows(cmd[l], machine[m], pending[m])

\* A hypervisor does what it is told at once.
QuietVms == \A n \in Node : Mgt[n] = "kvm" /\ MachineOf(n) \in Machine => pending[MachineOf(n)] = "none"

DoneInv == PlaceInv /\ QuietVms /\ (\A c \in Command : OnItsWay(c)) /\ \A n \in Node : LastFollowed(n)

SameCmd(d) ==
    /\ cmd'[d].node = cmd[d].node /\ cmd'[d].op = cmd[d].op /\ cmd'[d].dev = cmd[d].dev
    /\ cmd'[d].step = cmd[d].step /\ cmd'[d].outcome = cmd[d].outcome
    /\ cmd'[d].reply = cmd[d].reply /\ cmd'[d].due = cmd[d].due

\* A step of the greenthread or the handler of c: only it goes on, only an
\* exclusive one that is not over changes its machine, and its machine follows it.
Advances(c) ==
    LET m == MachineOf(cmd[c].node)
    IN  /\ last' = last /\ disturbed' = disturbed
        /\ \A d \in Command \ {c} : SameCmd(d)
        /\ cmd'[c].node = cmd[c].node /\ cmd'[c].op = cmd[c].op
        /\ cmd[c].step # "idle" /\ cmd'[c].step # "idle"
        /\ cmd[c].step = "end" => cmd'[c].step = "end"
        /\ OnItsWay(c)'
        /\ \A k \in Machine : k # m \/ cmd[c].op \notin Exclusive \/ cmd[c].step = "end" =>
               machine'[k] = machine[k] /\ pending'[k] = pending[k]
        /\ m \in Machine /\ Mgt[cmd[c].node] = "kvm" => pending'[m] = pending[m]
        /\ Succeeded(cmd'[c]) => m \in Machine \/ Succeeded(cmd[c])
        /\ m \in Machine /\ Follows(cmd[c], machine[m], pending[m]) =>
               Follows(cmd'[c], machine'[m], pending'[m])

\* Nothing that concerns the last command of a node changes.
LEMMA Bystander ==
  ASSUME NEW n \in Node, LastFollowed(n), last'[n] = last[n], last[n] \in Command \union {NoCommand},
         n \in disturbed => n \in disturbed',
         \A d \in Command : /\ cmd'[d].node = cmd[d].node /\ cmd'[d].op = cmd[d].op
                            /\ cmd[d].step \in {"idle", "end"} => cmd'[d].step \in {"idle", "end"},
         last[n] # NoCommand => SameCmd(last[n]),
         n \notin disturbed' /\ MachineOf(n) \in Machine =>
            machine'[MachineOf(n)] = machine[MachineOf(n)] /\ pending'[MachineOf(n)] = pending[MachineOf(n)]
  PROVE  LastFollowed(n)'
BY DEF LastFollowed, SameCmd, Follows, Succeeded

\* A step of one command keeps the invariant: for its own node it advances the
\* last command or finds it over, and other nodes are other machines.
LEMMA AdvanceKeeps ==
  ASSUME OwnMachines, DoneInv, PlaceInv', NEW c \in Command, Advances(c)
  PROVE  DoneInv'
<1>1. /\ cmd \in [Command -> CmdType] /\ machine \in [Machine -> MachineType]
      /\ last \in [Node -> Command \union {NoCommand}]
  BY TypeParts DEF DoneInv, PlaceInv, TypeOK
<1>2. cmd[c].node \in Node
  BY <1>1 DEF CmdType
<1>3. \A d \in Command : OnItsWay(d)'
  BY DEF DoneInv, Advances, SameCmd, OnItsWay
<1>4. QuietVms'
  <2> SUFFICES ASSUME NEW n \in Node, Mgt[n] = "kvm", MachineOf(n) \in Machine
               PROVE  pending'[MachineOf(n)] = "none"
    BY DEF QuietVms
  <2>1. pending[MachineOf(n)] = "none" /\ MachineOf(n) # NoMachine
    BY PowerAssumption DEF DoneInv, QuietVms, PowerAssumption
  <2>2. CASE n = cmd[c].node
    BY <2>1, <2>2 DEF Advances
  <2>3. CASE n # cmd[c].node
    <3>1. MachineOf(n) # MachineOf(cmd[c].node)
      BY <1>2, <2>1, <2>3 DEF OwnMachines
    <3> QED BY <2>1, <3>1 DEF Advances
  <2> QED BY <2>2, <2>3
<1>5. ASSUME NEW n \in Node PROVE LastFollowed(n)'
  <2>1. LastFollowed(n)
    BY DEF DoneInv
  <2>2. last'[n] = last[n] /\ last[n] \in Command \union {NoCommand} /\ disturbed' = disturbed
    BY <1>1 DEF Advances
  <2>3. \A d \in Command : /\ cmd'[d].node = cmd[d].node /\ cmd'[d].op = cmd[d].op
                           /\ cmd[d].step \in {"idle", "end"} => cmd'[d].step \in {"idle", "end"}
    BY DEF Advances, SameCmd
  <2>4. CASE last[n] = c
    <3>1. NoCommand # c
      BY PowerAssumption DEF PowerAssumption
    <3>2. /\ cmd[c].node = n /\ cmd[c].op \in Exclusive
          /\ n \notin disturbed =>
              /\ \A d \in Command \ {c} :
                    cmd[d].node = n /\ cmd[d].op \in Exclusive => cmd[d].step \in {"idle", "end"}
              /\ Succeeded(cmd[c]) => MachineOf(n) \in Machine
              /\ MachineOf(n) \in Machine => Follows(cmd[c], machine[MachineOf(n)], pending[MachineOf(n)])
      BY <2>1, <2>4, <3>1 DEF LastFollowed
    <3>3. /\ cmd'[c].step # "idle"
          /\ Succeeded(cmd'[c]) => MachineOf(n) \in Machine \/ Succeeded(cmd[c])
          /\ MachineOf(n) \in Machine /\ Follows(cmd[c], machine[MachineOf(n)], pending[MachineOf(n)]) =>
               Follows(cmd'[c], machine'[MachineOf(n)], pending'[MachineOf(n)])
      BY <3>2 DEF Advances
    <3> QED BY <2>2, <2>3, <2>4, <3>2, <3>3 DEF LastFollowed
  <2>5. CASE last[n] # c
    <3>1. last[n] # NoCommand => SameCmd(last[n])
      BY <2>2, <2>5 DEF Advances
    <3>2. ASSUME last[n] # NoCommand, n \notin disturbed, MachineOf(n) \in Machine
          PROVE  machine'[MachineOf(n)] = machine[MachineOf(n)] /\ pending'[MachineOf(n)] = pending[MachineOf(n)]
      <4>1. CASE n = cmd[c].node
        <5>1. cmd[c].op \in Exclusive => cmd[c].step \in {"idle", "end"}
          BY <2>1, <2>5, <3>2, <4>1 DEF LastFollowed
        <5>2. cmd[c].op \notin Exclusive \/ cmd[c].step = "end"
          BY <5>1 DEF Advances
        <5> QED BY <3>2, <5>2 DEF Advances
      <4>2. CASE n # cmd[c].node
        <5>1. MachineOf(n) # MachineOf(cmd[c].node)
          BY <1>2, <3>2, <4>2, PowerAssumption DEF OwnMachines, PowerAssumption
        <5> QED BY <3>2, <5>1 DEF Advances
      <4> QED BY <4>1, <4>2
    <3>3. CASE last[n] = NoCommand
      BY <2>2, <3>3 DEF LastFollowed
    <3>4. CASE last[n] # NoCommand
      BY <2>1, <2>2, <2>3, <3>1, <3>2, <3>4, Bystander
    <3> QED BY <3>3, <3>4
  <2> QED BY <2>4, <2>5
<1> QED BY <1>3, <1>4, <1>5 DEF DoneInv

\* A greenthread that ends, and leaves the machines alone.
LEMMA EndsAdvances ==
  ASSUME DoneInv, NEW c \in Command, cmd[c].step \notin {"idle", "end"}, NEW o \in Answers, Ends(c, o),
         UNCHANGED <<machine, pending, last, disturbed>>,
         o = "ok" =>
            LET m == MachineOf(cmd[c].node)
            IN  m \in Machine /\ (Follows(cmd[c], machine[m], pending[m]) =>
                                   Follows(cmd'[c], machine[m], pending[m]))
  PROVE  Advances(c)
<1>1. cmd \in [Command -> CmdType]
  BY TypeParts DEF DoneInv, PlaceInv
<1>2. /\ cmd'[c].step = "end" /\ cmd'[c].outcome = o
      /\ cmd'[c].node = cmd[c].node /\ cmd'[c].op = cmd[c].op
      /\ cmd'[c].reply = cmd[c].reply /\ cmd'[c].dev = cmd[c].dev /\ cmd'[c].due = cmd[c].due
      /\ \A d \in Command : d # c => cmd'[d] = cmd[d]
  BY <1>1, EndsEffect
<1>3. OnItsWay(c) /\ cmd[c].reply # "ok"
  BY DEF DoneInv, OnItsWay
<1>4. OnItsWay(c)'
  BY <1>2, <1>3 DEF OnItsWay
<1>5. \A d \in Command \ {c} : SameCmd(d)
  BY <1>2 DEF SameCmd
<1>6. Succeeded(cmd'[c]) => o = "ok"
  BY <1>2, <1>3 DEF Succeeded
<1>7. ASSUME NEW v, NEW p, ~ Succeeded(cmd'[c]) PROVE Follows(cmd'[c], v, p)
  BY <1>2, <1>7 DEF Follows
<1> QED BY <1>2, <1>4, <1>5, <1>6, <1>7 DEF Advances

\* A greenthread that goes on to another step with nothing done.
LEMMA ProceedAdvances ==
  ASSUME DoneInv, NEW c \in Command, cmd[c].step \notin {"idle", "end", "check"},
         NEW s \in Steps \ {"idle", "end", "check"}, Proceed(c, s),
         UNCHANGED <<machine, pending, last, disturbed>>,
         LET op == cmd[c].op
         IN  /\ s = "status" => op \in {"on", "boot", "get"}
             /\ s \in {"offstatus", "stop", "offcheck"} => op \in Power
             /\ s = "start" => op \in {"on", "boot"}
             /\ s = "edit" => op = "setdev"
             /\ s = "read" => op = "getdev"
             /\ s \notin {"connect", "bmc"} => Mgt[cmd[c].node] = "kvm"
  PROVE  Advances(c)
<1>1. cmd \in [Command -> CmdType]
  BY TypeParts DEF DoneInv, PlaceInv
<1>2. /\ cmd'[c] = [cmd[c] EXCEPT !.step = s]
      /\ \A d \in Command : d # c => cmd'[d] = cmd[d]
  BY <1>1, ProceedEffect
<1>3. /\ cmd'[c].step = s /\ cmd'[c].node = cmd[c].node /\ cmd'[c].op = cmd[c].op
      /\ cmd'[c].reply = cmd[c].reply /\ cmd'[c].due = cmd[c].due /\ cmd'[c].outcome = cmd[c].outcome
      /\ cmd'[c].dev = cmd[c].dev
  BY <1>1, <1>2 DEF CmdType
<1>4. OnItsWay(c) /\ cmd[c].reply # "ok"
  BY DEF DoneInv, OnItsWay
<1>5. OnItsWay(c)'
  BY <1>3, <1>4 DEF OnItsWay
<1>6. \A d \in Command \ {c} : SameCmd(d)
  BY <1>2 DEF SameCmd
<1>7. ~ Succeeded(cmd'[c])
  BY <1>3 DEF Succeeded
<1>8. ASSUME NEW v, NEW p, Follows(cmd[c], v, p) PROVE Follows(cmd'[c], v, p)
  BY <1>3, <1>7, <1>8 DEF Follows
<1> QED BY <1>3, <1>5, <1>6, <1>7, <1>8 DEF Advances

\* A plugin's machine is stopped or started by an exclusive command.
LEMMA BecomesAdvances ==
  ASSUME DoneInv, NEW c \in Command, cmd[c].step \in {"stop", "start"},
         NEW s \in {"offcheck", "check"}, NEW v \in MachineType,
         NEW events \in SUBSET {"on", "off", "start"},
         Becomes(Target(c), v, events, c, s),
         UNCHANGED <<pending, last, disturbed>>,
         IF s = "offcheck" THEN v.next = machine[Target(c)].next
         ELSE /\ cmd[c].step = "start"
              /\ machine[Target(c)].next # NoDevice => v.booted = machine[Target(c)].next
  PROVE  Advances(c)
<1> DEFINE m == MachineOf(cmd[c].node)
<1>1. cmd \in [Command -> CmdType] /\ machine \in [Machine -> MachineType]
  BY TypeParts DEF DoneInv, PlaceInv
<1>2. m \in Machine /\ Target(c) = m /\ s \in Steps
  BY DEF DoneInv, PlaceInv, Placed, Target, Steps, SshSteps
<1>3. /\ machine'[m] = v /\ \A k \in Machine : k # m => machine'[k] = machine[k]
      /\ \A d \in Command : Sees(d, m, events, c, s)
  <2>1. Becomes(m, v, events, c, s)
    BY <1>2
  <2> HIDE DEF m
  <2> QED BY <1>1, <1>2, <2>1, BecomesEffect
<1>4. /\ cmd'[c].step = s /\ cmd'[c].node = cmd[c].node /\ cmd'[c].op = cmd[c].op
      /\ cmd'[c].reply = cmd[c].reply /\ cmd'[c].due = cmd[c].due
  BY <1>3 DEF Sees
<1>5. OnItsWay(c) /\ cmd[c].reply # "ok"
  BY DEF DoneInv, OnItsWay
<1>6. OnItsWay(c)'
  BY <1>4, <1>5 DEF OnItsWay, Power
<1>7. \A d \in Command \ {c} : SameCmd(d)
  BY <1>3 DEF Sees, SameCmd
<1>8. ~ Succeeded(cmd'[c]) /\ cmd[c].op \in Exclusive
  BY <1>4, <1>5 DEF Succeeded, OnItsWay, Exclusive, Power
<1>9. ASSUME Follows(cmd[c], machine[m], pending[m]) PROVE Follows(cmd'[c], v, pending[m])
  <2>1. pending[m] = "none" /\ (cmd[c].due # NoDevice => machine[m].next = cmd[c].due)
    BY <1>9 DEF Follows
  <2> QED BY <1>2, <1>4, <1>8, <2>1 DEF Follows
<1> QED BY <1>2, <1>3, <1>4, <1>6, <1>7, <1>8, <1>9 DEF Advances

\* Each step of a greenthread advances it.
LEMMA StepAdvances ==
  ASSUME DoneInv, NEW c \in Command,
         \/ Connect(c) \/ Fails(c) \/ GetPowerStatus(c) \/ PowerOff(c) \/ Stop(c) \/ Start(c)
         \/ CheckStarted(c) \/ SetBootDevice(c) \/ GetBootDevice(c)
         \/ BmcGet(c) \/ BmcSet(c) \/ BmcSetBootDevice(c) \/ BmcGetBootDevice(c)
  PROVE  Advances(c)
<1> DEFINE m == MachineOf(cmd[c].node)
<1>1. /\ cmd[c] \in CmdType /\ cmd \in [Command -> CmdType] /\ machine \in [Machine -> MachineType]
      /\ pending \in [Machine -> {"none"} \union Power]
  BY TypeParts DEF DoneInv, PlaceInv, TypeOK
<1>2. OnItsWay(c) /\ Placed(c)
  BY DEF DoneInv, PlaceInv
<1>3. cmd[c].node \in Node /\ cmd[c].op \in Exclusive \union Shared /\ cmd[c].dev \in Device \union {NoDevice}
  BY <1>1 DEF CmdType
<1>4. cmd[c].step \notin {"idle", "connect", "end"} => m \in Machine /\ Target(c) = m
  BY <1>2 DEF Placed, Target
<1> USE DEF At
\* It ends without success.
<1>5. ASSUME cmd[c].step \notin {"idle", "end"}, NEW o \in Answers, o # "ok", Ends(c, o),
             UNCHANGED <<machine, pending, outside, holder, last, disturbed>>
      PROVE  Advances(c)
  BY <1>5, EndsAdvances
<1>6. CASE Connect(c)
  <2> DEFINE n == cmd[c].node
             ready == Valid(n) /\ (Mgt[n] = "kvm" => HostsName(n) # NoMachine)
             s == FirstStep(n, cmd[c].op)
  <2>1. CASE ready
    <3>1. Proceed(c, s) /\ cmd[c].step = "connect" /\ UNCHANGED <<machine, pending, last, disturbed>>
      BY <1>6, <2>1 DEF Connect
    <3>2. Mgt[n] \in {"kvm", "ipmi"}
      BY <2>1 DEF Valid
    <3>3. /\ s \in Steps \ {"idle", "end", "check"}
          /\ s = "status" => cmd[c].op \in {"on", "boot", "get"}
          /\ s \in {"offstatus", "stop", "offcheck"} => cmd[c].op \in Power
          /\ s = "start" => cmd[c].op \in {"on", "boot"}
          /\ s = "edit" => cmd[c].op = "setdev"
          /\ s = "read" => cmd[c].op = "getdev"
          /\ s \notin {"connect", "bmc"} => Mgt[n] = "kvm"
      BY <1>3, <3>2 DEF FirstStep, PowerStep, DeviceStep, Steps, SshSteps, Exclusive, Shared, Power
    <3> HIDE DEF s
    <3> QED BY <3>1, <3>3, ProceedAdvances
  <2>2. CASE ~ready
    <3>1. Ends(c, "failed") /\ cmd[c].step = "connect"
      BY <1>6, <2>2 DEF Connect
    <3> QED BY <1>5, <1>6, <3>1 DEF Connect, Answers
  <2> QED BY <2>1, <2>2
<1>7. CASE Fails(c)
  BY <1>5, <1>7 DEF Fails, Answers
<1>8. CASE GetPowerStatus(c)
  <2>1. CASE cmd[c].op = "get"
    <3>1. Seen(IsOn(c)) \in Answers /\ Seen(IsOn(c)) # "ok"
      BY DEF Seen, Answers
    <3> QED BY <1>5, <1>8, <2>1, <3>1 DEF GetPowerStatus
  <2>2. CASE cmd[c].op # "get"
    <3>1. PICK s \in {"offstatus", "start"} : Proceed(c, s)
      BY <1>8, <2>2 DEF GetPowerStatus
    <3>2. s \in Steps \ {"idle", "end", "check"}
      BY DEF Steps, SshSteps
    <3>3. cmd[c].step = "status" /\ UNCHANGED <<machine, pending, last, disturbed>>
      BY <1>8 DEF GetPowerStatus
    <3>4. cmd[c].op \in {"on", "boot"} /\ cmd[c].op \in Power /\ Mgt[cmd[c].node] = "kvm"
      BY <1>2, <2>2, <3>3 DEF OnItsWay, Power
    <3> QED BY <3>1, <3>2, <3>3, <3>4, ProceedAdvances
  <2> QED BY <2>1, <2>2
<1>9. CASE PowerOff(c)
  <2>1. /\ cmd[c].step \in {"offstatus", "offcheck"}
        /\ UNCHANGED <<machine, pending, outside, holder, last, disturbed>>
    BY <1>9 DEF PowerOff
  <2>2. cmd[c].op \in Power /\ Mgt[cmd[c].node] = "kvm" /\ m \in Machine /\ Target(c) = m
    BY <1>2, <1>4, <2>1 DEF OnItsWay
  <2>3. \/ Proceed(c, "stop")
        \/ cmd[c].op # "off" /\ Proceed(c, "start")
        \/ cmd[c].op = "off" /\ ~ IsOn(c) /\ Ends(c, "ok")
        \/ Ends(c, "failed")
    BY <1>9 DEF PowerOff
  <2>4. CASE Proceed(c, "stop")
    <3>1. "stop" \in Steps \ {"idle", "end", "check"}
      BY DEF Steps, SshSteps
    <3> QED BY <2>1, <2>2, <2>4, <3>1, ProceedAdvances
  <2>5. CASE cmd[c].op # "off" /\ Proceed(c, "start")
    <3>1. "start" \in Steps \ {"idle", "end", "check"} /\ cmd[c].op \in {"on", "boot"}
      BY <2>2, <2>5 DEF Steps, SshSteps, Power
    <3> QED BY <2>1, <2>2, <2>5, <3>1, ProceedAdvances
  <2>6. CASE cmd[c].op = "off" /\ ~ IsOn(c) /\ Ends(c, "ok")
    <3>1. ~ machine[m].on
      BY <2>2, <2>6 DEF IsOn
    <3>2. cmd'[c].op = "off" /\ cmd'[c].step = "end"
      BY <1>1, <2>6, EndsEffect DEF Answers
    <3>3. ASSUME Follows(cmd[c], machine[m], pending[m]) PROVE Follows(cmd'[c], machine[m], pending[m])
      <4>1. pending[m] = "none"
        BY <2>1, <3>3 DEF Follows
      <4> QED BY <3>1, <3>2, <4>1 DEF Follows
    <3> QED BY <2>1, <2>2, <2>6, <3>3, EndsAdvances DEF Answers
  <2>7. CASE Ends(c, "failed")
    BY <1>5, <2>1, <2>7 DEF Answers
  <2> QED BY <2>3, <2>4, <2>5, <2>6, <2>7
<1>10. CASE Stop(c)
  <2>1. cmd[c].step = "stop" /\ UNCHANGED <<pending, outside, holder, last, disturbed>> /\ m \in Machine /\ Target(c) = m
    BY <1>4, <1>10 DEF Stop
  <2>2. CASE IsOn(c)
    <3>1. Becomes(Target(c), Off(Target(c)), {"off"}, c, "offcheck")
      BY <1>10, <2>2 DEF Stop
    <3>2. Off(Target(c)) \in MachineType /\ Off(Target(c)).next = machine[Target(c)].next
      BY <1>1, <2>1 DEF Off, MachineType
    <3>3. {"off"} \in SUBSET {"on", "off", "start"}
      OBVIOUS
    <3> QED BY <2>1, <3>1, <3>2, <3>3, BecomesAdvances
  <2>3. CASE ~ IsOn(c)
    BY <1>5, <1>10, <2>1, <2>3 DEF Stop, Answers
  <2> QED BY <2>2, <2>3
<1>11. CASE Start(c)
  <2>1. cmd[c].step = "start" /\ UNCHANGED <<pending, outside, holder, last, disturbed>> /\ m \in Machine /\ Target(c) = m
    BY <1>4, <1>11 DEF Start
  <2>2. CASE ~ IsOn(c)
    <3>1. Becomes(Target(c), Started(Target(c), FALSE), {"on", "start"}, c, "check")
      BY <1>11, <2>2 DEF Start
    <3>2. /\ Started(Target(c), FALSE) \in MachineType
          /\ machine[Target(c)].next # NoDevice =>
                Started(Target(c), FALSE).booted = machine[Target(c)].next
      BY <1>1, <2>1, PowerAssumption DEF Started, MachineType, PowerAssumption
    <3>3. {"on", "start"} \in SUBSET {"on", "off", "start"}
      OBVIOUS
    <3> QED BY <2>1, <3>1, <3>2, <3>3, BecomesAdvances
  <2>3. CASE IsOn(c)
    BY <1>5, <1>11, <2>1, <2>3 DEF Start, Answers
  <2> QED BY <2>2, <2>3
<1>12. CASE CheckStarted(c)
  <2>1. /\ cmd[c].step = "check" /\ UNCHANGED <<machine, pending, outside, holder, last, disturbed>>
        /\ m \in Machine /\ Target(c) = m
    BY <1>4, <1>12 DEF CheckStarted
  <2>2. CASE IsOn(c)
    <3>1. Ends(c, "ok") /\ machine[m].on
      BY <1>12, <2>1, <2>2 DEF CheckStarted, IsOn
    <3>2. cmd'[c].op = cmd[c].op /\ cmd'[c].step = "end" /\ cmd'[c].due = cmd[c].due
      BY <1>1, <3>1, EndsEffect DEF Answers
    <3>3. ASSUME Follows(cmd[c], machine[m], pending[m]) PROVE Follows(cmd'[c], machine[m], pending[m])
      <4>1. pending[m] = "none" /\ (cmd[c].due # NoDevice => machine[m].booted = cmd[c].due)
        BY <2>1, <3>3 DEF Follows
      <4>2. cmd[c].op \in {"on", "boot"}
        BY <1>2, <2>1 DEF OnItsWay
      <4> QED BY <3>1, <3>2, <4>1, <4>2 DEF Follows
    <3> QED BY <2>1, <3>1, <3>3, EndsAdvances DEF Answers
  <2>3. CASE ~ IsOn(c)
    BY <1>5, <1>12, <2>1, <2>3 DEF CheckStarted, Answers
  <2> QED BY <2>2, <2>3
<1>13. CASE SetBootDevice(c) \/ BmcSetBootDevice(c)
  <2>1. /\ cmd[c].step \in {"edit", "bmc"} /\ cmd[c].op = "setdev" /\ Ends(c, "ok")
        /\ machine' = [machine EXCEPT ![Target(c)].next = cmd[c].dev]
        /\ UNCHANGED <<pending, last, disturbed>>
    BY <1>2, <1>13 DEF SetBootDevice, BmcSetBootDevice, AtBmc, OnItsWay
  <2>2. m \in Machine /\ Target(c) = m
    BY <1>4, <2>1
  <2>3. /\ cmd'[c].step = "end" /\ cmd'[c].node = cmd[c].node /\ cmd'[c].op = cmd[c].op
        /\ cmd'[c].dev = cmd[c].dev /\ cmd'[c].reply = cmd[c].reply
        /\ \A d \in Command : d # c => cmd'[d] = cmd[d]
    BY <1>1, <2>1, EndsEffect DEF Answers
  <2>4. machine'[m].next = cmd[c].dev /\ \A k \in Machine : k # m => machine'[k] = machine[k]
    BY <1>1, <2>1, <2>2 DEF MachineType
  <2>5. ASSUME Follows(cmd[c], machine[m], pending[m]) PROVE Follows(cmd'[c], machine'[m], pending'[m])
    <3>1. pending[m] = "none" /\ pending'[m] = "none"
      BY <2>1, <2>5 DEF Follows
    <3> QED BY <2>1, <2>3, <2>4, <3>1 DEF Follows
  <2>6. OnItsWay(c)' /\ \A d \in Command \ {c} : SameCmd(d)
    BY <1>2, <2>1, <2>3 DEF OnItsWay, SameCmd
  <2>7. cmd[c].op \in Exclusive
    BY <2>1 DEF Exclusive
  <2> QED BY <2>1, <2>2, <2>3, <2>4, <2>5, <2>6, <2>7 DEF Advances
<1>14. CASE GetBootDevice(c) \/ BmcGetBootDevice(c)
  <2>1. /\ cmd[c].step \in {"read", "bmc"} /\ cmd[c].op = "getdev"
        /\ UNCHANGED <<machine, pending, last, disturbed>>
    BY <1>2, <1>14 DEF GetBootDevice, BmcGetBootDevice, AtBmc, OnItsWay
  <2>2. m \in Machine /\ Target(c) = m
    BY <1>4, <2>1
  <2>3. machine[m].booted \in Device /\ machine[m].next \in Device \union {NoDevice}
    BY <1>1, <2>2 DEF MachineType
  <2>4. \E o \in Device \union {"failed"} : Ends(c, o)
    BY <1>14, <2>2, <2>3, PowerAssumption DEF GetBootDevice, BmcGetBootDevice, PowerAssumption
  <2>5. PICK o \in Answers : Ends(c, o)
    BY <2>4 DEF Answers
  <2>6. cmd'[c].op = "getdev" /\ cmd'[c].step = "end"
    BY <1>1, <2>1, <2>5, EndsEffect
  <2>7. Follows(cmd'[c], machine[m], pending[m])
    BY <2>6 DEF Follows
  <2>8. cmd[c].step \notin {"idle", "end"}
    BY <2>1
  <2> QED BY <2>1, <2>2, <2>5, <2>7, <2>8, EndsAdvances
<1>15. CASE BmcGet(c)
  <2>1. Seen(IsOn(c)) \in Answers /\ Seen(IsOn(c)) # "ok"
    BY DEF Seen, Answers
  <2>2. Ends(c, Seen(IsOn(c))) /\ cmd[c].step = "bmc"
    BY <1>15 DEF BmcGet, AtBmc
  <2> QED BY <1>5, <1>15, <2>1, <2>2 DEF BmcGet
<1>16. CASE BmcSet(c)
  <2>1. /\ cmd[c].step = "bmc" /\ cmd[c].op \in Power /\ Ends(c, "ok")
        /\ pending' = [pending EXCEPT ![Target(c)] = Accepted(c)]
        /\ UNCHANGED <<machine, last, disturbed>>
    BY <1>16 DEF BmcSet, AtBmc
  <2>2. m \in Machine /\ Target(c) = m /\ Mgt[cmd[c].node] # "kvm"
    BY <1>2, <1>4, <2>1 DEF Placed
  <2>3. /\ cmd'[c].step = "end" /\ cmd'[c].node = cmd[c].node /\ cmd'[c].op = cmd[c].op
        /\ cmd'[c].due = cmd[c].due /\ cmd'[c].reply = cmd[c].reply
        /\ \A d \in Command : d # c => cmd'[d] = cmd[d]
    BY <1>1, <2>1, EndsEffect DEF Answers
  <2>4. pending'[m] = Accepted(c) /\ \A k \in Machine : k # m => pending'[k] = pending[k]
    BY <1>1, <2>1, <2>2
  <2>5. ASSUME Follows(cmd[c], machine[m], pending[m]) PROVE Follows(cmd'[c], machine'[m], pending'[m])
    <3>1. pending[m] = "none" /\ (cmd[c].due # NoDevice => machine[m].next = cmd[c].due)
      BY <2>1, <2>5 DEF Follows
    <3>2. machine'[m] = machine[m] /\ IsOn(c) = machine[m].on /\ machine[m].on \in BOOLEAN
      BY <1>1, <2>1, <2>2 DEF IsOn, MachineType
    <3>3. CASE cmd[c].op = "on"
      <4>1. pending'[m] = IF machine[m].on THEN "none" ELSE "on"
        BY <2>2, <2>4, <3>1, <3>2, <3>3 DEF Accepted
      <4> QED BY <2>2, <2>3, <3>2, <3>3, <4>1 DEF Follows
    <3>4. CASE cmd[c].op = "off"
      <4>1. pending'[m] = IF machine[m].on THEN "off" ELSE "none"
        BY <2>2, <2>4, <3>1, <3>2, <3>4 DEF Accepted
      <4> QED BY <2>3, <3>2, <3>4, <4>1 DEF Follows
    <3>5. CASE cmd[c].op = "boot"
      <4>1. pending'[m] = IF machine[m].on THEN "boot" ELSE "on"
        BY <2>4, <3>2, <3>5 DEF Accepted, Rebooted
      <4> QED BY <2>3, <3>1, <3>2, <3>5, <4>1 DEF Follows
    <3> QED BY <2>1, <3>3, <3>4, <3>5 DEF Power
  <2>6. OnItsWay(c)' /\ \A d \in Command \ {c} : SameCmd(d)
    BY <1>2, <2>1, <2>3 DEF OnItsWay, SameCmd
  <2>7. cmd[c].op \in Exclusive
    BY <2>1 DEF Exclusive
  <2> QED BY <2>1, <2>2, <2>3, <2>4, <2>5, <2>6, <2>7 DEF Advances
<1> QED BY <1>6, <1>7, <1>8, <1>9, <1>10, <1>11, <1>12, <1>13, <1>14, <1>15, <1>16

\* A handler that answers advances its command.
LEMMA AnswerAdvances ==
  ASSUME DoneInv, NEW c \in Command, HandlerReturns(c) \/ HandlerTimesOut(c)
  PROVE  Advances(c)
<1>1. TypeOK /\ OnItsWay(c)
  BY DEF DoneInv, PlaceInv
<1>2. /\ cmd[c].step # "idle"
      /\ cmd'[c].node = cmd[c].node /\ cmd'[c].op = cmd[c].op /\ cmd'[c].step = cmd[c].step
      /\ cmd'[c].dev = cmd[c].dev /\ cmd'[c].due = cmd[c].due
      /\ \/ /\ HandlerReturns(c) /\ cmd[c].step = "end" /\ cmd'[c].outcome = "none"
            /\ cmd'[c].reply = cmd[c].outcome
         \/ HandlerTimesOut(c) /\ cmd'[c].reply = "timeout"
      /\ \A d \in Command : d # c => cmd'[d] = cmd[d]
  BY <1>1, AnswerEffect
<1>3. UNCHANGED <<machine, pending, last, disturbed>>
  BY DEF HandlerReturns, HandlerTimesOut
<1>4. HandlerReturns(c) => cmd[c].reply = "none"
  BY DEF HandlerReturns
<1>5. Succeeded(cmd'[c]) => Succeeded(cmd[c])
  BY <1>2, <1>4 DEF Succeeded
<1>6. OnItsWay(c)'
  BY <1>1, <1>2 DEF OnItsWay
<1>7. \A d \in Command \ {c} : SameCmd(d)
  BY <1>2 DEF SameCmd
<1>8. ASSUME NEW v, NEW p, Follows(cmd[c], v, p) PROVE Follows(cmd'[c], v, p)
  BY <1>2, <1>5, <1>8 DEF Follows
<1> QED BY <1>2, <1>3, <1>5, <1>6, <1>7, <1>8 DEF Advances

\* The device that a new command finds set is set on its machine.
LEMMA DueIsSet ==
  ASSUME DoneInv, NEW n \in Node, NEW m, m.node = n, DueDevice(m) # NoDevice
  PROVE  /\ MachineOf(n) \in Machine => machine[MachineOf(n)].next = DueDevice(m)
<1> DEFINE l == last[n]
<1>1. /\ l # NoCommand /\ n \notin disturbed /\ cmd[l].op = "setdev" /\ cmd[l].reply = "ok"
      /\ DueDevice(m) = cmd[l].dev
  BY DEF DueDevice
<1>2. LastFollowed(n) /\ OnItsWay(l)
  BY <1>1 DEF DoneInv, PlaceInv, TypeOK
<1>3. Succeeded(cmd[l])
  BY <1>1, <1>2 DEF OnItsWay, Succeeded
<1> QED BY <1>1, <1>2, <1>3 DEF LastFollowed, Follows

\* A new command.
LEMMA ReceiveKeeps ==
  ASSUME DoneInv, PlaceInv', NEW c \in Command, NEW m \in Menu, Receive(c, m)
  PROVE  DoneInv'
<1> DEFINE k == m.node
<1>1. TypeOK /\ cmd \in [Command -> CmdType] /\ last \in [Node -> Command \union {NoCommand}]
      /\ disturbed \subseteq Node
  BY TypeParts DEF DoneInv, PlaceInv, TypeOK
<1>2. /\ k \in Node /\ cmd[c].step = "idle"
      /\ cmd'[c].node = k /\ cmd'[c].op = m.op
      /\ cmd'[c].step = "connect" /\ cmd'[c].reply = "none" /\ cmd'[c].due = DueDevice(m)
      /\ \A d \in Command : d # c => cmd'[d] = cmd[d]
  BY <1>1, ReceiveEffect
<1>3. machine' = machine /\ pending' = pending /\ cmd[c].node = k
  BY DEF Receive
<1>4. QuietVms' /\ \A d \in Command : OnItsWay(d)'
  BY <1>2, <1>3 DEF DoneInv, QuietVms, OnItsWay
<1>5. \/ /\ m.op \in Exclusive
         /\ last' = [last EXCEPT ![k] = c]
         /\ disturbed' = IF \/ \E d \in Working(k) : cmd[d].op \in Exclusive
                            \/ \E at \in Machine : MachineOf(k) = at /\ pending[at] # "none"
                         THEN disturbed \union {k} ELSE disturbed \ {k}
      \/ m.op \notin Exclusive /\ last' = last /\ disturbed' = disturbed
  BY DEF Receive
<1>6. ASSUME NEW n \in Node PROVE LastFollowed(n)'
  <2>1. LastFollowed(n)
    BY DEF DoneInv
  <2>2. CASE n = k /\ m.op \in Exclusive
    <3>1. last'[n] = c /\ c # NoCommand
      BY <1>1, <1>5, <2>2, PowerAssumption DEF PowerAssumption
    <3>2. cmd'[c].node = n /\ cmd'[c].op \in Exclusive /\ cmd'[c].step # "idle"
      BY <1>2, <2>2
    <3>3. ~ Succeeded(cmd'[c])
      BY <1>2 DEF Succeeded
    <3>4. ASSUME n \notin disturbed'
          PROVE  /\ \A d \in Working(n) : cmd[d].op \notin Exclusive
                 /\ MachineOf(n) \in Machine => pending[MachineOf(n)] = "none"
      BY <1>5, <2>2, <3>4
    <3>5. ASSUME n \notin disturbed', NEW d \in Command \ {c}, cmd'[d].node = n, cmd'[d].op \in Exclusive
          PROVE  cmd'[d].step \in {"idle", "end"}
      BY <1>2, <3>4, <3>5 DEF Working
    <3>6. ASSUME n \notin disturbed', MachineOf(n) \in Machine
          PROVE  Follows(cmd'[c], machine[MachineOf(n)], pending[MachineOf(n)])
      <4>1. DueDevice(m) # NoDevice => machine[MachineOf(n)].next = DueDevice(m)
        BY <2>2, <3>6, DueIsSet
      <4> QED BY <1>2, <3>3, <3>4, <3>6, <4>1 DEF Follows
    <3> QED BY <1>3, <3>1, <3>2, <3>3, <3>5, <3>6 DEF LastFollowed
  <2>3. CASE n # k \/ m.op \notin Exclusive
    <3>1. last'[n] = last[n] /\ (n \notin disturbed' => n \notin disturbed)
      BY <1>1, <1>2, <1>5, <2>3
    <3>2. last[n] # NoCommand => last[n] \in Command \ {c}
      BY <1>1, <1>2, <2>1 DEF LastFollowed
    <3>3. last[n] # NoCommand => cmd'[last[n]] = cmd[last[n]]
      BY <1>2, <3>2
    <3>4. \A d \in Command : cmd'[d].node = n /\ cmd'[d].op \in Exclusive => cmd'[d] = cmd[d]
      BY <1>2, <2>3
    <3> QED BY <1>3, <2>1, <3>1, <3>3, <3>4 DEF LastFollowed
  <2> QED BY <2>2, <2>3
<1> QED BY <1>4, <1>6 DEF DoneInv

\* The commands go on as before while a machine m becomes what none of them
\* makes of it.
Moves(m) ==
    /\ \A d \in Command : SameCmd(d)
    /\ \A k \in Machine : k # m => machine'[k] = machine[k]

\* What Becomes does when no command is at work.
LEMMA BecomesMoves ==
  ASSUME DoneInv, NEW m \in Machine, NEW r \in MachineType,
         NEW events \in SUBSET {"on", "off", "start"}, Becomes(m, r, events, NoCommand, "end")
  PROVE  Moves(m) /\ machine'[m] = r
<1>1. cmd \in [Command -> CmdType] /\ machine \in [Machine -> MachineType]
  BY TypeParts DEF DoneInv, PlaceInv
<1>2. "end" \in Steps /\ NoCommand \notin Command
  BY PowerAssumption DEF Steps, PowerAssumption
<1>3. /\ machine'[m] = r /\ \A k \in Machine : k # m => machine'[k] = machine[k]
      /\ \A d \in Command : Sees(d, m, events, NoCommand, "end")
  BY <1>1, <1>2, BecomesEffect
<1> QED BY <1>2, <1>3 DEF Sees, SameCmd, Moves

\* The states that a machine that stops or starts gets into.
LEMMA MachinesMay ==
  ASSUME DoneInv, NEW m \in Machine
  PROVE  /\ Off(m) \in MachineType /\ ~ Off(m).on
         /\ \A once \in BOOLEAN :
              /\ Started(m, once) \in MachineType /\ Started(m, once).on
              /\ machine[m].next # NoDevice => Started(m, once).booted = machine[m].next
         /\ {"off"} \in SUBSET {"on", "off", "start"} /\ {"on", "start"} \in SUBSET {"on", "off", "start"}
<1>1. machine[m] \in MachineType
  BY TypeParts DEF DoneInv, PlaceInv
<1>2. Off(m) \in MachineType /\ ~ Off(m).on
  BY <1>1 DEF Off, MachineType
<1>3. ASSUME NEW once \in BOOLEAN
      PROVE  /\ Started(m, once) \in MachineType /\ Started(m, once).on
             /\ machine[m].next # NoDevice => Started(m, once).booted = machine[m].next
  BY <1>1, PowerAssumption DEF Started, MachineType, PowerAssumption
<1> QED BY <1>2, <1>3

\* A machine whose BMC has done what it accepted follows its last command.
LEMMA SettleFollows ==
  ASSUME DoneInv, NEW m \in Machine, Settle(m), NEW l \in Command, NEW n \in Node,
         MachineOf(n) = m, cmd[l].node = n, cmd[l].op \in Exclusive,
         SameCmd(l), Follows(cmd[l], machine[m], pending[m])
  PROVE  Follows(cmd'[l], machine'[m], "none")
<1> DEFINE r == cmd[l]
           v == machine[m]
<1>1. pending[m] # "none" /\ Mgt[n] # "kvm"
  BY DEF Settle, DoneInv, QuietVms
<1>2. r.step = "end" /\ cmd'[l].step = "end" /\ (Succeeded(cmd'[l]) => Succeeded(r))
  BY <1>1 DEF Follows, SameCmd, Succeeded
<1>3. cmd'[l].op = r.op /\ cmd'[l].due = r.due /\ cmd'[l].dev = r.dev /\ cmd'[l].node = n
  BY DEF SameCmd
<1>4. /\ pending[m] = "off" => ~ machine'[m].on
      /\ pending[m] = "on" /\ v.on => machine'[m] = v
      /\ pending[m] # "off" /\ ~ (pending[m] = "on" /\ v.on) =>
            machine'[m].on /\ (v.next # NoDevice => machine'[m].booted = v.next)
  <2>1. CASE pending[m] = "off"
    <3>1. Becomes(m, Off(m), {"off"}, NoCommand, "end")
      BY <2>1 DEF Settle
    <3> QED BY <2>1, <3>1, BecomesMoves, MachinesMay
  <2>2. CASE pending[m] = "on" /\ v.on
    BY <2>2 DEF Settle
  <2>3. CASE pending[m] # "off" /\ ~ (pending[m] = "on" /\ v.on)
    <3>1. Becomes(m, Started(m, TRUE), {"on", "start"}, NoCommand, "end")
      BY <2>3 DEF Settle
    <3> QED BY <2>3, <3>1, BecomesMoves, MachinesMay
  <2> QED BY <2>1, <2>2, <2>3
<1>5. CASE ~ Succeeded(r)
  BY <1>2, <1>5 DEF Follows
<1>6. CASE Succeeded(r)
  <2>1. CASE r.op = "setdev"
    BY <1>1, <1>6, <2>1 DEF Follows
  <2>2. CASE r.op = "off"
    BY <1>1, <1>2, <1>3, <1>4, <1>6, <2>2 DEF Follows
  <2>3. CASE r.op = "on"
    <3>1. pending[m] = "on"
      BY <1>1, <1>6, <2>3 DEF Follows
    <3>2. machine'[m].on
      BY <1>4, <3>1
    <3> QED BY <1>1, <1>2, <1>3, <2>3, <3>2 DEF Follows
  <2>4. CASE r.op = "boot"
    <3>1. /\ r.due # NoDevice => v.next = r.due
          /\ pending[m] = "boot" \/ (pending[m] = "on" /\ ~ v.on)
      BY <1>1, <1>6, <2>4 DEF Follows
    <3>2. machine'[m].on /\ (r.due # NoDevice => machine'[m].booted = r.due)
      BY <1>4, <3>1
    <3> QED BY <1>2, <1>3, <2>4, <3>2 DEF Follows
  <2> QED BY <2>1, <2>2, <2>3, <2>4 DEF Exclusive, Power
<1> QED BY <1>5, <1>6

\* A BMC that does what it accepted keeps the invariant.
LEMMA SettleKeeps ==
  ASSUME DoneInv, PlaceInv', NEW m \in Machine, Settle(m)
  PROVE  DoneInv'
<1>1. /\ last' = last /\ disturbed' = disturbed /\ pending'[m] = "none"
      /\ \A k \in Machine : k # m => pending'[k] = pending[k]
      /\ last \in [Node -> Command \union {NoCommand}]
  BY DEF Settle, DoneInv, PlaceInv, TypeOK
<1>2. Moves(m)
  <2>1. CASE UNCHANGED <<machine, cmd>>
    BY <2>1 DEF Moves, SameCmd
  <2>2. CASE Becomes(m, Off(m), {"off"}, NoCommand, "end")
    BY <2>2, BecomesMoves, MachinesMay
  <2>3. CASE Becomes(m, Started(m, TRUE), {"on", "start"}, NoCommand, "end")
    BY <2>3, BecomesMoves, MachinesMay
  <2> QED BY <2>1, <2>2, <2>3 DEF Settle
<1>3. QuietVms' /\ \A d \in Command : OnItsWay(d)'
  <2>1. QuietVms'
    BY <1>1 DEF DoneInv, QuietVms
  <2>2. \A d \in Command : OnItsWay(d)'
    BY <1>2 DEF DoneInv, Moves, SameCmd, OnItsWay
  <2> QED BY <2>1, <2>2
<1>4. ASSUME NEW n \in Node PROVE LastFollowed(n)'
  <2>1. LastFollowed(n)
    BY DEF DoneInv
  <2>2. CASE last[n] = NoCommand
    BY <1>1, <2>2 DEF LastFollowed
  <2>3. CASE last[n] # NoCommand /\ MachineOf(n) # m
    <3>1. last[n] \in Command /\ SameCmd(last[n])
      BY <1>1, <1>2, <2>3 DEF Moves
    <3>2. \A d \in Command : /\ cmd'[d].node = cmd[d].node /\ cmd'[d].op = cmd[d].op
                             /\ cmd[d].step \in {"idle", "end"} => cmd'[d].step \in {"idle", "end"}
      BY <1>2 DEF Moves, SameCmd
    <3>3. MachineOf(n) \in Machine =>
            machine'[MachineOf(n)] = machine[MachineOf(n)] /\ pending'[MachineOf(n)] = pending[MachineOf(n)]
      BY <1>1, <1>2, <2>3 DEF Moves
    <3> QED BY <1>1, <2>1, <3>1, <3>2, <3>3, Bystander
  <2>4. CASE last[n] # NoCommand /\ MachineOf(n) = m
    <3> DEFINE l == last[n]
    <3>1. l \in Command /\ SameCmd(l)
      BY <1>1, <1>2, <2>4 DEF Moves
    <3>2. /\ cmd[l].node = n /\ cmd[l].op \in Exclusive /\ cmd[l].step # "idle"
          /\ n \notin disturbed =>
              /\ \A d \in Command \ {l} :
                    cmd[d].node = n /\ cmd[d].op \in Exclusive => cmd[d].step \in {"idle", "end"}
              /\ Follows(cmd[l], machine[m], pending[m])
      BY <2>1, <2>4 DEF LastFollowed
    <3>3. n \notin disturbed => Follows(cmd'[l], machine'[m], "none")
      <4> HIDE DEF l
      <4> QED BY <2>4, <3>1, <3>2, SettleFollows
    <3>4. \A d \in Command \ {l} :
            cmd'[d].node = cmd[d].node /\ cmd'[d].op = cmd[d].op /\ cmd'[d].step = cmd[d].step
      BY <1>2 DEF Moves, SameCmd
    <3>5. cmd'[l].node = n /\ cmd'[l].op \in Exclusive /\ cmd'[l].step # "idle"
      BY <3>1, <3>2 DEF SameCmd
    <3> QED BY <1>1, <2>4, <3>2, <3>3, <3>4, <3>5 DEF LastFollowed
  <2> QED BY <2>2, <2>3, <2>4
<1> QED BY <1>3, <1>4 DEF DoneInv

\* A machine that changes by itself keeps the invariant: its nodes are disturbed.
LEMMA ByItselfKeeps ==
  ASSUME DoneInv, PlaceInv', NEW m \in Machine, ByItself(m)
  PROVE  DoneInv'
<1>1. /\ last' = last /\ pending' = pending
      /\ disturbed' = disturbed \union {n \in Node : MachineOf(n) = m}
      /\ last \in [Node -> Command \union {NoCommand}]
  BY DEF ByItself, DoneInv, PlaceInv, TypeOK
<1>2. Moves(m)
  <2>1. CASE Becomes(m, Off(m), {"off"}, NoCommand, "end")
    BY <2>1, BecomesMoves, MachinesMay
  <2>2. CASE \E once \in BOOLEAN : Becomes(m, Started(m, once), {"on", "start"}, NoCommand, "end")
    BY <2>2, BecomesMoves, MachinesMay
  <2> QED BY <2>1, <2>2 DEF ByItself
<1>3. QuietVms'
  BY <1>1 DEF DoneInv, QuietVms
<1>4. \A d \in Command : OnItsWay(d)'
  BY <1>2 DEF DoneInv, Moves, SameCmd, OnItsWay
<1>5. ASSUME NEW n \in Node PROVE LastFollowed(n)'
  <2>1. LastFollowed(n)
    BY DEF DoneInv
  <2>2. CASE last[n] = NoCommand
    BY <1>1, <2>2 DEF LastFollowed
  <2>3. CASE last[n] # NoCommand
    <3>1. last[n] \in Command /\ SameCmd(last[n])
      BY <1>1, <1>2, <2>3 DEF Moves
    <3>2. \A d \in Command : /\ cmd'[d].node = cmd[d].node /\ cmd'[d].op = cmd[d].op
                             /\ cmd[d].step \in {"idle", "end"} => cmd'[d].step \in {"idle", "end"}
      BY <1>2 DEF Moves, SameCmd
    <3>3. n \notin disturbed' /\ MachineOf(n) \in Machine =>
            machine'[MachineOf(n)] = machine[MachineOf(n)] /\ pending'[MachineOf(n)] = pending[MachineOf(n)]
      BY <1>1, <1>2 DEF Moves
    <3> QED BY <1>1, <2>1, <3>1, <3>2, <3>3, Bystander
  <2> QED BY <2>2, <2>3
<1> QED BY <1>3, <1>4, <1>5 DEF DoneInv

\* A device that a BMC refuses keeps the invariant: the node is disturbed.
LEMMA RefusalKeeps ==
  ASSUME DoneInv, PlaceInv', NEW c \in Command, BmcRefusesDevice(c)
  PROVE  DoneInv'
<1> DEFINE k == cmd[c].node
<1>1. /\ last' = last /\ machine' = machine /\ pending' = pending
      /\ disturbed' = disturbed \union {k}
      /\ last \in [Node -> Command \union {NoCommand}]
      /\ cmd \in [Command -> CmdType]
      /\ cmd[c].step = "bmc" /\ cmd[c].op = "setdev" /\ Ends(c, "ok")
  BY TypeParts DEF BmcRefusesDevice, AtBmc, At, DoneInv, PlaceInv, TypeOK
<1>2. /\ cmd'[c].step = "end" /\ cmd'[c].node = k /\ cmd'[c].op = "setdev"
      /\ cmd'[c].reply = cmd[c].reply
      /\ \A d \in Command : d # c => cmd'[d] = cmd[d]
  <2>1. "ok" \in Answers
    BY DEF Answers
  <2> QED BY <1>1, <2>1, EndsEffect
<1>3. QuietVms'
  BY <1>1 DEF DoneInv, QuietVms
<1>4. \A d \in Command : OnItsWay(d)'
  BY <1>2 DEF DoneInv, OnItsWay
<1>5. ASSUME NEW n \in Node PROVE LastFollowed(n)'
  <2>1. LastFollowed(n)
    BY DEF DoneInv
  <2>2. CASE last[n] = NoCommand
    BY <1>1, <2>2 DEF LastFollowed
  <2>3. CASE last[n] # NoCommand /\ n = k
    <3>1. last[n] \in Command /\ n \in disturbed'
      BY <1>1, <2>3
    <3>2. /\ cmd[last[n]].node = n /\ cmd[last[n]].op \in Exclusive
          /\ cmd[last[n]].step # "idle"
      BY <2>1, <2>3 DEF LastFollowed
    <3>3. /\ cmd'[last[n]].node = n /\ cmd'[last[n]].op \in Exclusive
          /\ cmd'[last[n]].step # "idle"
      BY <1>1, <1>2, <2>3, <3>1, <3>2
    <3> QED BY <1>1, <3>1, <3>3 DEF LastFollowed
  <2>4. CASE last[n] # NoCommand /\ n # k
    <3>1. last[n] \in Command \ {c}
      BY <1>1, <2>1, <2>4 DEF LastFollowed
    <3>2. SameCmd(last[n])
      BY <1>2, <3>1 DEF SameCmd
    <3>3. \A d \in Command : /\ cmd'[d].node = cmd[d].node /\ cmd'[d].op = cmd[d].op
                             /\ cmd[d].step \in {"idle", "end"} => cmd'[d].step \in {"idle", "end"}
      BY <1>1, <1>2
    <3> QED BY <1>1, <2>1, <3>1, <3>2, <3>3, Bystander
  <2> QED BY <2>2, <2>3, <2>4
<1> QED BY <1>3, <1>4, <1>5 DEF DoneInv

\* The invariant of what is done is inductive.
LEMMA DoneStep ==
  ASSUME OwnMachines
  PROVE  DoneInv /\ [Next]_vars => DoneInv'
<1> SUFFICES ASSUME DoneInv, [Next]_vars PROVE DoneInv'
  OBVIOUS
<1>1. PlaceInv'
  BY PlaceStep DEF DoneInv
<1>2. ASSUME NEW c \in Command, NEW m \in Menu, Receive(c, m) PROVE DoneInv'
  BY <1>1, <1>2, ReceiveKeeps
<1>3. ASSUME NEW c \in Command, HandlerReturns(c) \/ HandlerTimesOut(c) PROVE DoneInv'
  BY <1>1, <1>3, AnswerAdvances, AdvanceKeeps
<1>4. ASSUME NEW c \in Command,
             \/ Connect(c) \/ Fails(c) \/ GetPowerStatus(c) \/ PowerOff(c) \/ Stop(c) \/ Start(c)
             \/ CheckStarted(c) \/ SetBootDevice(c) \/ GetBootDevice(c)
             \/ BmcGet(c) \/ BmcSet(c) \/ BmcSetBootDevice(c) \/ BmcGetBootDevice(c)
      PROVE  DoneInv'
  BY <1>1, <1>4, StepAdvances, AdvanceKeeps
<1>a. ASSUME NEW c \in Command, BmcRefusesDevice(c) PROVE DoneInv'
  BY <1>1, <1>a, RefusalKeeps
<1>5. ASSUME NEW m \in Machine, Settle(m) PROVE DoneInv'
  BY <1>1, <1>5, SettleKeeps
<1>6. ASSUME NEW m \in {Target(c) : c \in Command} \ {NoMachine}, ByItself(m) PROVE DoneInv'
  <2>1. m \in Machine
    BY MachineKnown, TypeParts DEF Target, CmdType, DoneInv, PlaceInv
  <2> QED BY <1>1, <1>6, <2>1, ByItselfKeeps
<1>7. CASE UNCHANGED vars
  BY <1>1, <1>7 DEF vars, DoneInv, QuietVms, OnItsWay, LastFollowed
<1> QED BY <1>2, <1>3, <1>4, <1>5, <1>6, <1>7, <1>a DEF Next

(* What a command reported as done stays done until the next command of its  *)
(* node, whatever the commands of other nodes, the guests and the BMCs do,  *)
(* if no two nodes are the same machine.                                    *)
THEOREM DoneIsKept ==
  ASSUME OwnMachines
  PROVE  Spec => []DoneStaysDone
<1>1. Init => DoneInv
  <2> SUFFICES ASSUME Init PROVE DoneInv
    OBVIOUS
  <2>1. \A c \in Command : cmd[c].step = "idle" /\ cmd[c].op = "get" /\ cmd[c].reply = "none"
    BY DEF Init, Unused
  <2>2. \A n \in Node : last[n] = NoCommand
    BY DEF Init
  <2>3. \A m \in Machine : pending[m] = "none"
    BY DEF Init
  <2> QED BY <2>1, <2>2, <2>3, InitPlace DEF DoneInv, QuietVms, OnItsWay, LastFollowed
<1>2. DoneInv => DoneStaysDone
  <2> SUFFICES ASSUME DoneInv, NEW n \in Node, last[n] # NoCommand, n \notin disturbed,
                      cmd[last[n]].reply = "ok", pending[MachineOf(n)] = "none"
               PROVE  LET r == cmd[last[n]]
                          m == MachineOf(n)
                      IN  /\ r.op = "off" => ~ machine[m].on
                          /\ r.op \in {"on", "boot"} => machine[m].on
                          /\ r.due # NoDevice /\ (r.op = "boot" \/ (r.op = "on" /\ Mgt[n] = "kvm")) =>
                                  machine[m].booted = r.due
    BY DEF DoneStaysDone
  <2>1. LastFollowed(n) /\ OnItsWay(last[n])
    BY DEF DoneInv, PlaceInv, TypeOK
  <2>2. Succeeded(cmd[last[n]])
    BY <2>1 DEF OnItsWay, Succeeded
  <2>3. cmd[last[n]].node = n /\ Follows(cmd[last[n]], machine[MachineOf(n)], pending[MachineOf(n)])
    BY <2>1, <2>2 DEF LastFollowed
  <2> QED BY <2>2, <2>3 DEF Follows
<1>3. DoneInv /\ [Next]_vars => DoneInv'
  BY DoneStep
<1> QED BY <1>1, <1>2, <1>3, PTL DEF Spec
=============================================================================
