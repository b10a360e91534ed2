---------------------------- MODULE PowerControl ----------------------------
(***************************************************************************)
(* The control plugins: what a power or boot device command does to the    *)
(* machine of its node (plugins/control/ssh.py for virtual machines,       *)
(* ipmi.py for a BMC).  The handler (conductor/manager.py) holds the       *)
(* node's lock, see Reservation, and waits for the greenthread of the      *)
(* command, which works one command of the hypervisor or the BMC at a      *)
(* time.  The machine also changes by itself, a BMC does what it accepted  *)
(* later, and a greenthread that its handler gave up goes on.              *)
(***************************************************************************)
EXTENDS Naturals, Sequences, FiniteSets, FiniteSetsExt

CONSTANTS
    Node, Machine, Device,
    Command,        \* RPC calls, each used once
    Slots,          \* the nodes that the commands may be for: functions on Command (a bound)
    Menu,           \* the commands of an instance: [node, op, dev] records (a bound)
    Mgt,            \* node -> its mgt attribute
    Info,           \* node -> its control_info: [keys, port, virt]
    Nics,           \* node -> the macs of its nics
    Bmc,            \* node -> the machine its bmc_address belongs to
    Vms,            \* the machines that list --all shows on the hypervisor, in order
    Macs,           \* machine -> its macs
    Default,        \* the device a machine boots from if nothing is set
    NoCommand, NoMachine, NoDevice,
    MaxOutside,     \* changes of a machine that no command made (bound)
    Faults          \* the adverse events an instance includes

PowerFaults == {"ssh",      \* a connection or a command of a plugin fails
                "refusal",  \* a BMC answers the setting of a device with an error
               "timeout"}  \* a handler waits too long

Keys == {"ssh_address", "ssh_username", "ssh_virt_type", "ssh_password", "ssh_key_contents",
         "ssh_key_filename", "bmc_address", "bmc_username"}

Power == {"on", "off", "boot"}
Exclusive == Power \union {"setdev"}
Shared == {"get", "getdev"}

ASSUME PowerAssumption ==
    /\ Slots \subseteq [Command -> Node]
    /\ Menu \subseteq [node : Node, op : Exclusive \union Shared, dev : Device \union {NoDevice}]
    /\ Mgt \in [Node -> {"kvm", "ipmi", "openbmc"}]
    /\ Info \in [Node -> [keys : SUBSET Keys, port : Nat, virt : {"virsh", "vbox"}]]
    /\ Bmc \in [Node -> Machine] /\ Vms \in Seq(Machine)
    /\ Default \in Device
    /\ NoCommand \notin Command /\ NoMachine \notin Machine /\ NoDevice \notin Device
    /\ MaxOutside \in Nat
    /\ Faults \subseteq PowerFaults

VARIABLES
    machine,        \* machine -> [on, booted: the device it started from, next: the one set]
    pending,        \* machine -> what its BMC accepted and has not done yet
    outside,        \* changes that no command made, so far
    holder,         \* node -> the command that holds its lock
    cmd,            \* command -> its greenthread and its handler
    last,           \* history: node -> the last exclusive command
    disturbed       \* history: nodes whose machine is not as that command left or
                    \* reported it

vars == <<machine, pending, outside, holder, cmd, last, disturbed>>

SshSteps == {"status", "offstatus", "stop", "offcheck", "start", "check", "edit", "read"}
Answers == {"none", "ok", "on", "off", "failed", "timeout"} \union Device

Unused(n) == [node |-> n, op |-> "get", dev |-> NoDevice, step |-> "idle",
              outcome |-> "none", reply |-> "none", saw |-> {}, due |-> NoDevice]

\* A lock belongs to a command that still waits for its answer.
TypeOK ==
    /\ machine \in [Machine -> [on : BOOLEAN, booted : Device, next : Device \union {NoDevice}]]
    /\ pending \in [Machine -> {"none"} \union Power]
    /\ outside \in 0..MaxOutside
    /\ holder \in [Node -> Command \union {NoCommand}]
    /\ cmd \in [Command -> [node : Node, op : Exclusive \union Shared, dev : Device \union {NoDevice},
                            step : SshSteps \union {"idle", "connect", "bmc", "end"},
                            outcome : Answers, reply : Answers,
                            saw : SUBSET {"on", "off", "start"}, due : Device \union {NoDevice}]]
    /\ last \in [Node -> Command \union {NoCommand}]
    /\ disturbed \subseteq Node
    /\ \A n \in Node : holder[n] # NoCommand =>
        LET c == cmd[holder[n]] IN c.node = n /\ c.op \in Exclusive /\ c.reply = "none"

-----------------------------------------------------------------------------
(* What a plugin knows of its node.                                        *)

\* validate_network_port
PortValid(port) == port \in 1..65535

\* _parse_control_info
SshInfoValid(info) ==
    /\ {"ssh_address", "ssh_username", "ssh_virt_type"} \subseteq info.keys
    /\ PortValid(info.port)
    /\ info.virt = "virsh"
    /\ info.keys \intersect {"ssh_password", "ssh_key_contents", "ssh_key_filename"} # {}
    /\ ~ {"ssh_key_contents", "ssh_key_filename"} \subseteq info.keys

IpmiInfoValid(info) == {"bmc_address", "bmc_username"} \subseteq info.keys

\* get_control_plugin finds the plugin, and its validate lets the node pass.
Valid(n) ==
    \/ Mgt[n] = "kvm" /\ Nics[n] # {} /\ SshInfoValid(Info[n])
    \/ Mgt[n] = "ipmi" /\ IpmiInfoValid(Info[n])

\* _get_hosts_name_for_node: the first of the listed machines that has a mac of
\* the node.
HostsName(n) ==
    LET found == {i \in DOMAIN Vms : Macs[Vms[i]] \intersect Nics[n] # {}}
    IN  IF found = {} THEN NoMachine ELSE Vms[Min(found)]

MachineOf(n) == IF Mgt[n] = "kvm" THEN HostsName(n) ELSE Bmc[n]

-----------------------------------------------------------------------------
Init ==
    /\ \E on \in BOOLEAN :
           machine = [m \in Machine |-> [on |-> on, booted |-> Default, next |-> NoDevice]]
    /\ pending = [m \in Machine |-> "none"]
    /\ outside = 0
    /\ holder = [n \in Node |-> NoCommand]
    /\ \E slot \in Slots : cmd = [c \in Command |-> Unused(slot[c])]
    /\ last = [n \in Node |-> NoCommand]
    /\ disturbed = {}

At(c, step) == cmd[c].step = step
Target(c) == MachineOf(cmd[c].node)
IsOn(c) == machine[Target(c)].on

Working(n) == {c \in Command : cmd[c].node = n /\ cmd[c].step \notin {"idle", "end"}}
Seen(on) == IF on THEN "on" ELSE "off"

\* A machine becomes as r says, which the commands under way on it have seen;
\* the one that did it goes on with step.
Becomes(m, r, events, c, step) ==
    /\ machine' = [machine EXCEPT ![m] = r]
    /\ cmd' = [d \in Command |->
           [cmd[d] EXCEPT !.step = IF d = c THEN step ELSE @,
                          !.saw = IF d \in Working(cmd[d].node) /\ Target(d) = m /\ cmd[d].reply = "none"
                                  THEN @ \union events ELSE @]]

Off(m) == [machine[m] EXCEPT !.on = FALSE]
\* A machine starts from the device that is set, a BMC forgets it after that.
Started(m, once) ==
    [on |-> TRUE, booted |-> IF machine[m].next = NoDevice THEN Default ELSE machine[m].next,
     next |-> IF once THEN NoDevice ELSE machine[m].next]

Proceed(c, step) == cmd' = [cmd EXCEPT ![c].step = step]
Ends(c, outcome) == cmd' = [cmd EXCEPT ![c].step = "end", ![c].outcome = outcome]

-----------------------------------------------------------------------------
(* The handlers change_power_state, set_boot_device, get_power_state and   *)
(* get_boot_device: the first two hold the lock exclusively.               *)

\* The device that a power command finds set by the command before it.
DueDevice(m) ==
    LET l == last[m.node]
    IN  IF l # NoCommand /\ m.node \notin disturbed /\ cmd[l].op = "setdev" /\ cmd[l].reply = "ok"
        THEN cmd[l].dev ELSE NoDevice

Receive(c, m) ==
    /\ m \in Menu /\ At(c, "idle") /\ cmd[c].node = m.node
    /\ m.op \in Exclusive => holder[m.node] = NoCommand
    /\ LET at == MachineOf(m.node)
       IN  cmd' = [cmd EXCEPT ![c] =
               [node |-> m.node, op |-> m.op, dev |-> m.dev, step |-> "connect",
                outcome |-> "none", reply |-> "none",
                saw |-> IF at = NoMachine THEN {} ELSE {Seen(machine[at].on)},
                due |-> DueDevice(m)]]
    /\ IF m.op \in Exclusive
       THEN /\ holder' = [holder EXCEPT ![m.node] = c]
            /\ last' = [last EXCEPT ![m.node] = c]
            /\ disturbed' = IF \/ \E d \in Working(m.node) : cmd[d].op \in Exclusive
                               \/ \E at \in Machine : MachineOf(m.node) = at /\ pending[at] # "none"
                            THEN disturbed \union {m.node} ELSE disturbed \ {m.node}
       ELSE UNCHANGED <<holder, last, disturbed>>
    /\ UNCHANGED <<machine, pending, outside>>

\* MUTANT: the lock is not released when the command failed.
ReleaseOk(c) ==
    holder' = [n \in Node |-> IF holder[n] = c /\ cmd[c].outcome # "failed" THEN NoCommand ELSE holder[n]]

\* Leaving the with block of task_manager.acquire.
Release(c) == holder' = [n \in Node |-> IF holder[n] = c THEN NoCommand ELSE holder[n]]

\* _process_nodes_worker has the result of the greenthread.
HandlerReturns(c) ==
    /\ At(c, "end") /\ cmd[c].reply = "none"
    /\ cmd' = [cmd EXCEPT ![c].reply = cmd[c].outcome, ![c].outcome = "none", ![c].saw = {}]
    /\ Release(c)
    /\ UNCHANGED <<machine, pending, outside, last, disturbed>>

\* It waited for CONF.conductor.timeout; the greenthread goes on unlocked.
HandlerTimesOut(c) ==
    /\ "timeout" \in Faults
    /\ cmd[c].step \notin {"idle", "end"} /\ cmd[c].reply = "none"
    /\ cmd' = [cmd EXCEPT ![c].reply = "timeout", ![c].saw = {}]
    /\ Release(c)
    /\ UNCHANGED <<machine, pending, outside, last, disturbed>>

-----------------------------------------------------------------------------
(* ssh: the greenthread of a virtual machine's node.                       *)

\* get_power_state, set_power_state; set_boot_device, get_boot_device
PowerStep(op) == IF op = "off" THEN "offstatus" ELSE "status"
DeviceStep(op) == IF op = "setdev" THEN "edit" ELSE "read"

FirstStep(n, op) ==
    IF Mgt[n] = "ipmi" THEN "bmc"
    ELSE IF op \in Power \union {"get"} THEN PowerStep(op) ELSE DeviceStep(op)

\* validate, then the connection; the search for the machine, which gives up
\* after three attempts, comes before each command of the hypervisor and finds
\* the same every time.
Connect(c) ==
    /\ At(c, "connect")
    /\ LET n == cmd[c].node
       IN  IF Valid(n) /\ (Mgt[n] = "kvm" => HostsName(n) # NoMachine)
           THEN Proceed(c, FirstStep(n, cmd[c].op))
           ELSE Ends(c, "failed")
    /\ UNCHANGED <<machine, pending, outside, holder, last, disturbed>>

\* A connection or a command fails (SSHConnectFailed, SSHCommandFailed, IPMIFailure).
Fails(c) ==
    /\ "ssh" \in Faults
    /\ cmd[c].step \notin {"idle", "end"}
    /\ Ends(c, "failed")
    /\ UNCHANGED <<machine, pending, outside, holder, last, disturbed>>

\* MUTANT: power on leaves a running machine alone.
PowerStatusKeepsOn(c) ==
    /\ At(c, "status")
    /\ IF cmd[c].op = "get" THEN Ends(c, Seen(IsOn(c)))
       ELSE IF IsOn(c) THEN Ends(c, "ok") ELSE Proceed(c, "start")
    /\ UNCHANGED <<machine, pending, outside, holder, last, disturbed>>

\* _get_power_status: on if the machine is in the list of the running ones.
GetPowerStatus(c) ==
    /\ At(c, "status")
    /\ IF cmd[c].op = "get" THEN Ends(c, Seen(IsOn(c)))
       ELSE Proceed(c, IF IsOn(c) THEN "offstatus" ELSE "start")
    /\ UNCHANGED <<machine, pending, outside, holder, last, disturbed>>

\* _power_off: nothing to do if it is off; its result counts for a power off
\* only, a power on goes on with start.
PowerOff(c) ==
    /\ \/ /\ At(c, "offstatus")
          /\ IF IsOn(c) THEN Proceed(c, "stop")
             ELSE IF cmd[c].op = "off" THEN Ends(c, "ok") ELSE Proceed(c, "start")
       \/ /\ At(c, "offcheck")
          /\ IF cmd[c].op = "off" THEN Ends(c, IF IsOn(c) THEN "failed" ELSE "ok")
             ELSE Proceed(c, "start")
    /\ UNCHANGED <<machine, pending, outside, holder, last, disturbed>>

\* virsh destroy, an error if the machine is off already.
Stop(c) ==
    /\ At(c, "stop")
    /\ IF IsOn(c) THEN Becomes(Target(c), Off(Target(c)), {"off"}, c, "offcheck")
       ELSE Ends(c, "failed") /\ UNCHANGED machine
    /\ UNCHANGED <<pending, outside, holder, last, disturbed>>

\* MUTANT: an error of the start command is taken for a machine that runs.
StartAnyway(c) ==
    /\ At(c, "start")
    /\ machine' = [machine EXCEPT ![Target(c)] = IF @.on THEN @ ELSE Started(Target(c), FALSE)]
    /\ Proceed(c, "check")
    /\ UNCHANGED <<pending, outside, holder, last, disturbed>>

\* _power_on: virsh start, an error if the machine runs already.
Start(c) ==
    /\ At(c, "start")
    /\ IF IsOn(c) THEN Ends(c, "failed") /\ UNCHANGED machine
       ELSE Becomes(Target(c), Started(Target(c), FALSE), {"on", "start"}, c, "check")
    /\ UNCHANGED <<pending, outside, holder, last, disturbed>>

\* set_power_state compares what power on found in the end.
CheckStarted(c) ==
    /\ At(c, "check")
    /\ Ends(c, IF IsOn(c) THEN "ok" ELSE "failed")
    /\ UNCHANGED <<machine, pending, outside, holder, last, disturbed>>

\* _set_boot_device edits the definition of the machine.
SetBootDevice(c) ==
    /\ At(c, "edit")
    /\ machine' = [machine EXCEPT ![Target(c)].next = cmd[c].dev]
    /\ Ends(c, "ok")
    /\ UNCHANGED <<pending, outside, holder, last, disturbed>>

\* _get_boot_device: dumpxml shows a running machine as it was started; a
\* definition without a boot device raises ValueError.
GetBootDevice(c) ==
    /\ At(c, "read")
    /\ LET m == machine[Target(c)]
           dev == IF m.on THEN m.booted ELSE m.next
       IN  Ends(c, IF dev = NoDevice THEN "failed" ELSE dev)
    /\ UNCHANGED <<machine, pending, outside, holder, last, disturbed>>

-----------------------------------------------------------------------------
(* ipmi: one command of the BMC, taken at its word.                        *)

AtBmc(c, ops) == At(c, "bmc") /\ cmd[c].op \in ops

BmcGet(c) ==
    /\ AtBmc(c, {"get"})
    /\ Ends(c, Seen(IsOn(c)))
    /\ UNCHANGED <<machine, pending, outside, holder, last, disturbed>>

\* What _reboot asks for: a machine that is off is only switched on.
Rebooted(c) == IF IsOn(c) THEN "boot" ELSE "on"

\* What the BMC accepts: nothing if the machine is as it should be already.
Accepted(c) ==
    CASE cmd[c].op = "on" -> IF IsOn(c) THEN pending[Target(c)] ELSE "on"
      [] cmd[c].op = "off" -> IF IsOn(c) THEN "off" ELSE pending[Target(c)]
      [] cmd[c].op = "boot" -> Rebooted(c)

\* _power_on, _power_off and _reboot do not wait for the machine.
BmcSet(c) ==
    /\ AtBmc(c, Power)
    /\ pending' = [pending EXCEPT ![Target(c)] = Accepted(c)]
    /\ Ends(c, "ok")
    /\ UNCHANGED <<machine, outside, holder, last, disturbed>>

BmcSetBootDevice(c) ==
    /\ AtBmc(c, {"setdev"})
    /\ machine' = [machine EXCEPT ![Target(c)].next = cmd[c].dev]
    /\ Ends(c, "ok")
    /\ UNCHANGED <<pending, outside, holder, last, disturbed>>

\* The BMC says that it did not: set_bootdev returns the error, which
\* set_boot_device does not look at.
BmcRefusesDevice(c) ==
    /\ "refusal" \in Faults
    /\ AtBmc(c, {"setdev"})
    /\ Ends(c, "ok")
    /\ disturbed' = disturbed \union {cmd[c].node}
    /\ UNCHANGED <<machine, pending, outside, holder, last>>

BmcGetBootDevice(c) ==
    /\ AtBmc(c, {"getdev"})
    /\ Ends(c, IF machine[Target(c)].next = NoDevice THEN Default ELSE machine[Target(c)].next)
    /\ UNCHANGED <<machine, pending, outside, holder, last, disturbed>>

-----------------------------------------------------------------------------
(* The machines.                                                           *)

\* The machine of a BMC does what was accepted.
Settle(m) ==
    /\ pending[m] # "none"
    /\ pending' = [pending EXCEPT ![m] = "none"]
    /\ CASE pending[m] = "off" -> Becomes(m, Off(m), {"off"}, NoCommand, "end")
         [] pending[m] = "on" /\ machine[m].on -> UNCHANGED <<machine, cmd>>
         [] OTHER -> Becomes(m, Started(m, TRUE), {"on", "start"}, NoCommand, "end")
    /\ UNCHANGED <<outside, holder, last, disturbed>>

\* A guest shuts down or dies, or somebody else starts the machine.
ByItself(m) ==
    /\ outside < MaxOutside
    /\ outside' = outside + 1
    /\ IF machine[m].on THEN Becomes(m, Off(m), {"off"}, NoCommand, "end")
       ELSE Becomes(m, Started(m, m \notin {Vms[i] : i \in DOMAIN Vms}), {"on", "start"}, NoCommand, "end")
    /\ disturbed' = disturbed \union {n \in Node : MachineOf(n) = m}
    /\ UNCHANGED <<pending, holder, last>>

-----------------------------------------------------------------------------
Next ==
    \/ \E c \in Command :
        \/ \E m \in Menu : Receive(c, m)
        \/ HandlerReturns(c) \/ HandlerTimesOut(c)
        \/ Connect(c) \/ Fails(c)
        \/ GetPowerStatus(c) \/ PowerOff(c) \/ Stop(c) \/ Start(c) \/ CheckStarted(c)
        \/ SetBootDevice(c) \/ GetBootDevice(c)
        \/ BmcGet(c) \/ BmcSet(c)
        \/ BmcSetBootDevice(c) \/ BmcRefusesDevice(c) \/ BmcGetBootDevice(c)
    \/ \E m \in Machine : Settle(m)
    \/ \E m \in {Target(c) : c \in Command} \ {NoMachine} : ByItself(m)

Spec == Init /\ [][Next]_vars

-----------------------------------------------------------------------------
(* What a plugin is about to answer is true of some moment of its request:  *)
(* a state that is reported was the machine's while the request ran; a      *)
(* virtual machine that was powered off was off, one that was powered on or *)
(* rebooted was started in that time, also when another greenthread, left   *)
(* over from a request that timed out, or the guest works against it.       *)
AnswersAreTrue ==
    \A c \in Command :
        LET r == cmd[c]
        IN  At(c, "end") /\ r.reply = "none" =>
            /\ r.op = "get" /\ r.outcome \in {"on", "off"} => r.outcome \in r.saw
            /\ Mgt[r.node] = "kvm" /\ r.outcome = "ok" =>
                /\ r.op = "off" => "off" \in r.saw
                /\ r.op \in {"on", "boot"} => "start" \in r.saw

(* What a command reported as done stays done until the next command: after *)
(* power off the machine is off, after power on it is on, and if the boot   *)
(* device was set just before a reboot (or the power on of a virtual        *)
(* machine, which is a reboot), it was started from that device.  A BMC     *)
(* gets there when it has done what it accepted.  Excepted are machines     *)
(* that changed by themselves, commands that overtook a greenthread or a    *)
(* BMC still at work for an earlier one, and a boot device that the BMC     *)
(* refused to set: the command answers that it is done all the same, and    *)
(* the next start may be from another device.                               *)
DoneStaysDone ==
    \A n \in Node :
        LET m == MachineOf(n)
        IN  last[n] # NoCommand /\ n \notin disturbed =>
            LET r == cmd[last[n]]
            IN  r.reply = "ok" /\ pending[m] = "none" =>
                /\ r.op = "off" => ~ machine[m].on
                /\ r.op \in {"on", "boot"} => machine[m].on
                /\ r.due # NoDevice /\ (r.op = "boot" \/ (r.op = "on" /\ Mgt[n] = "kvm")) =>
                        machine[m].booted = r.due
=============================================================================
