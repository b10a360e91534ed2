--------------------------- MODULE MCPowerControl ---------------------------
(* A virtual machine on a hypervisor with another one, a server with a BMC, *)
(* and a node whose control_info is incomplete; three commands.             *)
EXTENDS PowerControl, TLC

CONSTANTS vm1, vm2, server, guest, metal, broken, c1, c2, c3

Nodes == {guest, metal, broken}
Machines == {vm1, vm2, server}
Commands == {c1, c2, c3}
Devices == {"disk", "net"}
Management == guest :> "kvm" @@ metal :> "ipmi" @@ broken :> "kvm"
ControlInfo ==
    guest :> [keys |-> {"ssh_address", "ssh_username", "ssh_virt_type", "ssh_password"},
              port |-> 22, virt |-> "virsh"]
    @@ metal :> [keys |-> {"bmc_address", "bmc_username"}, port |-> 0, virt |-> "vbox"]
    @@ broken :> [keys |-> {"ssh_address", "ssh_username", "ssh_virt_type"},
                  port |-> 22, virt |-> "virsh"]
NicsOf == guest :> {"mac2"} @@ metal :> {"mac3"} @@ broken :> {"mac1"}
BmcOf == [n \in Node |-> server]
Listed == <<vm1, vm2>>
MacsOf == vm1 :> {"mac1"} @@ vm2 :> {"mac2", "mac4"} @@ server :> {"mac3"}
OfGuest == [node : {guest}, op : {"off", "boot", "get", "getdev"}, dev : {NoDevice}]
           \union [node : {guest}, op : {"setdev"}, dev : {"net"}]
OfMetal == [node : {metal}, op : Power \union Shared, dev : {NoDevice}]
           \union [node : {metal}, op : {"setdev"}, dev : {"net"}]
SomeCommands == OfGuest \union OfMetal \union [node : {broken}, op : {"off"}, dev : {NoDevice}]
OneNode == {[c \in Command |-> n] : n \in Node}
Symmetric == Permutations(Commands)
=============================================================================
