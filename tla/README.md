# xCAT3 in TLA+

xCAT3 provisions the bare-metal nodes of a cluster.  Its REST API hands requests to
*conductors*, one or more hosts that lock the nodes in a common database, run the plugins
that write boot configurations and installer templates, drive the power of the machines,
and keep a dhcp record per node for the *network* service.  The installer of a node calls
back over the API when it is done.  This directory models the parts of it in which
concurrency, failure and order decide whether it works, checks them with TLC on small
instances and proves the properties that matter most, for all instances, with TLAPS.

Source references are to files below `src/xcat3/`.

## 1. Inventory

| Component | State | Operations | Hard behaviour | What makes it correct |
|---|---|---|---|---|
| **Node lock**: `conductor/task_manager.py`, `objects/node.py`, `db/sqlalchemy/api.py` (`reserve_nodes`, `release_nodes`) | the `reservation` column of a node (a host name); a TaskManager per request | shared and exclusive acquire, upgrade, retry, release, delete rows | requests of several conductors at once; half-failed acquires and releases; crash of a holder; names used again | mutual exclusion, groups all or nothing, nothing stays locked, every request gets an answer |
| **Conductor handlers**: `conductor/manager.py` | a pool of greenthreads; the handler's own progress | provision, clean, provision_callback, destroy_nodes, power, boot device, destroy_osimage | one greenthread a node, some fail or are too late; several transactions one after the other; a callback that was sent before the node changed | database, dhcp records and files on the hosts agree whenever nobody holds the lock |
| **Dispatch**: `conductor/rpcapi.py` | none (reads services and affinity) | cut a request into pieces, one call per conductor and worker, wait | a piece that fails or is lost, a conductor that went away | every node goes to exactly one conductor; a node in charge of a conductor goes to that one |
| **Conductor service life**: `conductor/base_manager.py`, `common/rpc_service.py` | a row per service: online, workers, updated_at | register, keepalive, unregister | crash, restart, late keepalive | a request goes to services that are alive |
| **Node API**: `api/controllers/v1/node.py` | none of its own | create, delete, patch, list, power, provision, clean, callback | checks made without the lock; results of several workers, some missing | each node of a request gets exactly one result; a check still holds when it is used |
| **Database API**: `db/sqlalchemy/api.py` | the tables | one or more transactions an operation | an operation of two transactions that stops in the middle | the rows of a node, its nics and its dhcp record belong together |
| **Boot plugins**: `plugins/boot/` | boot configuration of a node on a conductor host | build, continue (boot from disk), clean | two writers of one file | a deployed node boots its disk |
| **OS image plugins**: `plugins/osimage/` | installer template of a node on a conductor host | build, clean | order of template and configuration | an installation finds its template |
| **Installer's scripts**: `plugins/osimage/scripts/post.py` | - | the callback | sent once | the node leaves "deploying" |
| **Power control plugins**: `plugins/control/` | connections to hypervisors and BMCs | on, off, reset, state, boot device | several commands for one operation; a greenthread left over from a request that timed out; the machine changes by itself | the machine ends in the state asked for, or an error; an answer was true at some moment |
| **Network service**: `network/` | dhcpd.conf, the dhcp server, the subnets in memory | generate, restart, enable options, follow the networks | a generation waits for the database while another one runs; restarts of the service, not of dhcpd | what was answered is served, and still is after whatever follows |
| **OS image store, copycd**: `api/controllers/v1/osimage.py`, `copycd/` | image rows, image trees | copy, upload, rename, delete | delete against provision and upload; casts to conductors | an image a node has keeps its files |
| **Objects and their controllers**: `objects/`, `api/controllers/v1/` | rows of nodes, nics, networks, passwords, images | create, PATCH, delete | read, changed and written back without a lock; a creation in two transactions | no lost update; a created node has its nics |
| **Hooks, utilities, configuration, migration** | - | formatting, plumbing | little | - |

How they interact: the API reads the database without a lock (which nodes exist, which are
reserved, whether a callback may be accepted) and then *calls* conductors over the message
queue, or *casts* for the installer's callback.  A conductor takes the exclusive lock of all
nodes of the call (`task_manager.acquire`), runs one greenthread a node and waits for them at
most `CONF.conductor.timeout`, writes the dhcp records and then the rows, and unlocks.  Of
clean, the API part deletes dhcp records itself.  The column `conductor_affinity` says which
conductor has the files of a node; clean and the callback are sent there, provision to any.

The hazards of this code, each at its line, with the properties aimed at it, are the list
`hazards` of PROJECT.json.

## 2. Modules

| Module | What it is |
|---|---|
| `NodeLock` | abstract specification of the exclusive lock |
| `Reservation` | the lock as the code implements it; implements NodeLock |
| `Reservation_proofs` | theorems about Reservation |
| `Deployment` | provision, clean, callback, destroy and the lock-only handlers, on top of NodeLock |
| `Deployment_proofs` | theorems about Deployment |
| `Membership` | abstract specification of the list of services that requests rely on |
| `ServiceRegistry` | registration, keepalive, stop and crash of the services; implements Membership |
| `ServiceRegistry_proofs` | theorems about ServiceRegistry |
| `Requests` | a request for a group of nodes: cut into pieces, called, carried out, answered |
| `Requests_cuts` | what the cuts of a request are, theorems about its operators |
| `Requests_proofs` | theorems about Requests |
| `DhcpService` | the network service, its dhcpd, and the requests and networks it follows |
| `DhcpService_proofs` | theorems about DhcpService |
| `PowerControl` | the ssh and IPMI plugins against the machines |
| `PowerControl_proofs` | theorems about PowerControl |
| `Catalog` | the tables and the requests that write them; image files, copycd |
| `Catalog_proofs` | theorems about Catalog |
| `MC...` | instances for TLC, one module per component |

The modules meet at what they promise each other.  Reservation implements NodeLock, on which
Deployment is built.  ServiceRegistry implements Membership, and Membership says nothing about a
single moment, so Requests lets any set of conductors be listed when a request is cut and lets a call
be sent to a conductor that is gone.  Requests is about how *any* handler is reached and answered,
Deployment, PowerControl and Catalog about what the handlers do.

In each module a definition whose comment begins with `MUTANT` is a plausible bug of the
definition after it.  It is used by no specification: it shows that a property notices.

### NodeLock

Tasks hold sets of records.  `Acquire` takes a whole set of unlocked records in one step,
`Release` gives everything back, `Remove` deletes records, lock and all, and `Abandon` is a
holder that disappears: its records stay locked.  This is all that the handlers need to know
of the lock, so Deployment is built on this module and Reservation is shown to implement it.

### Reservation

State: for every node *name* whether there is a row, which generation of row it is (the row's
primary key) and its `reservation` column; for every request slot ("task") its TaskManager:
`shared`, `node_names`, `nodes`, the failed attempts of the retry loop, and where it is
(`phase`).

| Code | Action |
|---|---|
| `Connection.create_node` | `CreateNode` |
| `TaskManager.__init__`, exclusive / shared | `AcquireExclusive` / `AcquireShared` |
| `upgrade_lock` | `UpgradeLock` |
| `_lock` and `reserve_nodes`: commits / `NodeLocked`, tried again / given up | `ReserveNodes` / `RetryReserve` / `GiveUp` |
| `Node.reserve_nodes`, reading the rows and nics after the commit | `LoadNodes`, `LoadFails` |
| `destroy_nodes` (the rows) | `DestroyNodes` |
| `__exit__`, `release_resources`, `release_nodes` | `ReleaseResources`, `ReleaseFails` |
| a conductor process that dies | `Crash` |

Each database transaction is one step: transactions are taken to be serializable.  Three facts
of the code shape the model.  The column holds the host's name and not the task's; the release
goes by host and *name*; and the reservation is committed before the task object has its rows,
so that an error in between (`LoadFails`) releases nothing.  Which of its rows a destroy
deletes is left open here (those that are not deploying, which is Deployment's business).

The adverse events an instance includes are the constant `Faults`: `crash`, `loaderror`,
`releaseerror`, and `recreate`, that the name of a deleted node is used again.  `MaxGen` bounds
how often a name can be created.

### Deployment

State: the columns `state` and `conductor_affinity` of a node; the next server in its dhcp
record; for every conductor host the boot configuration (`none`, `install`, `disk`) and whether
there is an installer template; the handlers at work; greenthreads that outlived their handler
(`zombies`); callback messages on their way (`casts`), and which nodes' installers have called
back since their last provision (`reported`: an installer calls back once).

A handler goes through the phases `checked` (the API has looked, without a lock), `queued`
(sent to a conductor), `running` (locked, greenthreads at work), `recording`, `inserting`,
`saving` (its transactions) and `exit`.

| Code | Action |
|---|---|
| `_filter_unavailable_nodes` in the API | `Request` |
| `spawn_rpc_worker`, `spawn_affinity_worker`, and `destroy_dhcp` in `ConductorAPI.clean` | `Send` |
| the installer, `ProvisionController.callback` | `Callback` |
| `provision_callback` cast, delivery | `DeliverCallback` |
| `acquire` at the head of a handler: locked / `NodeLocked`, `NodeNotFound` | `Start` / `Refuse` |
| a greenthread: `_provision`, `_clean`, the work of `provision_callback` | `WorkerStep`, `WorkerFails`, and `ZombieStep` once its handler is over |
| `_spawn_worker`: `NoFreeServiceWorker` half way | `PoolFull` |
| `_process_nodes_worker`: all done or timeout | `WaitWorkers` |
| `save_or_update_dhcp`, its two transactions | `UpdateDhcp`, `InsertDhcp` |
| `destroy_nodes`: dhcp records, then rows | `RemoveDhcp`, `DeleteRows` |
| `save_nodes` of provision (image / dhcp target), clean, callback | `SaveProvision`, `SaveDhcp`, `SaveClean`, `SaveCallback` |
| a transaction that fails | `DbFails` |
| the end of the `with` block | `Exit` |
| a conductor host that goes down | `Crash` |

Choices worth knowing:

- The two file writes of a greenthread are separate steps, in the code's order: provision
  template then configuration, clean and callback configuration then template.  What can raise
  follows the plugins: `continue_deploy` of pxe fails when the directory is gone, petitboot's
  can fail after its write, `os_plugin.clean` cannot fail.
- clean saves *all* its nodes with what its greenthread has set so far: the state is set half way,
  the affinity at the end.
- `Send` gives a clean to one of the conductors in charge of its nodes; the nodes of the others
  are the calls that do not get through ("Conductor could not be found").  Any conductor may be
  chosen for the other requests; how a request is cut into pieces is the
  subject of Requests.
- Handlers that take the lock and change nothing here (power, boot device) are the request
  `power`.
- A crash of a conductor host takes its tasks and greenthreads; files, records and messages stay,
  and locks stay taken.
- The same node created again is Reservation's subject; here a deleted node stays deleted.

`Ops` and `Faults` choose the requests and the adverse events of an instance: `workerfail`,
`timeout`, `poolfull`, `dberror`, `crash`.

### ServiceRegistry and Membership

State: a row per (host, type); for every process where it is in its life (`phase`) and where its
keepalive greenthread is.  `cmd/conductor.py` launches several processes, all with the one row of
their host.  Time is counted in ticks; a row's `age` is the time since its `updated_at`, up to
`heartbeat_timeout`.

| Code | Action |
|---|---|
| `RPCService.start` | `Launch` |
| `register_service`, which `init_host` calls once more after `ServiceAlreadyRegistered`: the look-up; the insert; another error | `LookUp`; `InsertRow`; `RegisterFails` |
| spawning the keepalive / `NoFreeServiceWorker` | `SpawnKeepalive` / `NoKeepalive` |
| `_service_record_keepalive`: the event, `touch_service`, its errors, the wait | `CheckEvent`, `Touch`, `TouchFails`, `WakeUp` |
| SIGUSR1, `RPCService.stop`, `del_host`, the executor's shutdown | `Signal`, `StopServer`, `DelHost`, `Exit` |
| a process that dies | `Crash` |
| the clock | `Tick` |

`get_services` looks at the age alone (`Listed`), `Service.list` also at `online`
(`ShownOnline`).  `Tick` waits for heartbeats that are due: one that the database makes wait is a
heartbeat that fails.  `Membership` has the hosts that are listed and the processes that are there:
only a process that is there enlists its host, rows may lapse at any time, and the list catches up
with both who is there and who is gone.

A registration is a look-up and, when there is no row, an insert that may lose against a sibling's.
`Service.register` knows a lost insert by the text "Duplicate entry", which is MySQL's; the model
takes it to be recognised.  A first call that finds the row, or loses, is followed by a second one
with `update_existing`.  Nobody catches what that one raises: the phase `failed` is a second call whose insert
lost, and `RegistrationSucceeds` says that this does not come about.  Errors that have nothing to do with
the row (`regerror`) end the start.

### Requests

State: which nodes exist, are locked and have an affinity; per API request what its code holds; the
RPC calls, each with its future in the API and its handler.

| Code | Action |
|---|---|
| `_filter_unavailable_nodes`: missing, then locked | `Ask`, `Filter` |
| no node left | `NothingToDo` |
| `get_topic_for`, `get_topic_for_affinity`, `spawn_worker`: the pieces | `Dispatch`, with `Slice`, `Charge`, `Groups` |
| `NoValidHost`, or no such image or network | `NotDispatched` |
| the futures executor, `NoFreeAPIWorker` | `Submit`, `PoolFull` |
| `wait_workers`, `_wait_rpc_result`: all done / `CONF.api.timeout` | `Collect` / `ApiTimeout` |
| `enable_dhcp_option` after provision and clean | `Network` |
| a handler: lock / `NodeLocked`, `NodeNotFound` | `Begin` / `Refuse` |
| its greenthreads, `wait_for_all`, saves and unlock | `GreenthreadEnds`, `Return`, `Destroy`, `Raise` |
| `MessagingTimeout` | `CallTimesOut` |
| a conductor process that dies | `Die` |

A request slot is used once.  `Charge` gives the nodes that nobody deploys to the first conductor
listed, as the code does.  A handler that only reads takes no lock but lists its nodes with the filter
`reservation`, so `Begin` of a get has those that are there and not locked; `lockedSince` is history: the
nodes locked since the API filtered a get.

### DhcpService

State: the tables of dhcp records and networks, with what a row says of its network (`Row`; in which of
them a host has an interface is `Local`); per host whether its service takes messages (`up`) and whether its row in
the services table is young enough (`listed`), the subnets in memory, the `dhcp_pobj`, the
file and the configuration the running dhcpd has read; the generations under way.  `mixed` and `unheard` are
history: what the last generations of a host interleaved on, and the changes since it last listed the
networks that were not cast to it.

| Code | Action |
|---|---|
| `NetworkManager.__init__`, before the RPC server starts | `BootService` |
| `_restart_dhcp`: read the networks, `clear_subnet` and `add_subnet` | `ListNetworks`, `SetSubnets` |
| `build_conf`: read the records; write the file, stop and start dhcpd | `ReadRecords`, `WriteAndRestart` |
| POST, DELETE and PATCH of networks; the cast of `restart_dhcp` to the services listed | `ChangeNetworks`; `Broadcast`, `RestartDhcp` |
| the row of the service: registered, touched / too old | `Renew` / `Lapse` |
| `save_or_update_dhcp`, `destroy_dhcp` | `WriteRecord` |
| `get_topic_for` of the network service: who is listed; `check_support` of one after the other / an error | `GetServices`; `CheckSupport` / `NoService` |
| `enable_dhcp_option`, RPC timeout | `EnableDhcpOption`, `CallTimesOut` |
| a service that dies or stops; its dhcpd goes on | `Crash` |

A greenthread gives way to others at the database only, so writing the file and restarting dhcpd (which
waits busily) are one step.  A dhcpd of an earlier life of the service is found by its pid file and
killed but, being no child of this process, not waited for: the new one may find the port taken.  A service
lists the networks and takes messages before its row is registered, and its row may lapse while it runs: a
change made then is cast to others only.

### PowerControl

State: the machines (on, what they booted from, the device set), what a BMC has accepted and not done
yet, the node locks, and the commands, each with its handler and its greenthread.

| Code | Action |
|---|---|
| `change_power_state`, `set_boot_device`, `get_...`: lock and greenthread | `Receive` |
| the handler has the result / `CONF.conductor.timeout` | `HandlerReturns` / `HandlerTimesOut` |
| `validate`, `_parse_control_info`, the connection, `_get_hosts_name_for_node` | `Connect` |
| ssh: `_get_power_status`, `_power_off`, `virsh destroy`, `virsh start`, the check after it | `GetPowerStatus`, `PowerOff`, `Stop`, `Start`, `CheckStarted` |
| ssh: boot device | `SetBootDevice`, `GetBootDevice` |
| ipmi: power; boot device, set / refused by the BMC / read | `BmcGet`, `BmcSet`; `BmcSetBootDevice` / `BmcRefusesDevice` / `BmcGetBootDevice` |
| `SSHConnectFailed`, `SSHCommandFailed`, `IPMIFailure` | `Fails` |
| the machine of a BMC gets there; a machine changes by itself | `Settle`, `ByItself` |

Each command to the hypervisor is a step, so that a greenthread whose handler gave up can come
between two commands of the next one.  A BMC that refuses a boot device returns an error, which
`set_boot_device` does not look at: the command ends well and the device is what it was.  The hypervisor and the BMC themselves are known only from what
the plugins expect of them.

### Catalog

State: the rows of five tables, with the constraints of the database; per request what its code has
read (`seen`), reserved (`held`) and answered (`ok`, `failed`); the image files; the
`destroy_osimage` casts.  A row has three attributes: `a` and `c` are two keys of one column that holds a
JSON document (`control_info`, `console_info`, `nics_config`, `extra`), and `b` is a plain column, which of a
node a provision also sets.  A PATCH reads the row, and writes the columns that it changed into the row as it
is by then: a plain one alone, a JSON one with all the keys that it has read (`Written`).

| Code | Action |
|---|---|
| POST of nodes, one: `create_node`; several: `create_nodes` in two transactions | `NodePost`; `BulkCheck`, `BulkInsertNodes`, `BulkLookUp`, `BulkInsertNics` |
| PATCH of nodes (filter, apply, `save_nodes`), DELETE of nodes (lock, delete, unlock) | `NodesFilter`, `NodesPatch`, `NodesSave`; `NodesDelete`, `NodesDestroy`, `NodesRelease` |
| POST, PATCH, DELETE of networks, passwords, nics, images | `NetworkPost`, `NetworkPatch`, `NetworkSave`, `NetworkDelete`, `NetworkDestroy` and their likes |
| `copycd`, `upload` | `Copycd`, `Upload`, `UploadSave`, `UploadCreate` |
| DELETE of an image: look at the nodes, files, row; the casts | `ImageDelete`, `ImageInUse`, `ImageFiles`, `ImageDestroy`; `ConductorDestroys` |
| provision, as far as images go | `Provision`, `ProvisionLock`, `EnsureImage`, `ProvisionSave` |

`gone`, `asked`, `by`, `renamed`, `shared` and `raced` are history.  The node lock is a boolean here, there being one
conductor host, which is also the API's: both share the install directory.  Foreign keys are
enforced, and so are the unique columns.  What the API refuses in a PATCH is `Refused`: the body of
a node's PATCH is not validated, so a node can be renamed, also while it is locked.

## 3. Runs

All instances of Reservation have two hosts, three request slots, two of them on the same host
(the tag they write is the same), and two names.  Two slots on one host are needed because a
tag does not tell tasks of one host apart, the third because a tag must be able to differ, and
two names because groups can overlap in one node.  Two attempts are one failure that is retried
and one that is not.  Deployment has two request slots, which is one handler and one other request,
callback or left-over greenthread in its way, and one or two hosts and nodes as the question needs.
Sizes are distinct states.

| Run | Instance | Shows |
|---|---|---|
| `reservation_lock` | all faults, no name twice | `TypeOK`, `MutualExclusion`, `HeldIsReserved`, `WholeGroupOrNothing`, `OnlyOwnHostReleases`, and `ImplementsNodeLock` (refinement) |
| `reservation_live` | no faults, fairness | `EveryReservationHasHolder`, `LockIsTemporary`, `RequestAnswered` |
| `reservation_reuse` | names used twice | **violates** `MutualExclusion` |
| `deployment_served` | 2 hosts, 2 nodes, of which one host or one node is left out; provision, dhcp, power; failing greenthreads, crashes; 3.3 million | `DeployingIsServed`, for partly failing groups too |
| `deployment_faults` | 1 host, 1 node; provision, clean; every fault | `TypeOK`, `DeployingHasConductor` |
| `deployment_onehost` | 1 host, 2 nodes; all requests but power; no faults | `InstallHasTemplate`, `DeployedBootsDisk`, `CleanRemovesFiles` |
| `registry` | 2 processes on 1 row, interval 1, timeout 3 (one lost heartbeat leaves the row listed, two in a row need not); every fault but `dberror`, failing registrations included; fairness; 123 thousand | `TypeOK`, `RunningStaysListed`, `RegistrationSucceeds`, `RunningIsShownOnline`, `ImplementsMembership` (refinement, with its liveness) |
| `requests` | 2 conductors, 2 nodes of which one may be deploying, 2 requests (get, provision or clean of the group, and a delete of one of its nodes), 2 calls at a time; fairness; 512 thousand | `TypeOK`, `CutsArePartitions`, `OneCallPerNode`, `AnswerCoversAll`, `AnswerIsTrue`, `RefusedIsUntouched`, `RequestAnswered`, `HandlersEnd` |
| `requests_three` | 3 conductors, 3 nodes, one power request | **violates** `AnswerCoversAll` |
| `dhcp` | 1 service, 1 network whose row comes, goes or is changed once, 2 nodes, 2 provisions and a clean; every fault, rows that lapse included; 5.1 million | `TypeOK`, `AnsweredIsServed`, `SubnetsFollowNetworks` |
| `power` | a virtual machine beside another one, a server with a BMC, a node with incomplete control_info; 3 commands, one change from outside; every fault, refused devices included; 1.6 million | `TypeOK`, `AnswersAreTrue`, `DoneStaysDone` |
| `catalog` | 3 requests at a time of a menu of 32, on 2 nodes, 2 nics, a network, a password and an image, or on one node alone; 438 thousand | `TypeOK`, `NoLostUpdate`, `CreatedIsWhole`, `UsedImageHasTree` |

The deadlock check is off in the runs in which the system may really stop: all nodes deleted or locked
for ever after a crash, every request slot used.  Symmetry is used in safety runs only.

Why the new bounds are enough.  *registry*: what a process does to others goes through the one row, so a
second process of the same host is each other process; hosts do not meet.  *requests*: two pieces, one
per conductor, are what can be answered differently; the second request takes away a node, or its
lock, at every point of the first.  `CutsArePartitions` does not depend on the two nodes: it cuts up to
eight nodes for every pair of conductors with up to three workers each.  *dhcp*: one service and two
generations of it are the interference: of a restart with the boot, or with the generations of
requests.  *power*: one command that is answered, one left over and one in its
way.  *catalog*: two requests that meet and a third that undoes the one.

What limits the properties that hold, and why:

- `MutualExclusion`, `HeldIsReserved` and the refinement need that no name is used twice;
  `reservation_reuse` is the reason.  `WholeGroupOrNothing` and `OnlyOwnHostReleases` do not.
- `EveryReservationHasHolder` and `LockIsTemporary` need that nothing fails: a crash, an error
  between the commit and the end of the load, a failing release, or (with names used twice) a
  release rolled back because another host has one of the names, leave a lock behind.
- `DeployingIsServed` is about nodes that nobody has locked, whose installer has not called back,
  and that no clean request is under way for.  Its run and its theorem leave clean and destroy out all
  the same: the API removes the dhcp record before the lock is there, and when the clean is then
  refused the node stays deploying without a record.  A provision
  that runs at that time inserts the record again, and the node ends clean with a record.  It is
  checked without failing transactions, for provision that fails between its transactions leaves
  the new record with the old affinity.
- `InstallHasTemplate` needs that no greenthread outlives its handler.
- `DeployedBootsDisk` and `CleanRemovesFiles` need a single conductor host.  With two, a node
  provisioned again through the other one leaves its files on the first, which clean does not
  visit, and a callback that was sent to the first still completes there.
- A callback that meets a node locked for all attempts of the conductor is lost, being a cast: the
  node stays deploying.  No property says it is answered.
- The run `registry` leaves out `dberror`, a heartbeat that fails in another way than by a lost
  connection: the keepalive then ends and the process serves on unlisted, so that `RunningStaysListed`
  and the liveness of Membership are false.  The theorem on it names this as its premise.
- `RunningStaysListed` allows `(misses + 1) * Interval < Timeout`: with a timeout that the
  interval divides, the last heartbeat that could save a row comes as the row gets too old.
- `RegistrationSucceeds` is about what a registration finds in the row.  Another error of it ends the
  start, as it does in the code.
- `AnswerCoversAll` holds for two conductors.  A get, and a clean, which asks the nodes table again,
  do not answer for a node that was deleted meanwhile, nor does a get for one that was locked after the
  API had found it free: the conductor lists the free ones.  It says what is in the answer of requests
  that end in one; a request that ends in an error answers for nothing.
- `AnswerIsTrue` says that success is claimed only for what was done.  The reverse is not so: what is
  reported as timed out, raised, or failed for want of dhcp, may well have been done.
- `SubnetsFollowNetworks` is about a service that has worked off what was cast to it, and to which every
  change since it last listed the networks was cast (`unheard`).  A change that is committed after a
  starting service has listed the networks and broadcast before its row is registered, or while the row has
  lapsed, is cast to others only, and the service keeps the subnets that it has until the next change.
- `AnsweredIsServed` and `SubnetsFollowNetworks` are about a dhcpd that runs, and except what two
  generations that ran into each other left behind (`mixed`), until one runs alone: the older one
  may write last.  A dhcpd that ends at its start is only logged, and the request is answered as done.
  A service without `dhcp_pobj` whose pid file is left raises AttributeError when asked, and one that is
  listed and dead fails the search, though another could serve (`NoService`).
- `AnswersAreTrue` says more of a virtual machine than of a BMC, whose answer is taken at its word.
  `DoneStaysDone` excepts commands that overtook a greenthread or a BMC still at work, machines
  that changed by themselves, and boot devices that the BMC refused to set (`disturbed`).  A reboot whose start fails leaves the machine off, and
  answers with an error.
- `NoLostUpdate` holds of plain columns without exception.  A key of a JSON column is excepted when it was
  written while another PATCH of that column was between its read and its write (`shared`): that one puts
  back the keys that it has read.  PATCHes of a column one after the other lose nothing.  The list of patches is
  shared by the nodes of a request, and a removal that the first node does not need is taken off it
  for the others; `Patched` has it so, and what was asked is what is left.
- `CreatedIsWhole` leaves out rows that were ever renamed: one renamed between the two transactions
  of a bulk creation gets no nic, and that it may bear the name again by the end, after a second
  rename, came out of the proof (it takes more requests than the run has).  A node renamed while it
  is locked keeps its reservation, for release goes by name.
- `UsedImageHasTree` excepts `raced`: a provision that comes between the look at the nodes and the
  end of the deletion of its image, and files that several images share.  An image renamed by a
  PATCH lets a second one of the same distro be posted, and the delete of one takes the files of both.

### Where the code and its own words disagree

PROJECT.json has two of them under `findings`, with the run that shows them:

- a lock is freed by a task that deleted its node, when the node was created again (`reservation_reuse`);
- with three conductors, nodes are left out of a request and of its answer (`requests_three`).

These were met while modelling and are kept out of the runs by their bounds:

- the lock is committed before the nics are read, and leaked when they cannot be: with `loaderror`
  among the faults, `EveryReservationHasHolder` is false;
- destroy removes the dhcp record of a node that it then refuses to delete because it is deploying:
  with `destroy` among the requests, `DeployingIsServed` is false;
- a greenthread of clean that is too late removes the template of the next provision: with `timeout`,
  `InstallHasTemplate` is false;
- a callback that is overtaken by a clean makes a clean node deployed;
- `broadcast` says "If network information is changed, notify the network worker"
  (`network/rpcapi.py:63`), but a service that has listed the networks and is not registered yet, or whose row
  has lapsed, is not notified: without `unheard`, `SubnetsFollowNetworks` is false;
- `set_boot_device` says ":raises: IPMIFailure when the native ipmi call fails"
  (`plugins/control/ipmi.py:257`), but the error that `set_bootdev` returns is dropped at line 271, while lines
  184 and 231 look at theirs: a refused device is answered as done, and with `BmcRefusesDevice` not marked
  `disturbed`, `DoneStaysDone` is false;
- a PATCH of `control_info/x` and one of `control_info/y` at the same time lose one of the two
  (`api/controllers/v1/node.py:621-626`), though a patch names the key alone: without `shared`,
  `NoLostUpdate` is false;
- the answer of a get has no entry for a node that was locked between the API's filter and the conductor's
  list (`conductor/task_manager.py:203-205`), neither "Locked temporarily" nor an error;
- the cache of an image on a conductor is filled by a call with the wrong number of arguments
  (`copycd/cache.py:59`).

### Fairness

`Reservation`: a task that is alive goes on (`WF` of `Proceed`, per task): an eventlet greenthread
is scheduled, retries wait a bounded time, and the work under the lock ends because handlers wait
at most `CONF.conductor.timeout`.  Nobody is obliged to make requests, and there is no fairness
between tasks that compete for a node: `RequestAnswered` follows from the bound on attempts.

`ServiceRegistry`: time passes (`SF` of `Tick`, which heartbeats that are due put off for a
moment only); a process goes on with its start, its keepalive and its stop (`WF` each); and of the
heartbeats tried again and again one gets through (`SF` of `Touch`), that is, the database is not away
for ever.  Nobody is obliged to start, stop or signal a process, and nothing has to fail.

`Requests`: the API goes on, RPC calls time out, and a handler's wait for its greenthreads ends,
at the latest after `CONF.conductor.timeout`.  Greenthreads are not obliged to end, nor conductors to
take a call: that requests are answered all the same is what the timeouts are for.  The fairness is
`WF` of one disjunction, which is as strong as one of each here: slots are used once, so every step of
it is progress and only finitely many are possible.

The other modules have safety properties and no fairness.

## 4. Proofs

`Reservation_proofs`, `Deployment_proofs`, `ServiceRegistry_proofs`, `Requests_cuts`, `Requests_proofs`,
`DhcpService_proofs`, `PowerControl_proofs` and `Catalog_proofs` are checked by tlapm to the last leaf,
for all values of the constants under the modules' ASSUMEs.  Every invariant that a run checks is
stated by one of the theorems, some with a premise, which is part of the theorem.

| Theorem | Statement | Needs |
|---|---|---|
| `Reservation_proofs!TypeCorrect` | `Spec => []TypeOK` | |
| `LockExcludes` | `Spec => []MutualExclusion` | no name twice |
| `HeldStaysReserved` | `Spec => []HeldIsReserved` | no name twice |
| `ReservationImplementsNodeLock` | `Spec => ImplementsNodeLock` | no name twice |
| `ReservationsHaveHolders` | `Spec => []EveryReservationHasHolder` | no faults |
| `GroupsAreLockedWhole` | `Spec => WholeGroupOrNothing` | |
| `OwnHostReleases` | `Spec => OnlyOwnHostReleases` | |
| `Deployment_proofs!TypeCorrect` | `Spec => []TypeOK` | |
| `DeployingIsInCharge` | `Spec => []DeployingHasConductor` | |
| `InstallFindsTemplate` | `Spec => []InstallHasTemplate` | `NoOverrun`: no timeout, no full pool |
| `DeployingServed` | `Spec => []DeployingIsServed` | `RecordsKept`: `NoOverrun`, no `dberror`, no clean or destroy, pxe or no `workerfail` |
| `BootsDisk` | `Spec => []DeployedBootsDisk` | `OneWriter`: `NoOverrun`, no `dberror`, one host |
| `FilesRemoved` | `Spec => []CleanRemovesFiles` | `OneWriter`, no `workerfail` |
| `ServiceRegistry_proofs!TypeCorrect` | `Spec => []TypeOK` | |
| `StartSucceeds` | `Spec => []RegistrationSucceeds` | |
| `RunningIsListed` | `Spec => []RunningStaysListed` | no `dberror` |
| `ImplementsSafety` | `Spec => Promise!MembershipSafety` | |
| `Requests_cuts!AnyPiecesAre`, `AffinityPiecesAre` | the pieces of `get_topic_for` and of `get_topic_for_affinity` share no node; none is left out | the latter: one or two conductors; no two conductors on one host |
| `Requests_proofs!TypeCorrect` | `Spec => []TypeOK` | |
| `NoTwoCalls` | `Spec => []OneCallPerNode` | |
| `SuccessIsTrue` | `Spec => []AnswerIsTrue` | |
| `RefusedStayHome` | `Spec => []RefusedIsUntouched` | |
| `CutsLeaveNothingOut` | `Spec => []CutsArePartitions` | |
| `NobodyForgotten` | `Spec => []AnswerCoversAll` | one or two conductors |
| `DhcpService_proofs!TypeCorrect` | `Spec => []TypeOK` | |
| `AnsweredStaysServed` | `Spec => []AnsweredIsServed` | |
| `SubnetsAreFollowed` | `Spec => []SubnetsFollowNetworks` | |
| `PowerControl_proofs!TypeCorrect` | `Spec => []TypeOK` | |
| `AnswersAreWitnessed` | `Spec => []AnswersAreTrue` | |
| `DoneIsKept` | `Spec => []DoneStaysDone` | `OwnMachines`: no two nodes are one machine |
| `Catalog_proofs!TypeCorrect` | `Spec => []TypeOK` | |
| `NothingIsLost` | `Spec => []NoLostUpdate` | |
| `PostsAreWhole` | `Spec => []CreatedIsWhole` | |
| `UsedImagesKeepTrees` | `Spec => []UsedImageHasTree` | |

*The lock.*  `MutualExclusion` is not inductive: that two tasks hold different rows says nothing of
what the next reservation or release will touch.  The strengthening `IInv` adds that a row held
carries the tag of its holder's host (`HeldIsReserved`), so that no second reservation can count it
as free, and `WorksOnItsNames`: the rows a task has are those of the names it asked for, the row
each of these names has *now* among them.  The last is what a release by host and name relies on:
it frees the task's own rows and nobody else's.  A name used twice breaks it.  The refinement follows
from the same invariant, each action mapping to `Acquire`, `Release`, `Remove` or `Abandon` of
NodeLock, or to a stutter.

*A conductor in charge.*  `DeployingHasConductor` is inductive given that a handler that runs has a
host; the step that matters is clean's save, in which the state of every node whose affinity is
reset is reset as well.

*The template.*  `InstallHasTemplate` is far from inductive: between its two writes, a greenthread
relies on nobody else writing.  The invariant `FilesInv` says that locks of different tasks are
disjoint; that a greenthread at work has its node locked; that a handler which has gone on has no
greenthread at work; that there are no left-over greenthreads (the premise); and what a greenthread
between its writes has already done: provision has written the template, clean and the callback
have taken the install configuration away.

*What a node being deployed relies on.*  The record, the columns and the files are written at
different moments, so the invariants say of every node that it is settled (`Settled`: it is not being
deployed, or has called back, or is `Served`), or that a handler has it in hand and will settle it
(`Unsettled`), or that its holder went down and it is locked for good (`Abandoned`, which every step
keeps).  That a handler does settle it is what `BaseInv` is for: a handler at work holds all its nodes,
so that no two have one in common (`WorkApart`); it waits for all; and the progress of each greenthread
tells which files are written (`Work`, `Written`).  `Records` adds what the record transactions have done by
each phase.  The save of provision then finds its successful nodes with record and files at its own
host, and writes that host into the column.  Each premise stands for something the code lets go
wrong: a transaction that fails between record and column, a greenthread that writes after its
handler, a clean or destroy that takes the record without (or before) the lock, and a callback of
petitboot that raises after it has switched the node to its disk.

*The files of the only host.*  `DeployedBootsDisk` and `CleanRemovesFiles` share `BaseInv` and the
pattern: a deployed node has no install configuration (`NoReinstall`), an undeployed one has no file
at all (`Bare`), or a provision at work has the node in hand (`Building`, `Touching`), or it is
abandoned.  The steps that write neither file nor state are shown to leave a provision at work
(`QuietGoOn`); a save finds all its greenthreads done (`WaitedFor`), so that provision moves each node
whose files it touched to deploying (`SaverKeeps`), the callback has switched its node to disk and the
clean has removed both files.  With a second host, what the saving handler knows of the files is true of
its own host only.  With failing greenthreads, a provision leaves a template behind without a state
to tell, and clean sets back the state of nodes it left half cleaned.

*The registration.*  `RegistrationSucceeds` needs that the second call never gets to an insert
(`NothingReinserted`): the first call ran into a row, and rows stay, for a stop marks them offline and no
process deletes any (`RowsStay`).  So `RegInv` says that who registers again has a row (`RegisteredHaveRow`), which
the look-up then takes over whether it is online or not.  A `del_host` that deleted the row would break it:
the second look-up would find none and its insert could lose to a third process, or to a restarted one.

*The heartbeat.*  `RunningStaysListed` speaks of the age of a row, which others write as well, and
of heartbeats lost.  The invariant `BeatInv` bounds the age by what has passed since the last heartbeat
of this process: `misses * Interval + clock` while its keepalive waits, `(misses + 1) * Interval` when a
heartbeat is due; with it, that the keepalive of a running process has not ended (the premise: only
lost connections), and that the row of who has registered is there (`RegInv`).  Time adds one to both
sides, siblings only make the row younger, and a stop does not touch the age (`AgeStep`).  The
product is the only arithmetic that is not linear; `OneMoreInterval` has what is needed of it.

*The list of services.*  `ImplementsSafety` maps registration and heartbeats to `Enlist`, launch to
`Start`, exit and crash to `Stop`, time to `Lapse`, and all else to a stutter (a `Lapse` of nothing).
It needs `RegInv`: that a process which is down has no keepalive, or its heartbeat would enlist a host
for nobody.

*The cuts.*  A slice is an interval of the list, and the cut of two conductors is at one point; the pieces
of a conductor are one slice per worker, of which the last takes what is left (`Requests_cuts`).  That each
node has one piece is arithmetic on the bounds of the slices, for any number of nodes and workers.  From
the third conductor on, the start of a slice and the end of the one before do not meet, which is the
finding of `requests_three`; that slices never overlap holds for any number, and is what `OneCallPerNode`
needs.

*What a request answers.*  `IInv` ties together the request, its pieces that wait for a call and its calls:
none share a node; the calls of a request come after its filter; refused nodes are in neither; a reply
comes of a handler that is over, which has dealt with each of its nodes that is there; and what a call
counts as done was
done for this request (`done`, kept until the request is over, `GoodCall`).  A call that times out
changes no answer to success.  `Covered` follows the nodes from the request to the answer: refused,
in a piece, in a call, or answered already; the one place where nodes could fall out is the cut.  A get
falls short of its nodes in the conductor's list as well: `ListInv` says that of the nodes a get has still to
list, those that are locked are in `lockedSince`, and that a node its handler did not see is in there too or
is deleted.

*What dhcpd serves.*  Both properties speak of moments at which no generation is about to spoil
things, so the invariants say what the generations under way carry.  They share `GenInv`: two
generations on one host are never alone and are marked in `mixed` (`Apart`), and a generation for a
request is on the host that the request found (`Askers`).  `RecInv` adds what a generation is about to
write (`Keeps`): if it is alone, or nothing is mixed, the records of all requests that were answered
before; and in any case the record of the request it is for, which was in the table before the generation
read it.  `SubInv` follows the networks: while a host has heard of all changes and has none of them in its
queue (`Quiet`), a restart there has listed the networks as they are, and once it has set the subnets, they are
those (`Follows`).  A change takes this away from every host; it comes back to a host by a message, which begins a
restart that has listed nothing (`RestartFollows`), or when a restart lists the networks anyway (`ListFollows`).
A service to which no message was sent stays in `unheard` and is promised nothing.  A restart that is not
alone promises nothing either, which is why the properties except what is mixed.

*What a plugin answers.*  A greenthread works on the machine of its node only after its plugin has
found one (`Placed`; that the first of the listed machines exists is `MinIsIn`), on the steps of its
operation: without this not even the types are inductive, for a step on no machine may do anything.
`Witnessed` says that a command under way has seen the machine as it is *now*, whoever changed it
(`BecomesWitnessed`), and that one which is about to compare the state after a start has seen the start;
each outcome is then one of the things seen.

*What stays done.*  `DoneInv` says of the last command of a node that succeeded that no other command
that changes something is at work on it, unless the node is `disturbed`, and that its machine follows
it (`LastFollowed`, `Follows`): a virtual machine is as asked, a server is so or its BMC has it pending and
nothing else; a device that the BMC refused marks the node `disturbed` (`RefusalKeeps`).  It needs that the
steps of a command are those of its operation (`OnItsWay`) and that
nothing is ever pending for a virtual machine (`QuietVms`).  Nothing in the code prevents two nodes
with the same BMC address or guest name, and a command of one then undoes that of the other without
the node lock being in the way: `OwnMachines` names this as the premise.

*The tables.*  `CatalogInv` has the constraints of the database (`TablesInv`), what every request answers
(`Answers`), what it has inserted so far (`Creates`), and what it has read of images (`Images`).  A step of
one request must not spoil what another one relies on between its transactions, so all steps are first
shown to go `Onward`: a row comes from a row of the same id, or is new, of this request, and has a larger
id than all before.  So a count of the ids that a POST has made (`Made`, `WithNic`) never falls, deleted
rows included, and rows once read are recognised by their ids.  `NoLostUpdate` is part of
the invariant (`Right`): it compares the attributes of rows with the history of what was asked.  Of a plain column
that is all, for a PATCH writes only the columns it changed.  Of a JSON column `AsRead` says what its
whole write relies on: each key that a PATCH has read is what the row has now, or was written in the
meantime and is in `shared`; a write by another request keeps that (`Kept`), as it marks the keys of every
PATCH that has the row read and not written (`Readers`).  For the files, a deletion that has looked at the nodes marks a provision that gets in
between as `raced` at the provision's save, and from there on nothing more is promised.

Only model-checked: the liveness properties (`LockIsTemporary`, `RequestAnswered` of two modules,
`HandlersEnd`, `RunningIsShownOnline`, and the leads-to part of Membership, hence
`ImplementsMembership` as a whole).  They rest on ENABLED and fairness, out of this prover's reach.

## 5. Not modelled

Per component in PROJECT.json.  In short:

- The text of configurations and templates, the command lines and REST calls of the power plugins,
  address arithmetic, WSGI plumbing, configuration and schema migration: functions of their input,
  or no behaviour of the kind studied here.
- GETs that only show rows, and the coercion of fields.
- A conductor's own cache of images: in Catalog, API and conductor share one host and its install
  directory, where `destroy_osimages` is taken to be one step.
- A PATCH that moves a nic to another node.
- openbmc: no plugin map names it, so no node can use it.
- The clock and the workers column of a row in the services table beyond what ServiceRegistry and
  Requests say of them.

## 6. Plan

What is left, most important first:

1. The composition of Deployment over Reservation instead of NodeLock, and that it implements
   Deployment over NodeLock.
2. An abstract specification of an answered request, which Requests implements, to stand between
   Requests and the handlers.
3. `DeployingIsServed` with clean among the requests, for nodes no clean was refused for.
4. The cache of images on conductors that do not share the API's directory.
