------------------------------- MODULE Catalog -------------------------------
(***************************************************************************)
(* The database tables and the requests that write them: nodes and their   *)
(* nics, networks, passwords, and os images with their files               *)
(* (api/controllers/v1, objects, db/sqlalchemy/api.py, copycd).  A request *)
(* is a few transactions with what it read carried from one to the next,   *)
(* and nothing keeps two requests apart but the constraints of the         *)
(* database and, for some, the lock of a node.  An action is one           *)
(* transaction with the code around it.  API and conductor share a host.   *)
(***************************************************************************)
EXTENDS Naturals, FiniteSets, FiniteSetsExt

CONSTANTS
    Request,        \* request slots, each used once
    Menu,           \* the requests of an instance (a bound), see Requested
    Key,            \* names of nodes, networks and images, keys of passwords, macs
    MacOf,          \* node name -> the mac of the nic that it is posted with
    Distro,         \* distribution, version and architecture of an image
    Iso,            \* distro -> its installation medium: the file that names it, see Medium
    Initial,        \* the tables that an instance may start from (a bound)
    BulkSize,       \* that many nodes are created in bulk (15 in the code)
    MaxId,          \* ids that a table gives out (bound)
    NoRequest, NoDistro, NoKey

Kind == {"node", "nic", "network", "passwd", "osimage"}
\* Attributes of a row: two keys of a column that holds a JSON document
\* (control_info, console_info, extra), and a plain column, which of
\* a node a provision sets.
Nested == {"a", "c"}
Field == Nested \union {"b"}
Value == {"old", "new", "none"}

\* op on the rows named by keys.  A PATCH sets field to value, removes it
\* (none), or renames the row to newkey; a nic is posted to the node newkey; an
\* image is of a distro; a provision is of the image newkey.
Requested == [op : {"post", "delete", "patch", "provision", "copycd"}, kind : Kind,
              keys : (SUBSET Key) \ {{}}, field : Field \union {"key"}, value : Value,
              newkey : Key \union {NoKey}, distro : Distro \union {NoDistro}]

\* An installation medium: the file that says what it is, the product that this
\* file names, the architecture, and whether kernel and initrd are where they
\* are looked for.
Medium == [file : {".discinfo", ".disk/info", "none"}, product : {"redhat", "ubuntu", "other"},
           arch : {"x86_64", "ppc64le", "other", "none"}, kernel : BOOLEAN]

\* A row refers to another one by its id (ref): a nic to its node, a node to its
\* image; 0 is NULL.  History: the request that inserted it (by), whether it was
\* renamed, what its attributes should be after the patches (asked), and those
\* that were written in the middle of another PATCH of their column (shared).
Row == [id : 1..MaxId, key : Key, attrs : [Field -> Value], ref : 0..MaxId,
        distro : Distro \union {NoDistro}, locked : BOOLEAN,
        by : Request \union {NoRequest}, renamed : BOOLEAN, asked : [Field -> Value],
        shared : SUBSET Nested]

\* The constraints of the database: no key is used twice in a table, and
\* references lead somewhere.
Consistent(t) ==
    /\ \A k \in Kind : \A r, s \in t[k] : r.key = s.key \/ r.id = s.id => r = s
    /\ \A n \in t["nic"] : \E r \in t["node"] : r.id = n.ref
    /\ \A n \in t["node"] : n.ref = 0 \/ \E r \in t["osimage"] : r.id = n.ref

\* What a request has when it comes: a new name if it renames, and a distro if it
\* makes an image; passwords and images have plain columns only.
Complete(m) ==
    /\ IsFiniteSet(m.keys)
    /\ m.field = "key" => m.newkey \in Key
    /\ m.op = "patch" /\ m.field \in Nested => m.kind \in {"node", "nic", "network"}
    /\ m.kind = "osimage" /\ m.op \in {"post", "copycd"} => m.distro \in Distro

ASSUME CatalogAssumption ==
    /\ Iso \in [Distro -> Medium]
    /\ Menu \subseteq Requested /\ \A m \in Menu : Complete(m)
    /\ Initial \subseteq [Kind -> SUBSET Row]
    /\ \A t \in Initial :
        /\ Consistent(t)
        /\ \A k \in Kind : \A r \in t[k] : r.by = NoRequest /\ r.attrs = r.asked
        /\ \A r \in t["osimage"] : r.distro \in Distro
    /\ MacOf \in [Key -> Key]
    /\ NoRequest \notin Request /\ NoDistro \notin Distro /\ NoKey \notin Key
    /\ BulkSize \in Nat /\ MaxId \in Nat

VARIABLES
    rows,           \* table -> its rows
    ids,            \* table -> the last id given out
    req,            \* request -> what its code holds
    files,          \* distros whose tree and iso are in the install directory
    casts,          \* <<distro, sender>> of the destroy_osimage messages on their way
    gone,           \* history: table -> the rows deleted
    raced           \* history: distros whose files went away in a race

tables == <<rows, ids, gone>>
fileVars == <<files, casts, raced>>
vars == <<tables, req, fileVars>>

\* seen: the rows that it read; held: those of the nodes that it reserved.
Idle(menu) == [m |-> menu, phase |-> "idle", seen |-> {}, held |-> {}, ok |-> {}, failed |-> {}]

\* The constraints of the database hold, and a finished request has an answer
\* for every name.
TypeOK ==
    /\ \A k \in Kind : rows[k] \subseteq Row /\ ids[k] \in 0..MaxId
    /\ files \subseteq Distro /\ casts \subseteq Distro \X Request /\ raced \subseteq Distro
    /\ Consistent(rows)
    /\ \A q \in Request :
        /\ req[q].ok \intersect req[q].failed = {}
        /\ req[q].phase = "done" => req[q].ok \union req[q].failed = req[q].m.keys

Init ==
    /\ rows \in Initial
    /\ ids = [k \in Kind |-> Max({0} \union {r.id : r \in rows[k]})]
    /\ \E menu \in [Request -> Menu] : req = [q \in Request |-> Idle(menu[q])]
    /\ files = {r.distro : r \in rows["osimage"]}
    /\ casts = {} /\ gone = [k \in Kind |-> {}] /\ raced = {}

-----------------------------------------------------------------------------
(* The database.  The constraints that would refuse a write are looked at   *)
(* by the action; the operators here are the writes.                        *)

ByKey(kind, keys) == {r \in rows[kind] : r.key \in keys}
ById(kind, is) == {r \in rows[kind] : r.id \in is}
Ids(rs) == {r.id : r \in rs}
Keys(rs) == {r.key : r \in rs}

\* uniq_network0name, uniq_nodes0name, uniq_nics0mac, ...
Taken(kind, keys) == ByKey(kind, keys) # {}

NewRow(id, key, ref, distro, q) ==
    [id |-> id, key |-> key, attrs |-> [f \in Field |-> "old"], ref |-> ref,
     distro |-> distro, locked |-> FALSE, by |-> q, renamed |-> FALSE, asked |-> [f \in Field |-> "old"],
     shared |-> {}]

\* Each key of the set keys gets a row of its own; refs says what it refers to.
NewIds(kind, keys) ==
    CHOOSE f \in [keys -> ids[kind] + 1..ids[kind] + Cardinality(keys)] :
        \A j, k \in keys : f[j] = f[k] => j = k

Room(kind, n) == ids[kind] + n <= MaxId

Insert(kind, keys, refs, distro, q) ==
    /\ Room(kind, Cardinality(keys))
    /\ LET new == NewIds(kind, keys)
       IN  rows' = [rows EXCEPT ![kind] =
                        @ \union {NewRow(new[k], k, refs[k], distro, q) : k \in keys}]
    /\ ids' = [ids EXCEPT ![kind] = @ + Cardinality(keys)]
    /\ UNCHANGED gone

\* MUTANT: the nics of the nodes stay.
DeleteAlone(kind, is) ==
    /\ rows' = [rows EXCEPT ![kind] = {r \in @ : r.id \notin is}]
    /\ gone' = [gone EXCEPT ![kind] = @ \union ById(kind, is)]
    /\ UNCHANGED ids

\* The nics of a node go in the transaction that deletes the node.
Delete(kind, is) ==
    LET out(k) == CASE k = kind -> ById(k, is)
                    [] k = "nic" /\ kind = "node" -> {n \in rows["nic"] : n.ref \in is}
                    [] OTHER -> {}
    IN  /\ rows' = [k \in Kind |-> rows[k] \ out(k)]
        /\ gone' = [k \in Kind |-> gone[k] \union out(k)]
        /\ UNCHANGED ids

-----------------------------------------------------------------------------
(* Requests.                                                                *)

M(q) == req[q].m
Is(q, op, kind) == M(q).op = op /\ M(q).kind = kind
At(q, phase) == req[q].phase = phase
Todo(q) == M(q).keys \ (req[q].ok \union req[q].failed)

Proceed(q, phase, seen) == req' = [req EXCEPT ![q].phase = phase, ![q].seen = seen]

\* The answer is ready; with nodes reserved the lock is given back first.
End(q) == IF req[q].held = {} THEN "done" ELSE "release"
Answer(q, ok, failed) ==
    req' = [req EXCEPT ![q].phase = End(q), ![q].seen = {}, ![q].ok = ok, ![q].failed = failed]

Succeed(q) == Answer(q, req[q].ok \union Todo(q), req[q].failed)
\* An exception answers for the whole request.
Fail(q) == Answer(q, {}, M(q).keys)

\* get_by_name and its like: the row, or an exception; the request goes on to
\* the phase next with it.
Get(q, kind, next) ==
    /\ At(q, "idle")
    /\ LET found == ByKey(kind, M(q).keys)
       IN  IF found = {} THEN Fail(q) ELSE Proceed(q, next, found)
    /\ UNCHANGED <<tables, fileVars>>

\* What a PATCH makes of a row that it read: only the columns that changed are
\* written (obj_get_changes), into the row as it is now; a JSON document is one
\* column, and its other keys are written as they were read.
Changed(q, r) == IF M(q).field = "key" THEN r.key # M(q).newkey
                 ELSE r.attrs[M(q).field] # M(q).value

Column(field) == IF field \in Nested THEN Nested ELSE {field}

\* History: the attributes that q writes while another PATCH of their JSON
\* column has read the row s and not written it.
SharedBy(q, s) ==
    IF \E p \in Request \ {q} : /\ Is(p, "patch", M(q).kind) /\ At(p, "save")
                               /\ M(p).field \in Nested /\ s.id \in Ids(req[p].seen)
    THEN Nested \intersect Column(M(q).field) ELSE {}

Put(q, attrs, now) ==
    [now EXCEPT !.attrs = attrs, !.asked = [@ EXCEPT ![M(q).field] = M(q).value],
                !.shared = @ \union SharedBy(q, now)]

Renamed(q, now) == [now EXCEPT !.key = M(q).newkey, !.renamed = TRUE]

\* MUTANT: all columns are written as they were read.
WrittenWhole(q, r, now) ==
    IF M(q).field = "key" THEN Renamed(q, now)
    ELSE Put(q, [r.attrs EXCEPT ![M(q).field] = M(q).value], now)

Written(q, r, now) ==
    IF M(q).field = "key" THEN Renamed(q, now)
    ELSE Put(q, [f \in Field |-> IF f = M(q).field THEN M(q).value
                                ELSE IF f \in Column(M(q).field) THEN r.attrs[f] ELSE now.attrs[f]],
             now)

\* Would writing the rows rs give one name to two rows?
Clash(q, kind, rs) ==
    /\ M(q).field = "key" /\ rs # {}
    /\ Cardinality(rs) > 1 \/ ~ Ids(ByKey(kind, {M(q).newkey})) \subseteq Ids(rs)

\* The write of what changed in the rows rs, by their ids.
Write(q, kind, rs) ==
    LET hit == {s \in rows[kind] : \E r \in rs : r.id = s.id /\ Changed(q, r)}
        read(s) == CHOOSE r \in rs : r.id = s.id
    IN  /\ rows' = [rows EXCEPT ![kind] = (@ \ hit) \union {Written(q, read(s), s) : s \in hit}]
        /\ UNCHANGED <<ids, gone>>

\* save: the row must still be there, and a new name free.
Save(q, kind) ==
    /\ At(q, "save")
    /\ IF \/ ~ Ids(req[q].seen) \subseteq Ids(rows[kind]) \/ Clash(q, kind, req[q].seen)
       THEN Fail(q) /\ UNCHANGED tables
       ELSE Write(q, kind, req[q].seen) /\ Succeed(q)
    /\ UNCHANGED fileVars

Create(q, kind) ==
    /\ At(q, "idle")
    /\ IF Taken(kind, M(q).keys) THEN Fail(q) /\ UNCHANGED tables
       ELSE /\ Insert(kind, M(q).keys, [k \in M(q).keys |-> 0], M(q).distro, q)
            /\ Succeed(q)
    /\ UNCHANGED fileVars

\* destroy: the rows victims, if there are any.
Destroy(q, kind, victims) ==
    /\ IF victims = {} THEN Fail(q) /\ UNCHANGED tables
       ELSE Delete(kind, Ids(victims)) /\ Succeed(q)
    /\ UNCHANGED fileVars

\* Those of networks and passwords are named by the name that was read.
DestroyNamed(q, kind) ==
    /\ At(q, "destroy")
    /\ Destroy(q, kind, ByKey(kind, Keys(req[q].seen)))

-----------------------------------------------------------------------------
(* Networks and passwords.                                                  *)

NetworkPost(q) == Is(q, "post", "network") /\ Create(q, "network")
PasswdPost(q) == Is(q, "post", "passwd") /\ Create(q, "passwd")

\* JsonPatchType.validate: the name is an internal attribute of a network; the
\* patch types of passwords and images let the key and the name through, and the
\* patches of nodes are not validated.
Refused(q) == M(q).kind = "network" /\ M(q).field = "key"

\* get_by_name, get_by_key
NetworkGet(q, next) == Get(q, "network", next)
PasswdGet(q, next) == Get(q, "passwd", next)

NetworkPatch(q) ==
    /\ Is(q, "patch", "network")
    /\ \/ Refused(q) /\ At(q, "idle") /\ Fail(q) /\ UNCHANGED <<tables, fileVars>>
       \/ ~ Refused(q) /\ NetworkGet(q, "save")

PasswdPatch(q) == Is(q, "patch", "passwd") /\ PasswdGet(q, "save")

NetworkSave(q) == Is(q, "patch", "network") /\ Save(q, "network")
PasswdSave(q) == Is(q, "patch", "passwd") /\ Save(q, "passwd")

NetworkDelete(q) == Is(q, "delete", "network") /\ NetworkGet(q, "destroy")
PasswdDelete(q) == Is(q, "delete", "passwd") /\ PasswdGet(q, "destroy")

NetworkDestroy(q) == Is(q, "delete", "network") /\ DestroyNamed(q, "network")
PasswdDestroy(q) == Is(q, "delete", "passwd") /\ DestroyNamed(q, "passwd")

-----------------------------------------------------------------------------
(* Nics.  A PATCH that moves a nic to another node is left out.             *)

NicPost(q) ==
    /\ Is(q, "post", "nic") /\ At(q, "idle")
    /\ LET node == ByKey("node", {M(q).newkey})
       IN  IF node = {} THEN Fail(q) ELSE Proceed(q, "create", node)
    /\ UNCHANGED <<tables, fileVars>>

\* MACAlreadyExists, or the node is gone (the foreign key).
NicCreate(q) ==
    /\ Is(q, "post", "nic") /\ At(q, "create")
    /\ \E node \in req[q].seen :
        IF Taken("nic", M(q).keys) \/ ById("node", {node.id}) = {}
        THEN Fail(q) /\ UNCHANGED tables
        ELSE /\ Insert("nic", M(q).keys, [k \in M(q).keys |-> node.id], NoDistro, q)
             /\ Succeed(q)
    /\ UNCHANGED fileVars

\* get_by_uuid
NicGet(q, next) == Get(q, "nic", next)

NicDelete(q) == Is(q, "delete", "nic") /\ NicGet(q, "destroy")

NicDestroy(q) ==
    /\ Is(q, "delete", "nic") /\ At(q, "destroy")
    /\ Destroy(q, "nic", ById("nic", Ids(req[q].seen)))

NicPatch(q) == Is(q, "patch", "nic") /\ NicGet(q, "save")

\* update_nic, with MACAlreadyExists for a mac that another nic has.
NicSave(q) == Is(q, "patch", "nic") /\ Save(q, "nic")

-----------------------------------------------------------------------------
(* Nodes.  An entry of a POST has one nic, with the mac MacOf[name].        *)

MacsOf(names) == {MacOf[n] : n \in names}
SameMac(names) == \E j, k \in names : j # k /\ MacOf[j] = MacOf[k]

\* singal_create: a transaction for each node with its nics.
NodePost(q) ==
    /\ Is(q, "post", "node") /\ At(q, "idle")
    /\ Cardinality(M(q).keys) < BulkSize
    /\ \E name \in Todo(q) :
        LET phase == IF Todo(q) = {name} THEN "done" ELSE "idle"
        IN  IF Taken("node", {name}) \/ Taken("nic", {MacOf[name]})
            THEN /\ req' = [req EXCEPT ![q].phase = phase, ![q].failed = @ \union {name}]
                 /\ UNCHANGED tables
            ELSE /\ Room("node", 1) /\ Room("nic", 1)
                 /\ LET id == ids["node"] + 1
                        mac == MacOf[name]
                    IN  rows' = [rows EXCEPT
                            !["node"] = @ \union {NewRow(id, name, 0, NoDistro, q)},
                            !["nic"] = @ \union {NewRow(ids["nic"] + 1, mac, id, NoDistro, q)}]
                 /\ ids' = [ids EXCEPT !["node"] = @ + 1, !["nic"] = @ + 1]
                 /\ req' = [req EXCEPT ![q].phase = phase, ![q].ok = @ \union {name}]
                 /\ UNCHANGED gone
    /\ UNCHANGED fileVars

\* bulk_create leaves out the names that there are.
BulkCheck(q) ==
    /\ Is(q, "post", "node") /\ At(q, "idle")
    /\ Cardinality(M(q).keys) >= BulkSize
    /\ LET dups == Keys(ByKey("node", M(q).keys))
       IN  req' = [req EXCEPT ![q].failed = dups,
                              ![q].phase = IF dups = M(q).keys THEN "done" ELSE "insert"]
    /\ UNCHANGED <<tables, fileVars>>

\* MUTANT: a name that was taken meanwhile is skipped.
Fresh(q) == Todo(q) \ Keys(ByKey("node", Todo(q)))

Bulk(q) == Todo(q)

\* create_nodes inserts the nodes in a first transaction ...
BulkInsertNodes(q) ==
    /\ Is(q, "post", "node") /\ At(q, "insert")
    /\ IF Taken("node", Bulk(q)) THEN Fail(q) /\ UNCHANGED tables
       ELSE /\ Insert("node", Bulk(q), [n \in Bulk(q) |-> 0], NoDistro, q)
            /\ Proceed(q, "ids", {})
    /\ UNCHANGED fileVars

\* ... looks their ids up by their names; a KeyError for a name that is not there ...
BulkLookUp(q) ==
    /\ Is(q, "post", "node") /\ At(q, "ids")
    /\ LET found == ByKey("node", Todo(q))
       IN  IF Keys(found) = Todo(q) THEN Proceed(q, "nics", found) ELSE Fail(q)
    /\ UNCHANGED <<tables, fileVars>>

\* ... and inserts the nics in a second one, which leaves the nodes there when
\* it fails.
BulkInsertNics(q) ==
    /\ Is(q, "post", "node") /\ At(q, "nics")
    /\ LET macs == MacsOf(Todo(q))
           idOf(mac) == (CHOOSE r \in req[q].seen : MacOf[r.key] = mac).id
       IN  IF SameMac(Todo(q)) \/ Taken("nic", macs) \/ ~ Ids(req[q].seen) \subseteq Ids(rows["node"])
           THEN Fail(q) /\ UNCHANGED tables
           ELSE Insert("nic", macs, [m \in macs |-> idOf(m)], NoDistro, q) /\ Succeed(q)
    /\ UNCHANGED fileVars

\* _filter_unavailable_nodes: names that are not there and, but for a PATCH,
\* nodes that are locked are answered for at once.
OnNodes(q) == M(q).kind = "node" /\ M(q).op \in {"delete", "patch", "provision"}
Unavailable(q) ==
    {n \in M(q).keys : \A r \in ByKey("node", {n}) : M(q).op # "patch" /\ r.locked}

NodesFilter(q) ==
    /\ OnNodes(q) /\ At(q, "idle")
    /\ req' = [req EXCEPT ![q].failed = Unavailable(q),
                          ![q].phase = IF Unavailable(q) = M(q).keys THEN "done" ELSE "read"]
    /\ UNCHANGED <<tables, fileVars>>

\* PATCH reads the nodes without their lock ...
NodesPatch(q) ==
    /\ Is(q, "patch", "node") /\ At(q, "read")
    /\ Proceed(q, "save", ByKey("node", Todo(q)))
    /\ UNCHANGED <<tables, fileVars>>

\* The patches are one list for all nodes: the removal of a key that the JSON
\* column of a node does not have takes it off the list for the nodes that come
\* after (apply_jsonpatch).
Patched(q) ==
    LET lacking == {r \in req[q].seen : M(q).field \in Nested /\ r.attrs[M(q).field] = "none"}
    IN  IF M(q).value # "none" \/ lacking = {} THEN {req[q].seen}
        ELSE SUBSET (req[q].seen \ lacking)

\* ... and writes them in one transaction (update_nodes).  A row that is gone is
\* an error when it is the only one to be written; with others the driver may
\* not count them.
NodesSave(q) ==
    /\ Is(q, "patch", "node") /\ At(q, "save")
    /\ \E rs \in Patched(q) :
        LET writes == {r \in rs : Changed(q, r)}
            missing == Ids(writes) \ Ids(rows["node"])
        IN  \/ /\ missing # {} \/ Clash(q, "node", writes)
               /\ Fail(q) /\ UNCHANGED tables
            \/ /\ missing = {} \/ Cardinality(writes) > 1
               /\ ~ Clash(q, "node", writes)
               /\ Write(q, "node", rs) /\ Succeed(q)
    /\ UNCHANGED fileVars

\* TaskManager in the conductor: all of the names, or NodeLocked or NodeNotFound.
NodesLock(q, from, next) ==
    /\ At(q, from)
    /\ LET found == ByKey("node", Todo(q))
       IN  IF Keys(found) # Todo(q) \/ \E r \in found : r.locked
           THEN Fail(q) /\ UNCHANGED tables
           ELSE /\ rows' = [rows EXCEPT !["node"] =
                                {[r EXCEPT !.locked = @ \/ r \in found] : r \in @}]
                /\ req' = [req EXCEPT ![q].phase = next, ![q].held = found]
                /\ UNCHANGED <<ids, gone>>
    /\ UNCHANGED fileVars

\* release_nodes unlocks by name; the answer goes out.
NodesRelease(q) ==
    /\ At(q, "release")
    /\ rows' = [rows EXCEPT !["node"] =
                    {[r EXCEPT !.locked = @ /\ r.key \notin Keys(req[q].held)] : r \in @}]
    /\ req' = [req EXCEPT ![q].phase = "done", ![q].held = {}]
    /\ UNCHANGED <<ids, gone, fileVars>>

NodesDelete(q) == Is(q, "delete", "node") /\ NodesLock(q, "read", "destroy")

\* destroy_nodes: not of a node that is being deployed.
NodesDestroy(q) ==
    /\ Is(q, "delete", "node") /\ At(q, "destroy")
    /\ LET out == {r \in req[q].held : r.attrs["b"] # "new"}
       IN  IF out # {} /\ ById("node", Ids(out)) = {} THEN Fail(q) /\ UNCHANGED tables
           ELSE /\ Answer(q, Keys(out), req[q].failed \union (Keys(req[q].held) \ Keys(out)))
                /\ Delete("node", Ids(out))
    /\ UNCHANGED fileVars

-----------------------------------------------------------------------------
(* Images and their files; a provision uses both.                           *)

ImagePost(q) == Is(q, "post", "osimage") /\ Create(q, "osimage")
ImagePatch(q) == Is(q, "patch", "osimage") /\ Get(q, "osimage", "save")
ImageSave(q) == Is(q, "patch", "osimage") /\ Save(q, "osimage")

DistrosOf(rs) == {r.distro : r \in rs}
Users(images) == {n \in rows["node"] : n.ref \in Ids(images)}

ImageDelete(q) == Is(q, "delete", "osimage") /\ Get(q, "osimage", "check")

\* MUTANT: the nodes that use the image are not looked at.
NotInUse(q) == TRUE

Unused(q) == Users(req[q].seen) = {}

\* ResourceInUsing, or the conductors are told ...
ImageInUse(q) ==
    /\ Is(q, "delete", "osimage") /\ At(q, "check")
    /\ IF Unused(q)
       THEN /\ casts' = casts \union {<<d, q>> : d \in DistrosOf(req[q].seen)}
            /\ Proceed(q, "files", req[q].seen)
       ELSE Fail(q) /\ UNCHANGED casts
    /\ UNCHANGED <<tables, files, raced>>

\* History: the files of a distro that somebody else counts on.
OthersCountOn(d, q) ==
    \/ \E p \in Request \ {q} : M(p).op = "provision" /\ d \in DistrosOf(req[p].seen)
    \/ \E r \in rows["osimage"] : r.distro = d /\ r \notin req[q].seen
    \/ At(q, "done")

\* destroy_osimages removes tree, netboot links and iso.
DestroyFiles(d, q) ==
    /\ files' = files \ {d}
    /\ raced' = IF OthersCountOn(d, q) THEN raced \union {d} ELSE raced

\* ... the files on the API's host go ...
ImageFiles(q) ==
    /\ Is(q, "delete", "osimage") /\ At(q, "files")
    /\ \E d \in DistrosOf(req[q].seen) : DestroyFiles(d, q)
    /\ Proceed(q, "destroy", req[q].seen)
    /\ UNCHANGED <<tables, casts>>

\* ... and the row of that name, which the foreign key of a node may refuse.
ImageDestroy(q) ==
    /\ Is(q, "delete", "osimage") /\ At(q, "destroy")
    /\ LET named == ByKey("osimage", Keys(req[q].seen))
       IN  Destroy(q, "osimage", IF Users(named) = {} THEN named ELSE {})

\* destroy_osimage arrives at a conductor, at any time.
ConductorDestroys ==
    \E c \in casts :
        /\ DestroyFiles(c[1], c[2])
        /\ casts' = casts \ {c}
        /\ UNCHANGED <<tables, req>>

\* The image classes that know a medium: parse_info.
RedhatInfo(d) == Iso[d].file = ".discinfo" /\ Iso[d].product = "redhat"
UbuntuInfo(d) == Iso[d].file = ".disk/info" /\ Iso[d].product = "ubuntu" /\ Iso[d].arch # "none"
Known(d) == RedhatInfo(d) \/ UbuntuInfo(d)

\* _get_kernel_path and _get_initrd_path
HasKernel(d) == Iso[d].arch \in {"x86_64", "ppc64le"} /\ Iso[d].kernel

\* copycd copies the iso's content and keeps the iso.  An iso that no class knows
\* is no error; one without kernel is, and leaves a tree that has no iso.
Copycd(q) ==
    /\ Is(q, "copycd", "osimage") /\ At(q, "idle")
    /\ LET d == M(q).distro
       IN  \/ ~ Known(d) /\ Succeed(q) /\ UNCHANGED files
           \/ Known(d) /\ ~ HasKernel(d) /\ Fail(q) /\ UNCHANGED files
           \/ Known(d) /\ HasKernel(d) /\ files' = files \union {d} /\ Proceed(q, "upload", {})
    /\ UNCHANGED <<tables, casts, raced>>

\* Then upload looks the image up by its distro (an error if there are several) ...
Upload(q) ==
    /\ Is(q, "copycd", "osimage") /\ At(q, "upload")
    /\ LET found == {r \in rows["osimage"] : r.distro = M(q).distro}
       IN  CASE found = {} -> Proceed(q, "create", {})
             [] Cardinality(found) = 1 -> Proceed(q, "rename", found)
             [] OTHER -> Fail(q)
    /\ UNCHANGED <<tables, fileVars>>

\* ... and names it, or creates it.
UploadSave(q) ==
    /\ Is(q, "copycd", "osimage") /\ At(q, "rename")
    /\ \E r \in req[q].seen, name \in M(q).keys :
        LET now == ById("osimage", {r.id})
        IN  IF now = {} \/ ~ ByKey("osimage", {name}) \subseteq now
            THEN Fail(q) /\ UNCHANGED tables
            ELSE /\ rows' = [rows EXCEPT !["osimage"] =
                                 (@ \ now) \union {[s EXCEPT !.key = name] : s \in now}]
                 /\ Succeed(q)
                 /\ UNCHANGED <<ids, gone>>
    /\ UNCHANGED fileVars

UploadCreate(q) ==
    /\ Is(q, "copycd", "osimage") /\ At(q, "create")
    /\ IF Taken("osimage", M(q).keys) THEN Fail(q) /\ UNCHANGED tables
       ELSE /\ Insert("osimage", M(q).keys, [k \in M(q).keys |-> 0], M(q).distro, q)
            /\ Succeed(q)
    /\ UNCHANGED fileVars

\* The API reads the image and hands the object on ...
Provision(q) ==
    /\ Is(q, "provision", "node") /\ At(q, "read")
    /\ LET image == ByKey("osimage", {M(q).newkey})
       IN  IF image = {} THEN Fail(q) ELSE Proceed(q, "lock", image)
    /\ UNCHANGED <<tables, fileVars>>

\* ... to the conductor, which locks the nodes ...
ProvisionLock(q) == Is(q, "provision", "node") /\ NodesLock(q, "lock", "image")

\* ... wants the files: without tree there is no iso to make one of ...
EnsureImage(q) ==
    /\ Is(q, "provision", "node") /\ At(q, "image")
    /\ IF DistrosOf(req[q].seen) \subseteq files THEN Proceed(q, "save", req[q].seen) ELSE Fail(q)
    /\ UNCHANGED <<tables, fileVars>>

\* History: a request that deletes an image of the distro is past its look at
\* the nodes, or has a cast left.
BeingDeleted(d) ==
    \/ \E q \in Request : /\ Is(q, "delete", "osimage")
                          /\ req[q].phase \in {"files", "destroy"}
                          /\ d \in DistrosOf(req[q].seen)
    \/ \E c \in casts : c[1] = d

\* ... and writes state and image of the nodes (save_nodes).
ProvisionSave(q) ==
    /\ Is(q, "provision", "node") /\ At(q, "save")
    /\ \E image \in req[q].seen :
        LET held == Ids(req[q].held)
            set(r) == [r EXCEPT !.attrs["b"] = "new", !.asked["b"] = "new", !.ref = image.id]
        IN  IF ById("osimage", {image.id}) = {} THEN Fail(q) /\ UNCHANGED tables
            ELSE /\ rows' = [rows EXCEPT !["node"] =
                                 {IF r.id \in held THEN set(r) ELSE r : r \in @}]
                 /\ Succeed(q)
                 /\ UNCHANGED <<ids, gone>>
    /\ raced' = raced \union {d \in DistrosOf(req[q].seen) : BeingDeleted(d)}
    /\ UNCHANGED <<files, casts>>

-----------------------------------------------------------------------------
Step(q) ==
    \/ NetworkPost(q) \/ NetworkPatch(q) \/ NetworkSave(q) \/ NetworkDelete(q) \/ NetworkDestroy(q)
    \/ PasswdPost(q) \/ PasswdPatch(q) \/ PasswdSave(q) \/ PasswdDelete(q) \/ PasswdDestroy(q)
    \/ NicPost(q) \/ NicCreate(q) \/ NicDelete(q) \/ NicDestroy(q) \/ NicPatch(q) \/ NicSave(q)
    \/ NodePost(q) \/ BulkCheck(q) \/ BulkInsertNodes(q) \/ BulkLookUp(q) \/ BulkInsertNics(q)
    \/ NodesFilter(q) \/ NodesPatch(q) \/ NodesSave(q) \/ NodesRelease(q)
    \/ NodesDelete(q) \/ NodesDestroy(q)
    \/ ImagePost(q) \/ ImagePatch(q) \/ ImageSave(q)
    \/ ImageDelete(q) \/ ImageInUse(q) \/ ImageFiles(q) \/ ImageDestroy(q)
    \/ Copycd(q) \/ Upload(q) \/ UploadSave(q) \/ UploadCreate(q)
    \/ Provision(q) \/ ProvisionLock(q) \/ EnsureImage(q) \/ ProvisionSave(q)

Next == ConductorDestroys \/ \E q \in Request : Step(q)

Spec == Init /\ [][Next]_vars

-----------------------------------------------------------------------------
(* Correctness.                                                             *)

\* Every attribute is what the last PATCH or provision of that attribute wrote
\* (or what the row began with): requests that read a row and write it back
\* without a lock do not undo each other, as each writes only the columns that it
\* changed (obj_get_changes in update_nodes, save_nodes, save).  Excepted are keys
\* of a JSON column that a PATCH wrote while another PATCH of the column was
\* between its read and its write: that one puts back the keys that it read.
NoLostUpdate ==
    \A k \in Kind : \A r \in rows[k] : \A f \in Field : r.attrs[f] = r.asked[f] \/ f \in r.shared

\* A POST of nodes that answers ok for a name has inserted a row for it, and its
\* nic with it, whatever else inserts, renames or deletes nodes between the
\* transactions of a bulk creation; a row that was renamed is left out, for its
\* nic is looked up by the name (create_node, create_nodes).
CreatedIsWhole ==
    \A q \in Request : Is(q, "post", "node") /\ At(q, "done") =>
        LET mine(kind) == {r \in rows[kind] \union gone[kind] : r.by = q}
        IN  /\ Cardinality(mine("node")) >= Cardinality(req[q].ok)
            /\ \A r \in mine("node") \intersect rows["node"] :
                   r.key \in req[q].ok /\ ~ r.renamed => \E n \in mine("nic") : n.ref = r.id

\* The files of an image that a node was provisioned with stay while the node
\* has it, through everything that deletes, uploads or provisions one after the
\* other: an image is deleted only after a look at the nodes that use it.  A
\* provision that runs while the image is being deleted, and files that several
\* images share, are not guarded (raced).
UsedImageHasTree ==
    \A n \in rows["node"], r \in rows["osimage"] :
        n.ref = r.id => r.distro \in files \union raced

=============================================================================
