--------------------------- MODULE Catalog_proofs ---------------------------
(***************************************************************************)
(* What the requests do to the tables, for any requests, names and sizes:  *)
(* the constraints of the database hold, no update is lost, a POST that    *)
(* answers ok has inserted its nodes with their nics, and the files of an  *)
(* image that is in use stay.                                              *)
(***************************************************************************)
EXTENDS Catalog, FiniteSetTheorems, WellFoundedInduction, TLAPS

-----------------------------------------------------------------------------
(* The invariant.                                                           *)

All(k) == rows[k] \union gone[k]

\* The attributes of a row are as they were asked for, but for those that were
\* written in the middle of another PATCH.
Right(r) == \A f \in Field : r.attrs[f] = r.asked[f] \/ f \in r.shared

\* The tables keep the constraints of the database, ids are given out once, and
\* no update is lost.
TablesInv ==
    /\ rows \in [Kind -> SUBSET Row] /\ gone \in [Kind -> SUBSET Row] /\ ids \in [Kind -> 0..MaxId]
    /\ Consistent(rows)
    /\ \A k \in Kind : \A r \in All(k) : r.id <= ids[k]
    /\ \A k \in Kind : IsFiniteSet(gone[k])
    /\ NoLostUpdate
    /\ \A r \in rows["osimage"] : r.distro \in Distro

Phases == {"idle", "save", "destroy", "create", "insert", "ids", "nics", "read", "release", "done",
           "check", "files", "upload", "rename", "lock", "image"}

ReqType == [m : Menu, phase : Phases, seen : SUBSET Row, held : SUBSET Row,
            ok : SUBSET Key, failed : SUBSET Key]

Bulky(q) == Cardinality(M(q).keys) >= BulkSize

\* The answer of a request: nothing is done before it but what a POST of single
\* nodes has done so far, and it is for every name in the end.
Answers(q) ==
    LET r == req[q]
    IN  /\ r.ok \intersect r.failed = {} /\ r.ok \union r.failed \subseteq M(q).keys
        /\ r.phase \in {"done", "release"} => r.ok \union r.failed = M(q).keys
        /\ r.ok # {} => \/ r.phase \in {"done", "release"}
                        \/ r.phase = "idle" /\ Is(q, "post", "node") /\ ~ Bulky(q)
        /\ Is(q, "delete", "node") /\ r.phase = "destroy" => Keys(r.held) = Todo(q)
        /\ r.held # {} => OnNodes(q)
        /\ IsFiniteSet(r.seen)

\* The ids of the nodes that a request has inserted, and those that it gave nics.
Made(q) == {r.id : r \in {s \in All("node") : s.by = q}}
WithNic(q) == {n.ref : n \in {m \in All("nic") : m.by = q}}

\* A node of q that still has its name, if that is one of names.
Named(r, q, names) == r.by = q /\ ~ r.renamed /\ r.key \in names

\* How far a POST of nodes is: a row for each ok, in the bulk for each name, and
\* the nics of them, in the bulk those of the nodes that were looked up.
Creates(q) ==
    LET r == req[q]
    IN  Is(q, "post", "node") =>
        IF ~ Bulky(q)
        THEN /\ r.phase \in {"idle", "done"} /\ Cardinality(Made(q)) >= Cardinality(r.ok)
             /\ \A n \in rows["node"] : n.by = q => n.id \in WithNic(q)
        ELSE /\ r.phase \in {"idle", "insert", "ids", "nics", "done"}
             /\ r.phase \in {"ids", "nics"} => Cardinality(Made(q)) >= Cardinality(Todo(q))
             /\ r.phase = "nics" =>
                 /\ Keys(r.seen) = Todo(q)
                 /\ \A n, s \in r.seen : n.key = s.key => n = s
                 /\ \A n \in rows["node"] : Named(n, q, Todo(q)) => n.id \in Ids(r.seen)
             /\ r.phase = "done" =>
                 /\ Cardinality(Made(q)) >= Cardinality(r.ok)
                 /\ \A n \in rows["node"] : Named(n, q, r.ok) => n.id \in WithNic(q)

\* An image that was read: if it is still there, it is of that distro.
WasRead(i) ==
    /\ i.distro \in Distro /\ i.id <= ids["osimage"]
    /\ \A s \in rows["osimage"] : s.id = i.id => s.distro = i.distro

\* What a request that has read an image knows: its distro; a DELETE that is
\* past its look at the nodes, that who uses the image now is in a race; a
\* provision that is about to save, that the files were there.
Images(q) ==
    LET r == req[q]
    IN  /\ Is(q, "delete", "osimage") \/ Is(q, "provision", "node") =>
            \A i \in r.seen : WasRead(i)
        /\ Is(q, "delete", "osimage") /\ r.phase \in {"files", "destroy"} =>
            \A i \in r.seen, n \in rows["node"] : n.ref = i.id => i.distro \in raced
        /\ Is(q, "provision", "node") /\ r.phase = "save" => DistrosOf(r.seen) \subseteq files \union raced

\* The PATCHes of kind k that have read the row s and not written it, of a key of
\* its JSON column.
Readers(k, s) ==
    {p \in Request : /\ Is(p, "patch", k) /\ At(p, "save")
                     /\ M(p).field \in Nested /\ s.id \in Ids(req[p].seen)}

\* The keys of s are as they were in r, or have been shared.
KeysOf(r, s) == \A f \in Nested : s.attrs[f] = r.attrs[f] \/ f \in s.shared

\* What a PATCH of a key has read is what the row has now, or somebody else wrote
\* the column meanwhile.
AsRead(q) ==
    At(q, "save") /\ M(q).op = "patch" /\ M(q).field \in Nested =>
        \A r \in req[q].seen :
            /\ r.id <= ids[M(q).kind]
            /\ \A s \in rows[M(q).kind] : s.id = r.id => KeysOf(r, s)

FilesInv ==
    /\ files \subseteq Distro /\ raced \subseteq Distro /\ casts \subseteq Distro \X Request
    /\ \A c \in casts : Is(c[2], "delete", "osimage") /\ req[c[2]].phase \in {"files", "destroy", "done"}
    /\ UsedImageHasTree

CatalogInv ==
    /\ TablesInv /\ FilesInv
    /\ req \in [Request -> ReqType]
    /\ \A q \in Request : Answers(q) /\ Creates(q) /\ Images(q) /\ AsRead(q)

-----------------------------------------------------------------------------
(* Sets of rows and of numbers.                                             *)

\* Rows with different ids are finitely many.
LEMMA FewRows ==
  ASSUME NEW S \in SUBSET Row, \A r, s \in S : r.id = s.id => r = s
  PROVE  IsFiniteSet(S)
<1> DEFINE f == [r \in S |-> r.id]
<1>1. f \in [S -> 1..MaxId]
  BY DEF Row
<1>2. f \in Injection(S, 1..MaxId)
  BY <1>1 DEF Injection, IsInjective
<1>3. IsFiniteSet(1..MaxId)
  BY FS_Interval, CatalogAssumption DEF CatalogAssumption
<1> HIDE DEF f
<1> QED BY <1>2, <1>3, FS_Injection

\* A bounded set of numbers that is not empty has a largest one.
LEMMA MaxIsIn ==
  ASSUME NEW b \in Nat, NEW S \in SUBSET (0..b), S # {}
  PROVE  Max(S) \in S /\ \A y \in S : y <= Max(S)
<1> DEFINE T == {b - y : y \in S}
<1>1. T \in SUBSET Nat /\ T # {}
  OBVIOUS
<1>2. PICK z \in T : \A y \in T : ~ (<<y, z>> \in OpToRel(<, Nat))
  BY <1>1, NatLessThanWellFounded, WFMin
<1>3. PICK x \in S : z = b - x
  BY <1>2
<1>4. \A y \in S : y <= x
  <2> SUFFICES ASSUME NEW y \in S PROVE y <= x
    OBVIOUS
  <2>1. x \in Int /\ y \in Int /\ b - y \in T /\ b - y \in Nat /\ z \in Nat
    BY <1>1, <1>3
  <2>2. ~ (b - y < z)
    BY <1>2, <2>1 DEF OpToRel
  <2> QED BY <1>3, <2>1, <2>2
<1>5. \E w \in S : \A y \in S : w >= y
  BY <1>4
<1>6. Max(S) \in S /\ \A y \in S : Max(S) >= y
  BY <1>5 DEF Max
<1> QED BY <1>6

\* New ids for finitely many keys: each its own, after those that were given out.
LEMMA NewIdsAre ==
  ASSUME NEW kind \in Kind, ids[kind] \in Nat, NEW keys, IsFiniteSet(keys)
  PROVE  /\ NewIds(kind, keys) \in [keys -> ids[kind] + 1..ids[kind] + Cardinality(keys)]
         /\ \A j, k \in keys : NewIds(kind, keys)[j] = NewIds(kind, keys)[k] => j = k
<1> DEFINE c == Cardinality(keys)
           new == ids[kind] + 1..ids[kind] + c
<1>1. c \in Nat /\ ExistsBijection(1..c, keys)
  BY FS_CardinalityType
<1>2. PICK g : g \in Bijection(1..c, keys)
  BY <1>1 DEF ExistsBijection
<1>3. g \in [1..c -> keys] /\ \A k \in keys : \E i \in 1..c : g[i] = k
  BY <1>2 DEF Bijection, Surjection
<1> DEFINE at(k) == CHOOSE i \in 1..c : g[i] = k
           f == [k \in keys |-> ids[kind] + at(k)]
<1>4. \A k \in keys : at(k) \in 1..c /\ g[at(k)] = k
  BY <1>3
<1>5. \A k \in keys : ids[kind] + at(k) \in new
  BY <1>1, <1>4
<1>6. f \in [keys -> new]
  BY <1>5
<1>7. ASSUME NEW j \in keys, NEW k \in keys, f[j] = f[k] PROVE j = k
  <2>1. at(j) = at(k)
    BY <1>1, <1>4, <1>7
  <2> QED BY <1>4, <2>1
<1> HIDE DEF f
<1>8. \E h \in [keys -> new] : \A j, k \in keys : h[j] = h[k] => j = k
  BY <1>6, <1>7
<1> QED BY <1>8 DEF NewIds

\* The tables are finite.
LEMMA RowsAreFinite ==
  ASSUME TablesInv, NEW k \in Kind
  PROVE  IsFiniteSet(rows[k]) /\ IsFiniteSet(All(k)) /\ rows[k] \in SUBSET Row
<1>1. rows[k] \in SUBSET Row /\ IsFiniteSet(gone[k])
  BY DEF TablesInv
<1>2. \A r, s \in rows[k] : r.id = s.id => r = s
  BY DEF TablesInv, Consistent
<1>3. IsFiniteSet(rows[k])
  BY <1>1, <1>2, FewRows
<1> QED BY <1>1, <1>3, FS_Union DEF All

-----------------------------------------------------------------------------
(* What a step may do to the tables.                                        *)

\* The row r of table k is s later: a node that has another name was renamed.
From(k, r, s) ==
    /\ s.id = r.id /\ s.by = r.by /\ s.distro = r.distro
    /\ k = "node" => (r.renamed => s.renamed) /\ (s.key = r.key \/ s.renamed)
    /\ k = "nic" => s.ref = r.ref

\* The row r of table k is s after a step of q: if the keys of its JSON column
\* are others then, they are shared with the PATCHes that have read it.
Kept(q, k, r, s) ==
    /\ r.shared \subseteq s.shared
    /\ \/ \A f \in Nested : s.attrs[f] = r.attrs[f]
       \/ Readers(k, r) \subseteq {q}
       \/ Nested \subseteq s.shared

\* A step of q: the rows come from those that there were, or are new ones of q,
\* and none is forgotten.
Onward(q) ==
    /\ \A k \in Kind : \A s \in rows'[k] :
           (\E r \in rows[k] : From(k, r, s)) \/ (s.by = q /\ s.id > ids[k])
    /\ \A k \in Kind : \A r \in All(k) : \E s \in All(k)' : From(k, r, s)
    /\ \A k \in Kind : ids[k] <= ids'[k]
    /\ \A k \in Kind : \A r \in rows[k], s \in rows'[k] : r.id = s.id => Kept(q, k, r, s)

\* No node gets an image.
RefsKept == \A s \in rows'["node"] : s.ref = 0 \/ \E r \in rows["node"] : s.ref = r.ref

\* A step that writes no table.
LEMMA TablesStay ==
  ASSUME TablesInv, UNCHANGED tables, NEW q
  PROVE  TablesInv' /\ Onward(q) /\ RefsKept
<1>1. rows' = rows /\ ids' = ids /\ gone' = gone
  BY DEF tables
<1>2. TablesInv'
  BY <1>1 DEF TablesInv, All, NoLostUpdate
<1>3. \A k \in Kind : ids[k] <= ids'[k]
  BY <1>1 DEF TablesInv
<1>4. \A k \in Kind : \A r \in rows[k], s \in rows'[k] : r.id = s.id => Kept(q, k, r, s)
  BY <1>1 DEF TablesInv, Consistent, Kept
<1> QED BY <1>1, <1>2, <1>3, <1>4 DEF Onward, RefsKept, From, All

\* Rows go, and with nodes their nics; none that a node needs.
LEMMA DeleteKeeps ==
  ASSUME TablesInv, NEW kind \in Kind, NEW is, Delete(kind, is), NEW q,
         kind = "osimage" => \A n \in rows["node"] : n.ref \notin is
  PROVE  TablesInv' /\ Onward(q) /\ RefsKept
<1> DEFINE out(k) == CASE k = kind -> ById(k, is)
                       [] k = "nic" /\ kind = "node" -> {n \in rows["nic"] : n.ref \in is}
                       [] OTHER -> {}
<1>1. /\ rows' = [k \in Kind |-> rows[k] \ out(k)]
      /\ gone' = [k \in Kind |-> gone[k] \union out(k)]
      /\ ids' = ids
  BY DEF Delete
<1>2. \A k \in Kind : out(k) \in SUBSET rows[k]
  BY DEF ById
<1>3. \A r \in rows[kind] : r \in out(kind) <=> r.id \in is
  BY DEF ById
<1>4. kind = "node" => \A n \in rows["nic"] : n \in out("nic") <=> n.ref \in is
  OBVIOUS
<1>5. kind # "node" => out("node") = {}
  OBVIOUS
<1>6. kind # "osimage" => out("osimage") = {}
  OBVIOUS
<1> HIDE DEF out
<1>7. \A k \in Kind : All(k)' = All(k) /\ rows'[k] \in SUBSET rows[k] /\ gone'[k] = gone[k] \union out(k)
  BY <1>1, <1>2 DEF All
<1>8. rows' \in [Kind -> SUBSET Row] /\ gone' \in [Kind -> SUBSET Row] /\ ids' \in [Kind -> 0..MaxId]
  <2>1. rows \in [Kind -> SUBSET Row] /\ gone \in [Kind -> SUBSET Row] /\ ids \in [Kind -> 0..MaxId]
    BY DEF TablesInv
  <2> QED BY <1>1, <1>2, <2>1
<1>9. Consistent(rows')
  <2>1. Consistent(rows)
    BY DEF TablesInv
  <2>2. \A k \in Kind : \A r, s \in rows'[k] : r.key = s.key \/ r.id = s.id => r = s
    BY <1>7, <2>1 DEF Consistent
  <2>3. \A n \in rows'["nic"] : \E r \in rows'["node"] : r.id = n.ref
    <3> SUFFICES ASSUME NEW n \in rows'["nic"] PROVE \E r \in rows'["node"] : r.id = n.ref
      OBVIOUS
    <3>1. n \in rows["nic"] /\ n \notin out("nic")
      BY <1>1 DEF Kind
    <3>2. PICK r \in rows["node"] : r.id = n.ref
      BY <2>1, <3>1 DEF Consistent
    <3>3. r \notin out("node")
      BY <1>3, <1>4, <1>5, <3>1, <3>2
    <3> QED BY <1>1, <3>2, <3>3 DEF Kind
  <2>4. \A n \in rows'["node"] : n.ref = 0 \/ \E r \in rows'["osimage"] : r.id = n.ref
    <3> SUFFICES ASSUME NEW n \in rows'["node"], n.ref # 0 PROVE \E r \in rows'["osimage"] : r.id = n.ref
      OBVIOUS
    <3>1. n \in rows["node"]
      BY <1>1 DEF Kind
    <3>2. PICK r \in rows["osimage"] : r.id = n.ref
      BY <2>1, <3>1 DEF Consistent
    <3>3. r \notin out("osimage")
      BY <1>3, <1>6, <3>1, <3>2
    <3> QED BY <1>1, <3>2, <3>3 DEF Kind
  <2> QED BY <2>2, <2>3, <2>4 DEF Consistent
<1>10. \A k \in Kind : \A r \in All(k)' : r.id <= ids'[k]
  BY <1>1, <1>7 DEF TablesInv
<1>11. \A k \in Kind : IsFiniteSet(gone'[k])
  <2> SUFFICES ASSUME NEW k \in Kind PROVE IsFiniteSet(gone'[k])
    OBVIOUS
  <2>1. IsFiniteSet(gone[k])
    BY DEF TablesInv
  <2>2. IsFiniteSet(out(k))
    BY <1>2, RowsAreFinite, FS_Subset
  <2>3. gone'[k] = gone[k] \union out(k)
    BY <1>7
  <2> QED BY <2>1, <2>2, <2>3, FS_Union
<1>12. NoLostUpdate' /\ \A r \in rows'["osimage"] : r.distro \in Distro
  BY <1>7 DEF TablesInv, NoLostUpdate, Kind
<1>13. \A k \in Kind : ids[k] <= ids'[k]
  BY <1>1 DEF TablesInv
<1>14. \A k \in Kind : \A r \in rows[k], s \in rows'[k] : r.id = s.id => Kept(q, k, r, s)
  BY <1>7 DEF TablesInv, Consistent, Kept
<1>15. TablesInv'
  BY <1>8, <1>9, <1>10, <1>11, <1>12 DEF TablesInv
<1> QED BY <1>7, <1>13, <1>14, <1>15 DEF Onward, RefsKept, From, Kind

\* The rows of a table change, each into one of the same id and with a name of
\* its own; a node keeps its image or gets one that is there.
Rewrites(kind, f, q) ==
    /\ f \in [rows[kind] -> Row]
    /\ rows' = [rows EXCEPT ![kind] = {f[r] : r \in rows[kind]}] /\ UNCHANGED <<ids, gone>>
    /\ \A r \in rows[kind] : From(kind, r, f[r]) /\ Right(f[r]) /\ Kept(q, kind, r, f[r])
    /\ \A r, s \in rows[kind] : f[r].key = f[s].key => r = s
    /\ \A r \in rows[kind] : f[r].ref = r.ref \/ (kind = "node" /\ f[r].ref \in Ids(rows["osimage"]))

\* Such a change keeps the constraints.
LEMMA RewriteKeeps ==
  ASSUME TablesInv, NEW kind \in Kind, NEW f, NEW q, Rewrites(kind, f, q)
  PROVE  /\ TablesInv' /\ Onward(q)
         /\ (\A r \in rows[kind] : f[r].ref = r.ref) => RefsKept
<1>0. /\ f \in [rows[kind] -> Row]
      /\ rows' = [rows EXCEPT ![kind] = {f[r] : r \in rows[kind]}] /\ UNCHANGED <<ids, gone>>
      /\ \A r \in rows[kind] : From(kind, r, f[r]) /\ Right(f[r]) /\ Kept(q, kind, r, f[r])
      /\ \A r, s \in rows[kind] : f[r].key = f[s].key => r = s
      /\ \A r \in rows[kind] : f[r].ref = r.ref \/ (kind = "node" /\ f[r].ref \in Ids(rows["osimage"]))
  BY DEF Rewrites
<1> USE <1>0
<1>1. /\ rows \in [Kind -> SUBSET Row] /\ gone \in [Kind -> SUBSET Row] /\ ids \in [Kind -> 0..MaxId]
      /\ Consistent(rows)
  BY DEF TablesInv
<1>2. /\ rows'[kind] = {f[r] : r \in rows[kind]}
      /\ \A k \in Kind : k # kind => rows'[k] = rows[k]
  BY <1>1
<1>3. rows' \in [Kind -> SUBSET Row]
  BY <1>1
\* Where a row comes from, and what becomes of it.
<1>4. ASSUME NEW k \in Kind, NEW s \in rows'[k]
      PROVE  \E r \in rows[k] : /\ From(k, r, s) /\ Right(s)
                                /\ s.ref = r.ref \/ (k = kind /\ k = "node" /\ s.ref \in Ids(rows["osimage"]))
                                /\ IF k = kind THEN s = f[r] ELSE s = r
  <2>1. CASE k = kind
    BY <1>2, <1>4, <2>1
  <2>2. CASE k # kind
    <3>1. s \in rows[k] /\ Right(s)
      BY <1>2, <1>4, <2>2 DEF TablesInv, NoLostUpdate, Right
    <3> QED BY <2>2, <3>1 DEF From
  <2> QED BY <2>1, <2>2
<1>5. ASSUME NEW k \in Kind, NEW r \in rows[k] PROVE \E s \in rows'[k] : From(k, r, s)
  <2>1. CASE k = kind
    BY <1>2, <1>5, <2>1
  <2>2. CASE k # kind
    BY <1>2, <1>5, <2>2 DEF From
  <2> QED BY <2>1, <2>2
<1>6. Consistent(rows')
  <2>1. ASSUME NEW k \in Kind, NEW r \in rows'[k], NEW s \in rows'[k], r.key = s.key \/ r.id = s.id
        PROVE  r = s
    <3>1. PICK r0 \in rows[k] : r0.id = r.id /\ (IF k = kind THEN r = f[r0] ELSE r = r0)
      BY <1>4 DEF From
    <3>2. PICK s0 \in rows[k] : s0.id = s.id /\ (IF k = kind THEN s = f[s0] ELSE s = s0)
      BY <1>4 DEF From
    <3>3. r0 = s0
      BY <1>1, <2>1, <3>1, <3>2 DEF Consistent
    <3> QED BY <3>1, <3>2, <3>3
  <2>2. \A n \in rows'["nic"] : \E r \in rows'["node"] : r.id = n.ref
    <3> SUFFICES ASSUME NEW n \in rows'["nic"] PROVE \E r \in rows'["node"] : r.id = n.ref
      OBVIOUS
    <3>0. "nic" \in Kind /\ "node" \in Kind
      BY DEF Kind
    <3>1. PICK n0 \in rows["nic"] : n.ref = n0.ref
      BY <1>4, <3>0
    <3>2. PICK r0 \in rows["node"] : r0.id = n0.ref
      BY <1>1, <3>1 DEF Consistent
    <3> QED BY <1>5, <3>0, <3>1, <3>2 DEF From
  <2>3. \A n \in rows'["node"] : n.ref = 0 \/ \E r \in rows'["osimage"] : r.id = n.ref
    <3> SUFFICES ASSUME NEW n \in rows'["node"], n.ref # 0 PROVE \E r \in rows'["osimage"] : r.id = n.ref
      OBVIOUS
    <3>0. "osimage" \in Kind /\ "node" \in Kind
      BY DEF Kind
    <3>1. PICK n0 \in rows["node"] : n.ref = n0.ref \/ n.ref \in Ids(rows["osimage"])
      BY <1>4, <3>0
    <3>2. PICK r0 \in rows["osimage"] : r0.id = n.ref
      BY <1>1, <3>1 DEF Consistent, Ids
    <3> QED BY <1>5, <3>0, <3>1, <3>2 DEF From
  <2> QED BY <2>1, <2>2, <2>3 DEF Consistent
<1>7. ASSUME NEW k \in Kind, NEW s \in All(k)' PROVE s.id <= ids'[k]
  <2>1. CASE s \in gone[k]
    BY <2>1 DEF TablesInv, All
  <2>2. CASE s \in rows'[k]
    <3>1. PICK r \in rows[k] : s.id = r.id
      BY <1>4, <2>2 DEF From
    <3> QED BY <3>1 DEF TablesInv, All
  <2> QED BY <1>7, <2>1, <2>2 DEF All
<1>8. NoLostUpdate'
  BY <1>4 DEF NoLostUpdate, Right
<1>9. \A s \in rows'["osimage"] : s.distro \in Distro
  <2> SUFFICES ASSUME NEW s \in rows'["osimage"] PROVE s.distro \in Distro
    OBVIOUS
  <2>1. PICK r \in rows["osimage"] : s.distro = r.distro
    BY <1>4 DEF From, Kind
  <2> QED BY <2>1 DEF TablesInv
<1>10. TablesInv'
  BY <1>1, <1>3, <1>6, <1>7, <1>8, <1>9 DEF TablesInv
<1>11. Onward(q)
  <2>1. ASSUME NEW k \in Kind, NEW r \in All(k) PROVE \E s \in All(k)' : From(k, r, s)
    <3>1. CASE r \in gone[k]
      BY <3>1 DEF All, From
    <3>2. CASE r \in rows[k]
      BY <1>5, <3>2 DEF All
    <3> QED BY <2>1, <3>1, <3>2 DEF All
  <2>2. \A k \in Kind : ids[k] <= ids'[k]
    BY <1>1
  <2>3. \A k \in Kind : \A s \in rows'[k] : \E r \in rows[k] : From(k, r, s)
    BY <1>4
  <2>4. ASSUME NEW k \in Kind, NEW r \in rows[k], NEW s \in rows'[k], r.id = s.id
        PROVE  Kept(q, k, r, s)
    <3>1. PICK x \in rows[k] : From(k, x, s) /\ IF k = kind THEN s = f[x] ELSE s = x
      BY <1>4, <2>4
    <3>2. x = r
      BY <1>1, <2>4, <3>1 DEF From, Consistent
    <3>3. CASE k = kind
      BY <3>1, <3>2, <3>3
    <3>4. CASE k # kind
      BY <3>1, <3>2, <3>4 DEF Kept
    <3> QED BY <3>3, <3>4
  <2> QED BY <2>1, <2>2, <2>3, <2>4 DEF Onward
<1>12. ASSUME \A r \in rows[kind] : f[r].ref = r.ref PROVE RefsKept
  <2> SUFFICES ASSUME NEW s \in rows'["node"] PROVE \E r \in rows["node"] : s.ref = r.ref
    BY DEF RefsKept
  <2>1. PICK r \in rows["node"] : /\ s.ref = r.ref \/ kind = "node"
                                  /\ IF "node" = kind THEN s = f[r] ELSE s = r
    BY <1>4 DEF Kind
  <2> QED BY <1>12, <2>1
<1> QED BY <1>10, <1>11, <1>12

\* New rows of q, each with an id and a key of its own, that refer to something.
Adds(N, q) ==
    /\ N \in [Kind -> SUBSET Row]
    /\ rows' = [k \in Kind |-> rows[k] \union N[k]] /\ gone' = gone
    /\ ids' \in [Kind -> 0..MaxId] /\ \A k \in Kind : ids[k] <= ids'[k]
    /\ \A k \in Kind : \A s \in N[k] : /\ s.by = q /\ Right(s)
                                       /\ s.id > ids[k] /\ s.id <= ids'[k]
                                       /\ \A r \in rows[k] : r.key # s.key
    /\ \A k \in Kind : \A r, s \in N[k] : r.key = s.key \/ r.id = s.id => r = s
    /\ \A s \in N["nic"] : s.ref \in Ids(rows'["node"])
    /\ \A s \in N["node"] : s.ref = 0
    /\ \A s \in N["osimage"] : s.distro \in Distro

\* New rows of that kind keep the constraints.
LEMMA AddKeeps ==
  ASSUME TablesInv, NEW N, NEW q, Adds(N, q)
  PROVE  TablesInv' /\ Onward(q) /\ RefsKept
<1> USE DEF Adds
<1>0. /\ rows \in [Kind -> SUBSET Row] /\ gone \in [Kind -> SUBSET Row] /\ ids \in [Kind -> 0..MaxId]
      /\ Consistent(rows) /\ "node" \in Kind /\ "nic" \in Kind /\ "osimage" \in Kind
      /\ \A k \in Kind : \A r \in rows[k] : r.id <= ids[k] /\ Right(r)
  BY DEF TablesInv, Kind, All, NoLostUpdate, Right
<1>1. \A k \in Kind : rows'[k] = rows[k] \union N[k]
  OBVIOUS
<1>2. rows' \in [Kind -> SUBSET Row] /\ gone' \in [Kind -> SUBSET Row]
  BY <1>0
<1>3. Consistent(rows')
  <2>1. ASSUME NEW k \in Kind, NEW r \in rows'[k], NEW s \in rows'[k], r.key = s.key \/ r.id = s.id
        PROVE  r = s
    <3>1. ASSUME NEW x \in rows[k], NEW y \in N[k] PROVE x.key # y.key /\ x.id # y.id
      <4>1. x \in Row /\ y \in Row /\ ids[k] \in Nat
        BY <1>0
      <4>2. x.id \in Int /\ y.id \in Int
        BY <4>1 DEF Row
      <4>3. x.id <= ids[k] /\ y.id > ids[k] /\ x.key # y.key
        BY <1>0
      <4> QED BY <4>1, <4>2, <4>3
    <3>2. CASE r \in rows[k] /\ s \in rows[k]
      BY <1>0, <2>1, <3>2 DEF Consistent
    <3> QED BY <1>1, <2>1, <3>1, <3>2
  <2>2. ASSUME NEW n \in rows'["nic"] PROVE \E r \in rows'["node"] : r.id = n.ref
    <3>1. CASE n \in rows["nic"]
      BY <1>0, <1>1, <3>1 DEF Consistent
    <3>2. CASE n \in N["nic"]
      <4>1. n.ref \in Ids(rows'["node"])
        BY <3>2
      <4> QED BY <4>1 DEF Ids
    <3>3. n \in rows["nic"] \/ n \in N["nic"]
      BY <1>0, <1>1, <2>2
    <3> QED BY <3>1, <3>2, <3>3
  <2>3. ASSUME NEW n \in rows'["node"], n.ref # 0 PROVE \E r \in rows'["osimage"] : r.id = n.ref
    BY <1>0, <1>1, <2>3 DEF Consistent
  <2> QED BY <2>1, <2>2, <2>3 DEF Consistent
<1>4. ASSUME NEW k \in Kind, NEW r \in All(k)' PROVE r.id <= ids'[k]
  <2>1. CASE r \in All(k)
    <3>1. r.id <= ids[k] /\ ids[k] <= ids'[k]
      BY <2>1 DEF TablesInv
    <3>2. r.id \in Int /\ ids[k] \in Int /\ ids'[k] \in Int
      BY <1>0, <2>1 DEF All, Row
    <3> QED BY <3>1, <3>2
  <2>2. CASE r \in N[k]
    BY <2>2
  <2> QED BY <1>1, <1>4, <2>1, <2>2 DEF All
<1>5. \A k \in Kind : IsFiniteSet(gone'[k])
  BY DEF TablesInv
<1>6. NoLostUpdate' /\ \A r \in rows'["osimage"] : r.distro \in Distro
  BY <1>0, <1>1 DEF NoLostUpdate, TablesInv, Right
<1>7. TablesInv'
  BY <1>2, <1>3, <1>4, <1>5, <1>6 DEF TablesInv
<1>8. Onward(q)
  <2>1. \A k \in Kind : \A s \in rows'[k] :
           (\E r \in rows[k] : From(k, r, s)) \/ (s.by = q /\ s.id > ids[k])
    BY <1>1 DEF From
  <2>2. \A k \in Kind : \A r \in All(k) : \E s \in All(k)' : From(k, r, s)
    BY <1>1 DEF From, All
  <2>3. \A k \in Kind : \A r \in rows[k], s \in rows'[k] : r.id = s.id => Kept(q, k, r, s)
    BY <1>1, <1>3 DEF Consistent, Kept
  <2> QED BY <2>1, <2>2, <2>3 DEF Onward
<1> QED BY <1>0, <1>1, <1>7, <1>8 DEF RefsKept

\* What a new row is.
LEMMA NewRowIs ==
  ASSUME NEW id \in 1..MaxId, NEW key \in Key, NEW ref \in 0..MaxId,
         NEW distro \in Distro \union {NoDistro}, NEW q \in Request
  PROVE  LET r == NewRow(id, key, ref, distro, q)
         IN  /\ r \in Row /\ r.id = id /\ r.key = key /\ r.ref = ref /\ r.distro = distro
             /\ r.by = q /\ Right(r) /\ ~ r.renamed
<1>1. [f \in Field |-> "old"] \in [Field -> Value]
  BY DEF Value
<1> QED BY <1>1 DEF NewRow, Row, Right

\* Insert, with the constraints looked at, gives each key a row.
LEMMA InsertKeeps ==
  ASSUME TablesInv, NEW kind \in Kind, NEW keys \in SUBSET Key, IsFiniteSet(keys),
         NEW refs \in [keys -> 0..MaxId], NEW distro \in Distro \union {NoDistro}, NEW q \in Request,
         Insert(kind, keys, refs, distro, q), ~ Taken(kind, keys),
         kind = "nic" => \A k \in keys : refs[k] \in Ids(rows["node"]),
         kind = "node" => \A k \in keys : refs[k] = 0,
         kind = "osimage" => distro \in Distro
  PROVE  /\ TablesInv' /\ Onward(q) /\ RefsKept
         /\ \A k \in keys : \E s \in rows'[kind] :
               s.id = NewIds(kind, keys)[k] /\ s.key = k /\ s.ref = refs[k] /\ s.by = q
<1> DEFINE new == NewIds(kind, keys)
           made == {NewRow(new[k], k, refs[k], distro, q) : k \in keys}
           N == [k \in Kind |-> IF k = kind THEN made ELSE {}]
           c == Cardinality(keys)
<1>1. /\ rows \in [Kind -> SUBSET Row] /\ ids \in [Kind -> 0..MaxId] /\ MaxId \in Nat
  BY CatalogAssumption DEF TablesInv, CatalogAssumption
<1>2. c \in Nat /\ ids[kind] + c <= MaxId /\ ids[kind] \in Nat
  BY <1>1, FS_CardinalityType DEF Insert, Room
<1>3. /\ new \in [keys -> ids[kind] + 1..ids[kind] + c]
      /\ \A j, k \in keys : new[j] = new[k] => j = k
  BY <1>2, NewIdsAre
<1>4. /\ rows' = [rows EXCEPT ![kind] = @ \union made]
      /\ ids' = [ids EXCEPT ![kind] = @ + c] /\ gone' = gone
  BY DEF Insert
<1>5. \A k \in keys : new[k] \in 1..MaxId /\ new[k] > ids[kind] /\ new[k] <= ids[kind] + c
  BY <1>1, <1>2, <1>3
<1> HIDE DEF new, c
<1>6. ASSUME NEW k \in keys
      PROVE  LET r == NewRow(new[k], k, refs[k], distro, q)
             IN  /\ r \in Row /\ r.id = new[k] /\ r.key = k /\ r.ref = refs[k] /\ r.distro = distro
                 /\ r.by = q /\ Right(r) /\ ~ r.renamed
  BY <1>5, NewRowIs
<1>7. \A s \in made : \E k \in keys :
          /\ s \in Row /\ s.id = new[k] /\ s.key = k /\ s.ref = refs[k] /\ s.distro = distro
          /\ s.by = q /\ Right(s) /\ s = NewRow(new[k], k, refs[k], distro, q)
  BY <1>6
<1>8. \A k \in keys : \E s \in made : s.id = new[k] /\ s.key = k /\ s.ref = refs[k] /\ s.by = q
  BY <1>6
<1> HIDE DEF made
<1>9. N \in [Kind -> SUBSET Row]
  BY <1>7
<1>10. rows' = [k \in Kind |-> rows[k] \union N[k]]
  BY <1>1, <1>4
<1>11. ids' \in [Kind -> 0..MaxId] /\ \A k \in Kind : ids[k] <= ids'[k]
  BY <1>1, <1>2, <1>4
<1>12. ASSUME NEW k \in Kind, NEW s \in N[k]
       PROVE  /\ s.by = q /\ Right(s) /\ s.id > ids[k] /\ s.id <= ids'[k]
              /\ \A r \in rows[k] : r.key # s.key
  <2>1. k = kind /\ s \in made
    BY <1>12
  <2>2. PICK j \in keys : s.id = new[j] /\ s.key = j /\ s.by = q /\ Right(s)
    BY <1>7, <2>1
  <2>3. \A r \in rows[k] : r.key # s.key
    BY <2>1, <2>2 DEF Taken, ByKey
  <2> QED BY <1>1, <1>4, <1>5, <2>1, <2>2, <2>3
<1>13. \A k \in Kind : \A r, s \in N[k] : r.key = s.key \/ r.id = s.id => r = s
  <2> SUFFICES ASSUME NEW r \in made, NEW s \in made, r.key = s.key \/ r.id = s.id PROVE r = s
    OBVIOUS
  <2>1. PICK j \in keys : r.id = new[j] /\ r.key = j /\ r = NewRow(new[j], j, refs[j], distro, q)
    BY <1>7
  <2>2. PICK k \in keys : s.id = new[k] /\ s.key = k /\ s = NewRow(new[k], k, refs[k], distro, q)
    BY <1>7
  <2> QED BY <1>3, <2>1, <2>2 DEF new
<1>14. \A s \in N["nic"] : s.ref \in Ids(rows'["node"])
  <2> SUFFICES ASSUME NEW s \in made, kind = "nic" PROVE s.ref \in Ids(rows'["node"])
    BY DEF Kind
  <2>1. s.ref \in Ids(rows["node"])
    BY <1>7
  <2> QED BY <1>1, <1>4, <2>1 DEF Kind
<1>15. (\A s \in N["node"] : s.ref = 0) /\ \A s \in N["osimage"] : s.distro \in Distro
  BY <1>7 DEF Kind
<1>16. \A k \in keys : \E s \in rows'[kind] : s.id = new[k] /\ s.key = k /\ s.ref = refs[k] /\ s.by = q
  BY <1>1, <1>4, <1>8
<1> HIDE DEF N
<1>17. Adds(N, q)
  BY <1>4, <1>9, <1>10, <1>11, <1>12, <1>13, <1>14, <1>15 DEF Adds
<1>18. TablesInv' /\ Onward(q) /\ RefsKept
  BY <1>17, AddKeeps
<1> QED BY <1>16, <1>18 DEF new

\* A single node is posted with its nic.
Posted(q) ==
    \E n \in rows'["node"], m \in rows'["nic"] :
        /\ rows'["node"] = rows["node"] \union {n} /\ n.id = ids["node"] + 1 /\ n.by = q
        /\ m.by = q /\ m.ref = n.id

\* The transaction of a single node.
LEMMA PostKeeps ==
  ASSUME TablesInv, NEW name \in Key, NEW mac \in Key, NEW q \in Request,
         ~ Taken("node", {name}), ~ Taken("nic", {mac}), Room("node", 1), Room("nic", 1),
         rows' = [rows EXCEPT
                    !["node"] = @ \union {NewRow(ids["node"] + 1, name, 0, NoDistro, q)},
                    !["nic"] = @ \union {NewRow(ids["nic"] + 1, mac, ids["node"] + 1, NoDistro, q)}],
         ids' = [ids EXCEPT !["node"] = @ + 1, !["nic"] = @ + 1], UNCHANGED gone
  PROVE  /\ TablesInv' /\ Onward(q) /\ RefsKept
         /\ Posted(q)
<1> DEFINE n == NewRow(ids["node"] + 1, name, 0, NoDistro, q)
           m == NewRow(ids["nic"] + 1, mac, ids["node"] + 1, NoDistro, q)
           N == [k \in Kind |-> CASE k = "node" -> {n} [] k = "nic" -> {m} [] OTHER -> {}]
<1>1. /\ rows \in [Kind -> SUBSET Row] /\ ids \in [Kind -> 0..MaxId] /\ MaxId \in Nat
      /\ "node" \in Kind /\ "nic" \in Kind
  BY CatalogAssumption DEF TablesInv, CatalogAssumption, Kind
<1>2. ids["node"] + 1 \in 1..MaxId /\ ids["nic"] + 1 \in 1..MaxId
  BY <1>1 DEF Room
<1>3. /\ n \in Row /\ n.id = ids["node"] + 1 /\ n.key = name /\ n.ref = 0 /\ n.by = q /\ Right(n)
  BY <1>1, <1>2, NewRowIs
<1>4. m \in Row /\ m.id = ids["nic"] + 1 /\ m.key = mac /\ m.ref = n.id /\ m.by = q /\ Right(m)
  BY <1>1, <1>2, <1>3, NewRowIs
<1>5. rows' = [rows EXCEPT !["node"] = @ \union {n}, !["nic"] = @ \union {m}]
  OBVIOUS
<1> HIDE DEF n, m
<1>6. N \in [Kind -> SUBSET Row]
  BY <1>3, <1>4
<1>7. rows' = [k \in Kind |-> rows[k] \union N[k]]
  BY <1>1, <1>5
<1>8. ids' \in [Kind -> 0..MaxId] /\ \A k \in Kind : ids[k] <= ids'[k]
  BY <1>1, <1>2
<1>9. ASSUME NEW k \in Kind, NEW s \in N[k]
      PROVE  /\ s.by = q /\ Right(s) /\ s.id > ids[k] /\ s.id <= ids'[k]
             /\ \A r \in rows[k] : r.key # s.key
  <2>1. CASE k = "node"
    <3>1. s = n
      BY <1>9, <2>1
    <3>2. \A r \in rows[k] : r.key # s.key
      BY <1>3, <2>1, <3>1 DEF Taken, ByKey
    <3> QED BY <1>1, <1>3, <2>1, <3>1, <3>2
  <2>2. CASE k = "nic"
    <3>1. s = m
      BY <1>9, <2>2
    <3>2. \A r \in rows[k] : r.key # s.key
      BY <1>4, <2>2, <3>1 DEF Taken, ByKey
    <3> QED BY <1>1, <1>4, <2>2, <3>1, <3>2
  <2>3. k \notin {"node", "nic"} => N[k] = {}
    OBVIOUS
  <2> QED BY <1>9, <2>1, <2>2, <2>3
<1>10. \A k \in Kind : \A r, s \in N[k] : r.key = s.key \/ r.id = s.id => r = s
  OBVIOUS
<1>11. rows'["node"] = rows["node"] \union {n} /\ n \in rows'["node"] /\ m \in rows'["nic"]
  BY <1>1, <1>5
<1>12. \A s \in N["nic"] : s.ref \in Ids(rows'["node"])
  BY <1>1, <1>4, <1>11 DEF Ids
<1>13. (\A s \in N["node"] : s.ref = 0) /\ \A s \in N["osimage"] : s.distro \in Distro
  BY <1>3 DEF Kind
<1> HIDE DEF N
<1>14. Adds(N, q)
  BY <1>6, <1>7, <1>8, <1>9, <1>10, <1>12, <1>13 DEF Adds
<1>15. TablesInv' /\ Onward(q) /\ RefsKept
  BY <1>14, AddKeeps
<1> QED BY <1>3, <1>4, <1>11, <1>15 DEF Posted

\* What a request is.
LEMMA RequestIs ==
  ASSUME req \in [Request -> ReqType], NEW q \in Request
  PROVE  /\ M(q) \in Menu /\ M(q).keys \in SUBSET Key /\ M(q).keys # {} /\ IsFiniteSet(M(q).keys)
         /\ M(q).kind \in Kind /\ M(q).field \in Field \union {"key"} /\ M(q).value \in Value
         /\ M(q).distro \in Distro \union {NoDistro}
         /\ M(q).field = "key" => M(q).newkey \in Key
         /\ M(q).kind = "osimage" /\ M(q).op \in {"post", "copycd"} => M(q).distro \in Distro
         /\ req[q].seen \in SUBSET Row /\ req[q].held \in SUBSET Row
         /\ req[q].ok \in SUBSET Key /\ req[q].failed \in SUBSET Key /\ req[q].phase \in Phases
         /\ Todo(q) \in SUBSET Key /\ Todo(q) \in SUBSET M(q).keys
         /\ IsFiniteSet(Todo(q))
<1>1. req[q] \in ReqType
  OBVIOUS
<1>2. M(q) \in Menu /\ req[q].phase \in Phases
  BY <1>1 DEF ReqType, M
<1>3. M(q) \in Requested /\ Complete(M(q))
  BY <1>2, CatalogAssumption DEF CatalogAssumption
<1>4. /\ M(q).keys \in SUBSET Key /\ M(q).keys # {}
      /\ M(q).kind \in Kind /\ M(q).field \in Field \union {"key"} /\ M(q).value \in Value
      /\ M(q).distro \in Distro \union {NoDistro}
  BY <1>3 DEF Requested
<1>5. Todo(q) \in SUBSET M(q).keys
  BY DEF Todo
<1>6. IsFiniteSet(M(q).keys)
  BY <1>3 DEF Complete
<1>7. IsFiniteSet(Todo(q))
  BY <1>5, <1>6, FS_Subset
<1> QED BY <1>1, <1>2, <1>3, <1>4, <1>5, <1>6, <1>7 DEF Complete, ReqType

\* With a new name, at most one row is written, and nobody else has the name.
LEMMA OneIsRenamed ==
  ASSUME NEW q \in Request, NEW kind \in Kind, NEW rs, IsFiniteSet(rs), rs # {},
         M(q).field = "key", ~ Clash(q, kind, rs)
  PROVE  \E w \in rs : rs = {w} /\ \A r \in rows[kind] : r.key = M(q).newkey => r.id = w.id
<1>1. ~ (Cardinality(rs) > 1) /\ Ids(ByKey(kind, {M(q).newkey})) \subseteq Ids(rs)
  BY DEF Clash
<1>2. Cardinality(rs) \in Nat /\ Cardinality(rs) # 0
  BY FS_CardinalityType, FS_EmptySet
<1>3. Cardinality(rs) = 1
  BY <1>1, <1>2
<1>4. PICK w : rs = {w}
  BY <1>3, FS_Singleton
<1> QED BY <1>1, <1>4 DEF Ids, ByKey

\* A request that may write the rows rs may write less of them.
LEMMA ClashLess ==
  ASSUME NEW q \in Request, NEW kind \in Kind, NEW rs, IsFiniteSet(rs), NEW ws \in SUBSET rs,
         ~ Clash(q, kind, rs)
  PROVE  ~ Clash(q, kind, ws)
<1>1. CASE M(q).field # "key" \/ ws = {}
  BY <1>1 DEF Clash
<1>2. CASE M(q).field = "key" /\ ws # {}
  <2>1. rs # {}
    BY <1>2
  <2>2. PICK w \in rs : rs = {w}
    BY <1>2, <2>1, OneIsRenamed
  <2>3. ws = rs
    BY <1>2, <2>2
  <2> QED BY <2>3
<1> QED BY <1>1, <1>2

\* What a PATCH makes of a row.
LEMMA WrittenIs ==
  ASSUME req \in [Request -> ReqType], NEW q \in Request, NEW r \in Row, NEW now \in Row, Right(now),
         M(q).field \in Nested => KeysOf(r, now)
  PROVE  LET new == Written(q, r, now)
         IN  /\ new \in Row /\ Right(new) /\ Kept(q, M(q).kind, now, new)
             /\ new.id = now.id /\ new.by = now.by /\ new.distro = now.distro /\ new.ref = now.ref
             /\ IF M(q).field = "key" THEN new.key = M(q).newkey /\ new.renamed
                ELSE new.key = now.key /\ new.renamed = now.renamed
<1>0. /\ M(q).field \in Field \union {"key"} /\ M(q).value \in Value
      /\ M(q).field = "key" => M(q).newkey \in Key
  BY RequestIs
<1>1. CASE M(q).field = "key"
  <2>1. Written(q, r, now) = [now EXCEPT !.key = M(q).newkey, !.renamed = TRUE]
    BY <1>1 DEF Written, Renamed
  <2> QED BY <1>0, <1>1, <2>1 DEF Row, Right, Kept
<1>2. CASE M(q).field # "key"
  <2> DEFINE col == Column(M(q).field)
             a == [f \in Field |-> IF f = M(q).field THEN M(q).value
                                  ELSE IF f \in col THEN r.attrs[f] ELSE now.attrs[f]]
             s == [now.asked EXCEPT ![M(q).field] = M(q).value]
             h == now.shared \union SharedBy(q, now)
             new == [now EXCEPT !.attrs = a, !.asked = s, !.shared = h]
  <2>1. Written(q, r, now) = new
    BY <1>2 DEF Written, Put
  <2>2. /\ r.attrs \in [Field -> Value] /\ now.attrs \in [Field -> Value]
        /\ now.asked \in [Field -> Value] /\ now.shared \in SUBSET Nested
    BY DEF Row
  <2>3. a \in [Field -> Value] /\ s \in [Field -> Value] /\ h \in SUBSET Nested
    BY <1>0, <2>2 DEF SharedBy
  <2>4. ASSUME NEW f \in Field PROVE a[f] = s[f] \/ f \in h
    <3>1. CASE f = M(q).field
      BY <1>0, <1>2, <2>2, <3>1
    <3>2. CASE f # M(q).field /\ f \in col
      <4>1. f \in Nested /\ M(q).field \in Nested
        BY <3>2 DEF Column
      <4> QED BY <2>2, <3>2, <4>1 DEF KeysOf, Right
    <3>3. CASE f # M(q).field /\ f \notin col
      BY <2>2, <3>3 DEF Right
    <3> QED BY <3>1, <3>2, <3>3
  <2>5. \/ \A f \in Nested : a[f] = now.attrs[f]
        \/ Readers(M(q).kind, now) \subseteq {q}
        \/ Nested \subseteq h
    <3>1. CASE M(q).field \notin Nested
      <4>1. \A f \in Nested : f \in Field /\ f # M(q).field /\ f \notin col
        BY <3>1 DEF Column, Field
      <4> QED BY <4>1
    <3>2. CASE M(q).field \in Nested /\ \E p \in Request \ {q} : p \in Readers(M(q).kind, now)
      <4>1. SharedBy(q, now) = Nested
        BY <3>2 DEF Readers, SharedBy, Column
      <4> QED BY <4>1
    <3>3. CASE ~ \E p \in Request \ {q} : p \in Readers(M(q).kind, now)
      BY <3>3 DEF Readers
    <3> QED BY <3>1, <3>2, <3>3
  <2> HIDE DEF a, s, h
  <2>6. /\ new \in Row /\ new.attrs = a /\ new.asked = s /\ new.shared = h
        /\ new.id = now.id /\ new.by = now.by /\ new.distro = now.distro /\ new.ref = now.ref
        /\ new.key = now.key /\ new.renamed = now.renamed
    BY <2>3 DEF Row
  <2>7. now.shared \subseteq h
    BY DEF h
  <2> HIDE DEF new
  <2>8. Right(new) /\ Kept(q, M(q).kind, now, new)
    BY <2>4, <2>5, <2>6, <2>7 DEF Right, Kept
  <2> QED BY <1>2, <2>1, <2>6, <2>8
<1> QED BY <1>1, <1>2

\* A PATCH writes rows that it read and that are still there.
LEMMA WriteKeeps ==
  ASSUME TablesInv, req \in [Request -> ReqType], NEW q \in Request, NEW kind \in Kind, M(q).kind = kind,
         NEW rs \in SUBSET Row, IsFiniteSet(rs),
         M(q).field \in Nested => \A r \in rs : \A s \in rows[kind] : s.id = r.id => KeysOf(r, s),
         ~ Clash(q, kind, {r \in rs : Changed(q, r)}), Write(q, kind, rs)
  PROVE  TablesInv' /\ Onward(q) /\ RefsKept
<1> DEFINE hit == {s \in rows[kind] : \E r \in rs : r.id = s.id /\ Changed(q, r)}
           read(s) == CHOOSE r \in rs : r.id = s.id
           ws == {r \in rs : Changed(q, r)}
           f == [s \in rows[kind] |-> IF s \in hit THEN Written(q, read(s), s) ELSE s]
<1>1. /\ rows' = [rows EXCEPT ![kind] = (@ \ hit) \union {Written(q, read(s), s) : s \in hit}]
      /\ ids' = ids /\ gone' = gone
  BY DEF Write
<1>2. /\ rows[kind] \in SUBSET Row /\ Consistent(rows)
      /\ \A s \in rows[kind] : Right(s)
  BY DEF TablesInv, NoLostUpdate, Right
<1>3. ASSUME NEW s \in rows[kind]
      PROVE  /\ f[s] \in Row /\ Right(f[s]) /\ Kept(q, kind, s, f[s])
             /\ f[s].id = s.id /\ f[s].by = s.by /\ f[s].distro = s.distro /\ f[s].ref = s.ref
             /\ IF M(q).field = "key" /\ s \in hit THEN f[s].key = M(q).newkey /\ f[s].renamed
                ELSE f[s].key = s.key /\ f[s].renamed = s.renamed
  <2>1. CASE s \in hit
    <3>1. f[s] = Written(q, read(s), s) /\ s \in Row /\ Right(s)
      BY <1>2, <2>1
    <3>2. read(s) \in rs /\ read(s).id = s.id
      BY <2>1
    <3>3. read(s) \in Row /\ (M(q).field \in Nested => KeysOf(read(s), s))
      BY <3>2
    <3> HIDE DEF f, read
    <3> QED BY <2>1, <3>1, <3>3, WrittenIs
  <2>2. CASE s \notin hit
    BY <1>2, <2>2 DEF Kept
  <2> QED BY <2>1, <2>2
<1>4. (rows[kind] \ hit) \union {Written(q, read(s), s) : s \in hit} = {f[s] : s \in rows[kind]}
  <2> HIDE DEF read
  <2> QED OBVIOUS
<1>5. \A s \in hit : s \in rows[kind] /\ \E w \in ws : w.id = s.id
  OBVIOUS
<1>6. \A s \in rows[kind] : (\E w \in ws : w.id = s.id) => s \in hit
  OBVIOUS
<1>7. f \in [rows[kind] -> Row]
  BY <1>3
<1>8. IsFiniteSet(ws) /\ ~ Clash(q, kind, ws)
  BY FS_Subset
<1> HIDE DEF hit, read, f, ws
<1>9. ASSUME NEW r \in rows[kind], NEW s \in rows[kind], f[r].key = f[s].key PROVE r = s
  <2>1. CASE M(q).field # "key" \/ (r \notin hit /\ s \notin hit)
    <3>1. r.key = s.key
      BY <1>3, <1>9, <2>1
    <3> QED BY <1>2, <3>1 DEF Consistent
  <2>2. CASE M(q).field = "key" /\ (r \in hit \/ s \in hit)
    <3>1. ws # {}
      BY <1>5, <2>2
    <3>2. PICK w \in ws : ws = {w} /\ \A x \in rows[kind] : x.key = M(q).newkey => x.id = w.id
      BY <1>8, <2>2, <3>1, OneIsRenamed
    <3>3. ASSUME NEW x \in rows[kind], f[x].key = M(q).newkey PROVE x.id = w.id
      <4>1. CASE x \in hit
        BY <1>5, <3>2, <4>1
      <4>2. CASE x \notin hit
        BY <1>3, <3>2, <3>3, <4>2
      <4> QED BY <4>1, <4>2
    <3>4. f[r].key = M(q).newkey /\ f[s].key = M(q).newkey
      BY <1>3, <1>9, <2>2
    <3>5. r.id = s.id
      BY <3>3, <3>4
    <3> QED BY <1>2, <3>5 DEF Consistent
  <2> QED BY <2>1, <2>2
<1>10. rows' = [rows EXCEPT ![kind] = {f[s] : s \in rows[kind]}]
  BY <1>1, <1>4
<1>11. \A r \in rows[kind] : From(kind, r, f[r]) /\ Right(f[r]) /\ Kept(q, kind, r, f[r])
  BY <1>3 DEF From
<1>12. \A r \in rows[kind] : f[r].ref = r.ref
  BY <1>3
<1>13. \A r, s \in rows[kind] : f[r].key = f[s].key => r = s
  BY <1>9
<1>14. UNCHANGED <<ids, gone>>
  BY <1>1
<1>15. Rewrites(kind, f, q)
  BY <1>7, <1>10, <1>11, <1>12, <1>13, <1>14 DEF Rewrites
<1> QED BY <1>12, <1>15, RewriteKeeps

\* Rows of nodes that are locked, or no more.
LEMMA LocksKeep ==
  ASSUME TablesInv, NEW lock \in [rows["node"] -> BOOLEAN], NEW p,
         rows' = [rows EXCEPT !["node"] = {[r EXCEPT !.locked = lock[r]] : r \in rows["node"]}],
         UNCHANGED <<ids, gone>>
  PROVE  TablesInv' /\ Onward(p) /\ RefsKept
<1> DEFINE f == [r \in rows["node"] |-> [r EXCEPT !.locked = lock[r]]]
<1>1. /\ rows["node"] \in SUBSET Row /\ Consistent(rows) /\ "node" \in Kind
      /\ \A s \in rows["node"] : Right(s)
  BY DEF TablesInv, NoLostUpdate, Kind, Right
<1>2. \A r \in rows["node"] : /\ f[r] \in Row /\ f[r].attrs = r.attrs /\ f[r].asked = r.asked /\ f[r].shared = r.shared
                              /\ f[r].id = r.id /\ f[r].by = r.by /\ f[r].distro = r.distro
                              /\ f[r].ref = r.ref /\ f[r].key = r.key /\ f[r].renamed = r.renamed
  <2> SUFFICES ASSUME NEW r \in rows["node"]
               PROVE  /\ f[r] \in Row /\ f[r].attrs = r.attrs /\ f[r].asked = r.asked /\ f[r].shared = r.shared
                      /\ f[r].id = r.id /\ f[r].by = r.by /\ f[r].distro = r.distro
                      /\ f[r].ref = r.ref /\ f[r].key = r.key /\ f[r].renamed = r.renamed
    OBVIOUS
  <2> DEFINE s == [r EXCEPT !.locked = lock[r]]
  <2>1. r \in Row /\ lock[r] \in BOOLEAN
    BY <1>1
  <2>2. /\ s.attrs = r.attrs /\ s.asked = r.asked /\ s.shared = r.shared /\ s.id = r.id /\ s.by = r.by /\ s.distro = r.distro
        /\ s.ref = r.ref /\ s.key = r.key /\ s.renamed = r.renamed
    BY <2>1 DEF Row
  <2>3. s \in Row
    BY <2>1 DEF Row
  <2>4. f[r] = s
    OBVIOUS
  <2> HIDE DEF s, f
  <2> QED BY <2>2, <2>3, <2>4
<1>3. rows' = [rows EXCEPT !["node"] = {f[r] : r \in rows["node"]}] /\ f \in [rows["node"] -> Row]
  <2>1. \A r \in rows["node"] : f[r] = [r EXCEPT !.locked = lock[r]]
    OBVIOUS
  <2>2. DOMAIN f = rows["node"] /\ f = [r \in rows["node"] |-> f[r]]
    OBVIOUS
  <2> HIDE DEF f
  <2>3. f \in [rows["node"] -> Row]
    BY <1>2, <2>2
  <2> DEFINE L == {[r EXCEPT !.locked = lock[r]] : r \in rows["node"]}
             F == {f[r] : r \in rows["node"]}
  <2>4. L = F
    <3>1. ASSUME NEW x \in L PROVE x \in F
      <4>1. PICK r \in rows["node"] : x = [r EXCEPT !.locked = lock[r]]
        OBVIOUS
      <4>2. x = f[r]
        BY <2>1, <4>1
      <4> QED BY <4>2
    <3>2. ASSUME NEW x \in F PROVE x \in L
      <4>1. PICK r \in rows["node"] : x = f[r]
        OBVIOUS
      <4>2. x = [r EXCEPT !.locked = lock[r]]
        BY <2>1, <4>1
      <4> QED BY <4>2
    <3> HIDE DEF L, F
    <3> QED BY <3>1, <3>2
  <2>5. rows' = [rows EXCEPT !["node"] = {f[r] : r \in rows["node"]}]
    BY <2>4
  <2> QED BY <2>3, <2>5
<1> HIDE DEF f
<1>4. \A r \in rows["node"] : From("node", r, f[r]) /\ Right(f[r]) /\ Kept(p, "node", r, f[r])
  BY <1>1, <1>2 DEF From, Right, Kept
<1>5. \A r, s \in rows["node"] : f[r].key = f[s].key => r = s
  BY <1>1, <1>2 DEF Consistent
<1>6. \A r \in rows["node"] : f[r].ref = r.ref
  BY <1>2
<1>7. Rewrites("node", f, p)
  BY <1>3, <1>4, <1>5, <1>6 DEF Rewrites
<1> QED BY <1>1, <1>6, <1>7, RewriteKeeps

\* The three things that the lemmas before say of a step of q.
TablesGoOn(q) == TablesInv' /\ Onward(q) /\ RefsKept

\* The save of a PATCH.
LEMMA SaveTables ==
  ASSUME CatalogInv, NEW q \in Request, NEW kind \in Kind, Is(q, "patch", kind), Save(q, kind)
  PROVE  TablesGoOn(q)
<1>1. TablesInv /\ req \in [Request -> ReqType] /\ IsFiniteSet(req[q].seen)
  BY DEF CatalogInv, Answers
<1>2. req[q].seen \in SUBSET Row
  BY <1>1, RequestIs
<1>3. CASE UNCHANGED tables
  BY <1>1, <1>3, TablesStay DEF TablesGoOn
<1>4. CASE ~ Clash(q, kind, req[q].seen) /\ Write(q, kind, req[q].seen)
  <2> DEFINE ws == {r \in req[q].seen : Changed(q, r)}
  <2>1. ws \in SUBSET req[q].seen
    OBVIOUS
  <2>2. ~ Clash(q, kind, ws)
    BY <1>1, <1>4, <2>1, ClashLess
  <2>3. M(q).kind = kind /\ M(q).op = "patch" /\ At(q, "save") /\ AsRead(q)
    BY DEF CatalogInv, Save, Is
  <2>4. M(q).field \in Nested =>
           \A r \in req[q].seen : \A s \in rows[kind] : s.id = r.id => KeysOf(r, s)
    BY <2>3 DEF AsRead
  <2> QED BY <1>1, <1>2, <1>4, <2>2, <2>3, <2>4, WriteKeeps DEF TablesGoOn
<1> QED BY <1>3, <1>4 DEF Save

\* The save of the nodes of a PATCH (update_nodes).
LEMMA NodesSaveTables ==
  ASSUME CatalogInv, NEW q \in Request, NodesSave(q)
  PROVE  TablesGoOn(q)
<1>1. TablesInv /\ req \in [Request -> ReqType] /\ IsFiniteSet(req[q].seen) /\ "node" \in Kind
  BY DEF CatalogInv, Answers, Kind
<1>2. req[q].seen \in SUBSET Row
  BY <1>1, RequestIs
<1>3. CASE UNCHANGED tables
  BY <1>1, <1>3, TablesStay DEF TablesGoOn
<1>4. CASE ~ UNCHANGED tables
  <2>1. PICK rs \in Patched(q) : Write(q, "node", rs) /\ ~ Clash(q, "node", {r \in rs : Changed(q, r)})
    BY <1>4 DEF NodesSave
  <2>2. rs \in SUBSET req[q].seen
    BY <2>1 DEF Patched
  <2>3. IsFiniteSet(rs) /\ rs \in SUBSET Row
    BY <1>1, <1>2, <2>2, FS_Subset
  <2>4. M(q).kind = "node" /\ M(q).op = "patch" /\ At(q, "save") /\ AsRead(q)
    BY DEF CatalogInv, NodesSave, Is
  <2>5. M(q).field \in Nested =>
           \A r \in rs : \A s \in rows["node"] : s.id = r.id => KeysOf(r, s)
    BY <2>2, <2>4 DEF AsRead
  <2> QED BY <1>1, <2>1, <2>3, <2>4, <2>5, WriteKeeps DEF TablesGoOn
<1> QED BY <1>3, <1>4

\* A POST of a network, a password or an image, and the upload of an image.
LEMMA CreateTables ==
  ASSUME CatalogInv, NEW q \in Request, NEW kind \in {"network", "passwd", "osimage"},
         kind = "osimage" => M(q).distro \in Distro, Create(q, kind) \/ (kind = "osimage" /\ UploadCreate(q))
  PROVE  TablesGoOn(q)
<1> DEFINE refs == [k \in M(q).keys |-> 0]
<1>1. TablesInv /\ req \in [Request -> ReqType] /\ kind \in Kind
  BY DEF CatalogInv, Kind
<1>2. M(q).keys \in SUBSET Key /\ IsFiniteSet(M(q).keys) /\ M(q).distro \in Distro \union {NoDistro}
  BY <1>1, RequestIs
<1>3. CASE UNCHANGED tables
  BY <1>1, <1>3, TablesStay DEF TablesGoOn
<1>4. CASE ~ Taken(kind, M(q).keys) /\ Insert(kind, M(q).keys, refs, M(q).distro, q)
  <2>1. refs \in [M(q).keys -> 0..MaxId]
    BY CatalogAssumption DEF CatalogAssumption
  <2> HIDE DEF refs
  <2>2. kind # "nic" /\ kind # "node"
    OBVIOUS
  <2> QED BY <1>1, <1>2, <1>4, <2>1, <2>2, InsertKeeps DEF TablesGoOn
<1> QED BY <1>3, <1>4 DEF Create, UploadCreate

\* A DELETE.
LEMMA DestroyTables ==
  ASSUME CatalogInv, NEW q \in Request, NEW kind \in Kind, NEW victims \in SUBSET rows[kind],
         Destroy(q, kind, victims), kind = "osimage" => Users(victims) = {}
  PROVE  TablesGoOn(q)
<1>1. TablesInv
  BY DEF CatalogInv
<1>2. CASE UNCHANGED tables
  BY <1>1, <1>2, TablesStay DEF TablesGoOn
<1>3. CASE Delete(kind, Ids(victims))
  <2>1. kind = "osimage" => \A n \in rows["node"] : n.ref \notin Ids(victims)
    BY DEF Users
  <2> QED BY <1>1, <1>3, <2>1, DeleteKeeps DEF TablesGoOn
<1> QED BY <1>2, <1>3 DEF Destroy

\* The locks of nodes, taken and given back.
LEMMA LockTables ==
  ASSUME CatalogInv, NEW q \in Request,
         NodesRelease(q) \/ \E from, next \in Phases : NodesLock(q, from, next)
  PROVE  TablesGoOn(q)
<1>1. TablesInv /\ rows \in [Kind -> SUBSET Row] /\ "node" \in Kind
  BY DEF CatalogInv, TablesInv, Kind
<1>2. CASE UNCHANGED tables
  BY <1>1, <1>2, TablesStay DEF TablesGoOn
<1>3. CASE NodesRelease(q)
  <2> DEFINE lock == [r \in rows["node"] |-> r.locked /\ r.key \notin Keys(req[q].held)]
  <2>1. \A r \in rows["node"] : r.locked \in BOOLEAN
    BY <1>1 DEF Row
  <2>2. lock \in [rows["node"] -> BOOLEAN]
    BY <2>1
  <2>3. rows' = [rows EXCEPT !["node"] = {[r EXCEPT !.locked = lock[r]] : r \in rows["node"]}]
    BY <1>1, <1>3 DEF NodesRelease
  <2>4. UNCHANGED <<ids, gone>>
    BY <1>3 DEF NodesRelease
  <2> HIDE DEF lock
  <2> QED BY <1>1, <2>2, <2>3, <2>4, LocksKeep DEF TablesGoOn
<1>4. CASE ~ UNCHANGED tables /\ \E from, next \in Phases : NodesLock(q, from, next)
  <2> DEFINE found == ByKey("node", Todo(q))
             lock == [r \in rows["node"] |-> r.locked \/ r \in found]
  <2>1. \A r \in rows["node"] : r.locked \in BOOLEAN
    BY <1>1 DEF Row
  <2>2. lock \in [rows["node"] -> BOOLEAN]
    BY <2>1
  <2>3. PICK from \in Phases, next \in Phases : NodesLock(q, from, next)
    BY <1>4
  <2>4. /\ rows' = [rows EXCEPT !["node"] = {[r EXCEPT !.locked = @ \/ r \in found] : r \in @}]
        /\ UNCHANGED <<ids, gone>>
    BY <1>4, <2>3 DEF NodesLock
  <2>5. rows' = [rows EXCEPT !["node"] = {[r EXCEPT !.locked = lock[r]] : r \in rows["node"]}]
    <3> HIDE DEF found
    <3>1. {[r EXCEPT !.locked = @ \/ r \in found] : r \in rows["node"]} =
              {[r EXCEPT !.locked = lock[r]] : r \in rows["node"]}
      OBVIOUS
    <3> QED BY <1>1, <2>4, <3>1
  <2> HIDE DEF lock
  <2> QED BY <1>1, <2>2, <2>4, <2>5, LocksKeep DEF TablesGoOn
<1> QED BY <1>2, <1>3, <1>4

\* The upload that names an image.
LEMMA UploadSaveTables ==
  ASSUME CatalogInv, NEW q \in Request, UploadSave(q)
  PROVE  TablesGoOn(q)
<1>1. /\ TablesInv /\ req \in [Request -> ReqType] /\ "osimage" \in Kind
      /\ rows \in [Kind -> SUBSET Row] /\ Consistent(rows) /\ \A s \in rows["osimage"] : Right(s)
  BY DEF CatalogInv, TablesInv, Kind, NoLostUpdate, Right
<1>2. CASE UNCHANGED tables
  BY <1>1, <1>2, TablesStay DEF TablesGoOn
<1>3. CASE ~ UNCHANGED tables
  <2>1. PICK r \in req[q].seen, name \in M(q).keys :
            LET now == ById("osimage", {r.id})
            IN  /\ ByKey("osimage", {name}) \subseteq now
                /\ rows' = [rows EXCEPT !["osimage"] =
                               (@ \ now) \union {[s EXCEPT !.key = name] : s \in now}]
                /\ UNCHANGED <<ids, gone>>
    BY <1>3 DEF UploadSave
  <2> DEFINE now == ById("osimage", {r.id})
             f == [s \in rows["osimage"] |-> IF s \in now THEN [s EXCEPT !.key = name] ELSE s]
  <2>2. name \in Key
    BY <1>1, RequestIs
  <2>3. \A s \in rows["osimage"] :
            /\ f[s] \in Row /\ f[s].attrs = s.attrs /\ f[s].asked = s.asked /\ f[s].shared = s.shared
            /\ f[s].id = s.id /\ f[s].by = s.by /\ f[s].distro = s.distro /\ f[s].ref = s.ref
            /\ IF s \in now THEN f[s].key = name ELSE f[s].key = s.key
    BY <1>1, <2>2 DEF Row
  <2>4. now \in SUBSET rows["osimage"] /\ (\A s \in now : s.id = r.id)
        /\ \A s \in rows["osimage"] : s.key = name => s \in now
    BY <2>1 DEF ById, ByKey
  <2>5. rows' = [rows EXCEPT !["osimage"] = {f[s] : s \in rows["osimage"]}]
    <3>1. (rows["osimage"] \ now) \union {[s EXCEPT !.key = name] : s \in now} = {f[s] : s \in rows["osimage"]}
      BY <2>4
    <3> QED BY <1>1, <2>1, <3>1
  <2>6. f \in [rows["osimage"] -> Row]
    BY <2>3
  <2> HIDE DEF f, now
  <2>7. \A s \in rows["osimage"] : From("osimage", s, f[s]) /\ Right(f[s]) /\ Kept(q, "osimage", s, f[s])
    BY <1>1, <2>3 DEF From, Right, Kept
  <2>8. \A s, t \in rows["osimage"] : f[s].key = f[t].key => s = t
    BY <1>1, <2>3, <2>4 DEF Consistent
  <2>9. \A s \in rows["osimage"] : f[s].ref = s.ref
    BY <2>3
  <2>10. UNCHANGED <<ids, gone>>
    BY <2>1
  <2>11. Rewrites("osimage", f, q)
    BY <2>5, <2>6, <2>7, <2>8, <2>9, <2>10 DEF Rewrites
  <2> QED BY <1>1, <2>9, <2>11, RewriteKeeps DEF TablesGoOn
<1> QED BY <1>2, <1>3

\* The save of a provision: the nodes get an image that is there.
LEMMA ProvisionSaveTables ==
  ASSUME CatalogInv, NEW q \in Request, ProvisionSave(q)
  PROVE  TablesInv' /\ Onward(q)
<1>1. /\ TablesInv /\ req \in [Request -> ReqType] /\ "node" \in Kind
      /\ rows \in [Kind -> SUBSET Row] /\ Consistent(rows) /\ \A s \in rows["node"] : Right(s)
  BY DEF CatalogInv, TablesInv, Kind, NoLostUpdate, Right
<1>2. CASE UNCHANGED tables
  BY <1>1, <1>2, TablesStay
<1>3. CASE ~ UNCHANGED tables
  <2> DEFINE held == Ids(req[q].held)
  <2>1. PICK image \in req[q].seen :
            /\ ById("osimage", {image.id}) # {}
            /\ rows' = [rows EXCEPT !["node"] =
                 {IF r.id \in held THEN [r EXCEPT !.attrs["b"] = "new", !.asked["b"] = "new", !.ref = image.id]
                  ELSE r : r \in @}]
            /\ UNCHANGED <<ids, gone>>
    BY <1>3 DEF ProvisionSave
  <2>2. image.id \in Ids(rows["osimage"]) /\ image.id \in 0..MaxId
    <3>1. image \in Row
      BY <1>1, RequestIs
    <3>2. image.id \in 1..MaxId
      BY <3>1 DEF Row
    <3>3. PICK i \in rows["osimage"] : i.id = image.id
      BY <2>1 DEF ById
    <3>4. image.id \in Ids(rows["osimage"])
      BY <3>3 DEF Ids
    <3> QED BY <3>2, <3>4, CatalogAssumption DEF CatalogAssumption
  <2> DEFINE new(a) == [a EXCEPT !["b"] = "new"]
             set(r) == [r EXCEPT !.attrs = new(r.attrs), !.asked = new(r.asked), !.ref = image.id]
             f == [r \in rows["node"] |-> IF r.id \in held THEN set(r) ELSE r]
  <2>3. ASSUME NEW r \in rows["node"]
        PROVE  /\ f[r] \in Row /\ Right(f[r]) /\ Kept(q, "node", r, f[r])
               /\ f[r].id = r.id /\ f[r].by = r.by /\ f[r].distro = r.distro /\ f[r].key = r.key
               /\ f[r].renamed = r.renamed /\ f[r].ref \in {r.ref, image.id}
    <3>1. r \in Row /\ Right(r)
      BY <1>1
    <3>2. /\ new(r.attrs) \in [Field -> Value] /\ new(r.asked) \in [Field -> Value]
          /\ \A g \in Field : new(r.attrs)[g] = new(r.asked)[g] \/ g \in r.shared
          /\ \A g \in Nested : new(r.attrs)[g] = r.attrs[g]
      BY <3>1 DEF Row, Value, Right, Field, Nested
    <3>3. /\ set(r) \in Row /\ set(r).shared = r.shared
          /\ set(r).attrs = new(r.attrs) /\ set(r).asked = new(r.asked)
          /\ set(r).id = r.id /\ set(r).by = r.by /\ set(r).distro = r.distro /\ set(r).key = r.key
          /\ set(r).renamed = r.renamed /\ set(r).ref = image.id
      <4> HIDE DEF new
      <4> QED BY <2>2, <3>1, <3>2 DEF Row
    <3> HIDE DEF set, new
    <3>4. Right(set(r)) /\ Kept(q, "node", r, set(r)) /\ Kept(q, "node", r, r)
      BY <3>2, <3>3 DEF Right, Kept
    <3> QED BY <3>1, <3>3, <3>4
  <2>4. rows' = [rows EXCEPT !["node"] = {f[r] : r \in rows["node"]}]
    <3>1. \A r \in rows["node"] :
              [r EXCEPT !.attrs["b"] = "new", !.asked["b"] = "new", !.ref = image.id] = set(r)
      BY <1>1 DEF Row
    <3> HIDE DEF held, set
    <3>2. {IF r.id \in held THEN [r EXCEPT !.attrs["b"] = "new", !.asked["b"] = "new", !.ref = image.id]
           ELSE r : r \in rows["node"]} = {f[r] : r \in rows["node"]}
      BY <3>1
    <3> QED BY <1>1, <2>1, <3>2
  <2>5. f \in [rows["node"] -> Row]
    BY <2>3
  <2> HIDE DEF f
  <2>6. \A r \in rows["node"] : From("node", r, f[r]) /\ Right(f[r]) /\ Kept(q, "node", r, f[r])
    BY <2>3 DEF From
  <2>7. \A r, s \in rows["node"] : f[r].key = f[s].key => r = s
    BY <1>1, <2>3 DEF Consistent
  <2>8. \A r \in rows["node"] : f[r].ref = r.ref \/ ("node" = "node" /\ f[r].ref \in Ids(rows["osimage"]))
    BY <2>2, <2>3
  <2>9. UNCHANGED <<ids, gone>>
    BY <2>1
  <2>10. Rewrites("node", f, q)
    BY <2>4, <2>5, <2>6, <2>7, <2>8, <2>9 DEF Rewrites
  <2> QED BY <1>1, <2>10, RewriteKeeps
<1> QED BY <1>2, <1>3

\* Transactions that insert: a single node with its nic, ...
LEMMA PostTables ==
  ASSUME CatalogInv, NEW q \in Request, NodePost(q)
  PROVE  TablesGoOn(q)
<1>1. TablesInv /\ req \in [Request -> ReqType] /\ MacOf \in [Key -> Key]
  BY CatalogAssumption DEF CatalogInv, CatalogAssumption
<1>2. CASE UNCHANGED tables
  BY <1>1, <1>2, TablesStay DEF TablesGoOn
<1>3. CASE ~ UNCHANGED tables
  <2>1. PICK name \in Todo(q) :
            /\ ~ (Taken("node", {name}) \/ Taken("nic", {MacOf[name]}))
            /\ Room("node", 1) /\ Room("nic", 1)
            /\ rows' = [rows EXCEPT
                    !["node"] = @ \union {NewRow(ids["node"] + 1, name, 0, NoDistro, q)},
                    !["nic"] = @ \union {NewRow(ids["nic"] + 1, MacOf[name], ids["node"] + 1, NoDistro, q)}]
            /\ ids' = [ids EXCEPT !["node"] = @ + 1, !["nic"] = @ + 1] /\ UNCHANGED gone
    BY <1>3 DEF NodePost
  <2>2. name \in Key /\ MacOf[name] \in Key
    BY <1>1, RequestIs
  <2> QED BY <1>1, <2>1, <2>2, PostKeeps DEF TablesGoOn
<1> QED BY <1>2, <1>3

\* ... a nic of a node that is there, ...
LEMMA NicTables ==
  ASSUME CatalogInv, NEW q \in Request, NicCreate(q)
  PROVE  TablesGoOn(q)
<1>1. TablesInv /\ req \in [Request -> ReqType] /\ "nic" \in Kind /\ NoDistro \in Distro \union {NoDistro}
  BY DEF CatalogInv, Kind
<1>2. CASE UNCHANGED tables
  BY <1>1, <1>2, TablesStay DEF TablesGoOn
<1>3. CASE ~ UNCHANGED tables
  <2>1. PICK node \in req[q].seen :
            /\ ~ Taken("nic", M(q).keys) /\ ById("node", {node.id}) # {}
            /\ Insert("nic", M(q).keys, [k \in M(q).keys |-> node.id], NoDistro, q)
    BY <1>3 DEF NicCreate
  <2>2. M(q).keys \in SUBSET Key /\ IsFiniteSet(M(q).keys) /\ node \in Row
    BY <1>1, RequestIs
  <2>3. node.id \in 0..MaxId
    <3>1. node.id \in 1..MaxId
      BY <2>2 DEF Row
    <3> QED BY <3>1, CatalogAssumption DEF CatalogAssumption
  <2>4. node.id \in Ids(rows["node"])
    BY <2>1 DEF ById, Ids
  <2> DEFINE refs == [k \in M(q).keys |-> node.id]
  <2>5. refs \in [M(q).keys -> 0..MaxId] /\ \A k \in M(q).keys : refs[k] \in Ids(rows["node"])
    BY <2>3, <2>4
  <2>6. Insert("nic", M(q).keys, refs, NoDistro, q)
    BY <2>1
  <2> HIDE DEF refs
  <2> QED BY <1>1, <2>1, <2>2, <2>5, <2>6, InsertKeeps DEF TablesGoOn
<1> QED BY <1>2, <1>3

\* ... the nodes of a bulk, each of them with a row of its own, ...
LEMMA BulkNodes ==
  ASSUME CatalogInv, NEW q \in Request, BulkInsertNodes(q), ~ (Fail(q) /\ UNCHANGED tables)
  PROVE  /\ TablesGoOn(q) /\ Proceed(q, "ids", {})
         /\ \A k \in Todo(q) : \E s \in rows'["node"] :
                s.id = NewIds("node", Todo(q))[k] /\ s.by = q
<1>1. /\ TablesInv /\ req \in [Request -> ReqType] /\ "node" \in Kind /\ NoDistro \in Distro \union {NoDistro}
      /\ MaxId \in Nat
  BY CatalogAssumption DEF CatalogInv, Kind, CatalogAssumption
<1> DEFINE refs == [n \in Todo(q) |-> 0]
<1>2. /\ ~ Taken("node", Todo(q)) /\ Insert("node", Todo(q), refs, NoDistro, q)
      /\ Proceed(q, "ids", {})
  BY DEF BulkInsertNodes, Bulk
<1>3. Todo(q) \in SUBSET Key /\ IsFiniteSet(Todo(q))
  BY <1>1, RequestIs
<1>4. refs \in [Todo(q) -> 0..MaxId] /\ \A k \in Todo(q) : refs[k] = 0
  BY <1>1
<1> HIDE DEF refs
<1> QED BY <1>1, <1>2, <1>3, <1>4, InsertKeeps DEF TablesGoOn

\* The first transaction of a bulk, whatever its outcome.
LEMMA BulkNodesTables ==
  ASSUME CatalogInv, NEW q \in Request, BulkInsertNodes(q)
  PROVE  TablesGoOn(q)
<1>1. CASE Fail(q) /\ UNCHANGED tables
  BY <1>1, TablesStay DEF TablesGoOn, CatalogInv
<1> QED BY <1>1, BulkNodes

\* ... and their nics, each of the node that has been looked up for its mac.
LEMMA BulkNics ==
  ASSUME CatalogInv, NEW q \in Request, BulkInsertNics(q), ~ (Fail(q) /\ UNCHANGED tables)
  PROVE  /\ TablesGoOn(q) /\ Succeed(q)
         /\ \A n \in req[q].seen : \E s \in rows'["nic"] : s.by = q /\ s.ref = n.id
<1>1. /\ TablesInv /\ req \in [Request -> ReqType] /\ "nic" \in Kind /\ NoDistro \in Distro \union {NoDistro}
      /\ MaxId \in Nat /\ MacOf \in [Key -> Key] /\ Creates(q) /\ Answers(q)
  BY CatalogAssumption DEF CatalogInv, Kind, CatalogAssumption
<1> DEFINE seen == req[q].seen
           macs == MacsOf(Todo(q))
           row(mac) == CHOOSE r \in seen : MacOf[r.key] = mac
           refs == [m \in macs |-> row(m).id]
<1>2. /\ Is(q, "post", "node") /\ At(q, "nics") /\ ~ SameMac(Todo(q)) /\ ~ Taken("nic", macs)
      /\ Ids(seen) \subseteq Ids(rows["node"])
      /\ Insert("nic", macs, refs, NoDistro, q) /\ Succeed(q)
  BY DEF BulkInsertNics
<1>3. /\ Todo(q) \in SUBSET Key /\ Todo(q) \in SUBSET M(q).keys /\ IsFiniteSet(Todo(q)) /\ seen \in SUBSET Row
      /\ \A j, k \in Todo(q) : MacOf[j] = MacOf[k] => j = k
  BY <1>1, <1>2, RequestIs DEF SameMac
<1>4. Keys(seen) = Todo(q) /\ \A n, s \in seen : n.key = s.key => n = s
  BY <1>1, <1>2, <1>3 DEF Creates, At, Bulky
<1>5. macs \in SUBSET Key /\ IsFiniteSet(macs)
  <2>1. macs \in SUBSET Key
    BY <1>1, <1>3 DEF MacsOf
  <2> DEFINE g == [n \in Todo(q) |-> MacOf[n]]
  <2>2. g \in Surjection(Todo(q), macs)
    BY DEF Surjection, MacsOf
  <2> QED BY <1>3, <2>1, <2>2, FS_Surjection
<1>6. ASSUME NEW mac \in macs PROVE row(mac) \in seen /\ MacOf[row(mac).key] = mac
  <2>1. PICK k \in Todo(q) : mac = MacOf[k]
    BY <1>6 DEF MacsOf
  <2>2. PICK r \in seen : r.key = k
    BY <1>4, <2>1 DEF Keys
  <2> QED BY <2>1, <2>2
<1>7. ASSUME NEW n \in seen PROVE MacOf[n.key] \in macs /\ row(MacOf[n.key]) = n
  <2>1. n.key \in Todo(q) /\ MacOf[n.key] \in macs
    BY <1>4 DEF Keys, MacsOf
  <2>2. row(MacOf[n.key]) \in seen /\ MacOf[row(MacOf[n.key]).key] = MacOf[n.key]
    BY <1>6, <2>1
  <2>3. row(MacOf[n.key]).key \in Todo(q)
    BY <1>4, <2>2 DEF Keys
  <2>4. row(MacOf[n.key]).key = n.key
    <3> HIDE DEF row
    <3> QED BY <1>3, <2>1, <2>2, <2>3
  <2> QED
    <3> HIDE DEF row
    <3> QED BY <1>4, <2>1, <2>2, <2>4
<1> HIDE DEF row
<1>8. \A mac \in macs : refs[mac] \in 0..MaxId /\ refs[mac] \in Ids(rows["node"])
  <2> SUFFICES ASSUME NEW mac \in macs PROVE refs[mac] \in 0..MaxId /\ refs[mac] \in Ids(rows["node"])
    OBVIOUS
  <2>1. row(mac) \in seen /\ row(mac) \in Row
    BY <1>3, <1>6
  <2>2. row(mac).id \in 1..MaxId
    BY <2>1 DEF Row
  <2>3. row(mac).id \in Ids(seen)
    BY <2>1 DEF Ids
  <2>4. refs[mac] = row(mac).id
    OBVIOUS
  <2> HIDE DEF refs
  <2>5. refs[mac] \in 0..MaxId
    BY <1>1, <2>2, <2>4
  <2>6. refs[mac] \in Ids(rows["node"])
    BY <1>2, <2>3, <2>4
  <2> QED BY <2>5, <2>6
<1>9. refs \in [macs -> 0..MaxId]
  BY <1>8
<1>10. \A n \in seen : MacOf[n.key] \in macs /\ refs[MacOf[n.key]] = n.id
  BY <1>7
<1> HIDE DEF refs, macs
<1>11. /\ TablesInv' /\ Onward(q) /\ RefsKept
       /\ \A k \in macs : \E s \in rows'["nic"] :
               s.id = NewIds("nic", macs)[k] /\ s.key = k /\ s.ref = refs[k] /\ s.by = q
  <2>1. ~ Taken("nic", macs) /\ Insert("nic", macs, refs, NoDistro, q)
    BY <1>2
  <2> QED BY <1>1, <1>5, <1>8, <1>9, <2>1, InsertKeeps
<1>12. \A n \in seen : \E s \in rows'["nic"] : s.by = q /\ s.ref = n.id
  BY <1>10, <1>11
<1> QED BY <1>2, <1>11, <1>12 DEF TablesGoOn

\* The second transaction of a bulk, whatever its outcome.
LEMMA BulkNicsTables ==
  ASSUME CatalogInv, NEW q \in Request, BulkInsertNics(q)
  PROVE  TablesGoOn(q)
<1>1. CASE Fail(q) /\ UNCHANGED tables
  BY <1>1, TablesStay DEF TablesGoOn, CatalogInv
<1> QED BY <1>1, BulkNics

\* The tables after any transaction.
LEMMA TablesStep ==
  ASSUME CatalogInv, NEW q \in Request, Step(q)
  PROVE  TablesInv' /\ Onward(q) /\ (RefsKept \/ ProvisionSave(q))
<1>1. TablesInv /\ req \in [Request -> ReqType] /\ {"network", "passwd", "nic", "osimage", "node"} \subseteq Kind
  BY DEF CatalogInv, Kind
<1>2. CASE UNCHANGED tables
  BY <1>1, <1>2, TablesStay
<1>3. CASE NetworkSave(q) \/ PasswdSave(q) \/ NicSave(q) \/ ImageSave(q)
  <2>1. PICK kind \in Kind : Is(q, "patch", kind) /\ Save(q, kind)
    BY <1>1, <1>3 DEF NetworkSave, PasswdSave, NicSave, ImageSave
  <2> QED BY <2>1, SaveTables DEF TablesGoOn
<1>4. CASE NetworkPost(q) \/ PasswdPost(q) \/ ImagePost(q) \/ UploadCreate(q)
  <2>1. M(q).kind = "osimage" /\ M(q).op \in {"post", "copycd"} => M(q).distro \in Distro
    BY <1>1, RequestIs
  <2>2. CASE NetworkPost(q)
    BY <2>2, CreateTables DEF NetworkPost, TablesGoOn
  <2>3. CASE PasswdPost(q)
    BY <2>3, CreateTables DEF PasswdPost, TablesGoOn
  <2>4. CASE ImagePost(q)
    BY <2>1, <2>4, CreateTables DEF ImagePost, Is, TablesGoOn
  <2>5. CASE UploadCreate(q)
    <3>1. M(q).distro \in Distro
      BY <2>1, <2>5 DEF UploadCreate, Is
    <3> QED BY <2>5, <3>1, CreateTables DEF TablesGoOn
  <2> QED BY <1>4, <2>2, <2>3, <2>4, <2>5
<1>5. CASE NetworkDestroy(q) \/ PasswdDestroy(q) \/ NicDestroy(q) \/ ImageDestroy(q)
  <2>1. ASSUME NEW kind \in Kind, NEW S PROVE ByKey(kind, S) \in SUBSET rows[kind] /\ ById(kind, S) \in SUBSET rows[kind]
    BY DEF ByKey, ById
  <2>2. CASE NetworkDestroy(q) \/ PasswdDestroy(q)
    BY <1>1, <2>1, <2>2, DestroyTables DEF NetworkDestroy, PasswdDestroy, DestroyNamed, TablesGoOn
  <2>3. CASE NicDestroy(q)
    BY <1>1, <2>1, <2>3, DestroyTables DEF NicDestroy, TablesGoOn
  <2>4. CASE ImageDestroy(q)
    <3> DEFINE named == ByKey("osimage", Keys(req[q].seen))
               victims == IF Users(named) = {} THEN named ELSE {}
    <3>1. victims \in SUBSET rows["osimage"]
      BY <1>1, <2>1
    <3>2. Users(victims) = {}
      BY DEF Users, Ids
    <3>3. Destroy(q, "osimage", victims)
      BY <2>4 DEF ImageDestroy
    <3> HIDE DEF victims
    <3> QED BY <1>1, <3>1, <3>2, <3>3, DestroyTables DEF TablesGoOn
  <2> QED BY <1>5, <2>2, <2>3, <2>4
<1>6. CASE NodesRelease(q) \/ NodesDelete(q) \/ ProvisionLock(q)
  <2>1. {"read", "destroy", "lock", "image"} \subseteq Phases
    BY DEF Phases
  <2> QED BY <1>6, <2>1, LockTables DEF NodesDelete, ProvisionLock, TablesGoOn
<1>7. CASE NodePost(q) \/ NicCreate(q) \/ BulkInsertNodes(q) \/ BulkInsertNics(q)
  BY <1>7, PostTables, NicTables, BulkNodesTables, BulkNicsTables DEF TablesGoOn
<1>8. CASE NodesDestroy(q)
  <2>1. CASE Delete("node", Ids({r \in req[q].held : r.attrs["b"] # "new"}))
    BY <1>1, <2>1, DeleteKeeps
  <2> QED BY <1>2, <1>8, <2>1 DEF NodesDestroy
<1>9. CASE NodesSave(q) \/ UploadSave(q)
  BY <1>9, NodesSaveTables, UploadSaveTables DEF TablesGoOn
<1>10. CASE ProvisionSave(q)
  BY <1>10, ProvisionSaveTables
<1>11. CASE \/ NetworkPatch(q) \/ NetworkDelete(q) \/ PasswdPatch(q) \/ PasswdDelete(q)
            \/ NicPost(q) \/ NicDelete(q) \/ NicPatch(q) \/ ImagePatch(q) \/ ImageDelete(q)
  BY <1>2, <1>11 DEF NetworkPatch, NetworkDelete, PasswdPatch, PasswdDelete, NicPost, NicDelete,
                     NicPatch, ImagePatch, ImageDelete, NetworkGet, PasswdGet, NicGet, Get
<1>12. CASE \/ BulkCheck(q) \/ BulkLookUp(q) \/ NodesFilter(q) \/ NodesPatch(q)
            \/ ImageInUse(q) \/ ImageFiles(q) \/ Copycd(q) \/ Upload(q) \/ Provision(q) \/ EnsureImage(q)
  BY <1>2, <1>12 DEF BulkCheck, BulkLookUp, NodesFilter, NodesPatch, ImageInUse, ImageFiles, Copycd,
                     Upload, Provision, EnsureImage
<1> QED BY <1>3, <1>4, <1>5, <1>6, <1>7, <1>8, <1>9, <1>10, <1>11, <1>12 DEF Step

-----------------------------------------------------------------------------
(* The requests.                                                            *)

\* The request q after a step of its own; the others are as they were.
Becomes(q, phase, seen, held, ok, failed) ==
    /\ req' \in [Request -> ReqType] /\ \A p \in Request \ {q} : req'[p] = req[p]
    /\ req'[q].m = M(q) /\ req'[q].phase = phase /\ req'[q].seen = seen /\ req'[q].held = held
    /\ req'[q].ok = ok /\ req'[q].failed = failed

\* What a step of q does to the requests.
RequestGoesOn(q) ==
    /\ req' \in [Request -> ReqType] /\ \A p \in Request \ {q} : req'[p] = req[p]
    /\ req'[q].m = M(q) /\ Answers(q)'

\* The request of a step changes, and no other.
LEMMA OneBecomes ==
  ASSUME req \in [Request -> ReqType], NEW q \in Request, NEW r \in ReqType, r.m = M(q),
         req' = [req EXCEPT ![q] = r]
  PROVE  Becomes(q, r.phase, r.seen, r.held, r.ok, r.failed)
<1>1. req' \in [Request -> ReqType] /\ (\A p \in Request \ {q} : req'[p] = req[p]) /\ req'[q] = r
  OBVIOUS
<1> QED BY <1>1 DEF Becomes

\* The request goes on to another transaction, with what it has read.
LEMMA ProceedIs ==
  ASSUME req \in [Request -> ReqType], NEW q \in Request, NEW phase \in Phases, NEW seen \in SUBSET Row,
         Proceed(q, phase, seen)
  PROVE  Becomes(q, phase, seen, req[q].held, req[q].ok, req[q].failed)
<1> DEFINE r == [req[q] EXCEPT !.phase = phase, !.seen = seen]
<1>1. req[q] \in ReqType
  OBVIOUS
<1>2. /\ r \in ReqType /\ r.m = M(q) /\ r.phase = phase /\ r.seen = seen
      /\ r.held = req[q].held /\ r.ok = req[q].ok /\ r.failed = req[q].failed
  BY <1>1 DEF ReqType, M
<1>3. req' = [req EXCEPT ![q] = r]
  BY DEF Proceed
<1> HIDE DEF r
<1>4. Becomes(q, r.phase, r.seen, r.held, r.ok, r.failed)
  BY <1>2, <1>3, OneBecomes
<1> QED BY <1>2, <1>4

\* The request has its answer.
LEMMA AnswerIs ==
  ASSUME req \in [Request -> ReqType], NEW q \in Request, NEW ok \in SUBSET Key, NEW failed \in SUBSET Key,
         Answer(q, ok, failed)
  PROVE  Becomes(q, End(q), {}, req[q].held, ok, failed)
<1> DEFINE r == [req[q] EXCEPT !.phase = End(q), !.seen = {}, !.ok = ok, !.failed = failed]
<1>1. req[q] \in ReqType /\ End(q) \in Phases
  BY DEF End, Phases
<1>2. /\ r \in ReqType /\ r.m = M(q) /\ r.phase = End(q) /\ r.seen = {}
      /\ r.held = req[q].held /\ r.ok = ok /\ r.failed = failed
  BY <1>1 DEF ReqType, M
<1>3. req' = [req EXCEPT ![q] = r]
  BY DEF Answer
<1> HIDE DEF r
<1>4. Becomes(q, r.phase, r.seen, r.held, r.ok, r.failed)
  BY <1>2, <1>3, OneBecomes
<1> QED BY <1>2, <1>4

\* When such a step keeps what is known of the answer.
LEMMA AnswersKeep ==
  ASSUME NEW q \in Request, NEW phase, NEW seen, NEW held, NEW ok, NEW failed,
         Becomes(q, phase, seen, held, ok, failed),
         ok \intersect failed = {}, ok \union failed \subseteq M(q).keys,
         phase \in {"done", "release"} => ok \union failed = M(q).keys,
         ok # {} => \/ phase \in {"done", "release"}
                    \/ phase = "idle" /\ Is(q, "post", "node") /\ ~ Bulky(q),
         Is(q, "delete", "node") /\ phase = "destroy" => Keys(held) = M(q).keys \ (ok \union failed),
         held # {} => OnNodes(q), IsFiniteSet(seen)
  PROVE  RequestGoesOn(q)
<1>1. /\ req' \in [Request -> ReqType] /\ \A p \in Request \ {q} : req'[p] = req[p]
      /\ req'[q].m = M(q) /\ req'[q].phase = phase /\ req'[q].seen = seen /\ req'[q].held = held
      /\ req'[q].ok = ok /\ req'[q].failed = failed
  BY DEF Becomes
<1>2. M(q)' = M(q)
  BY <1>1 DEF M
<1>3. /\ \A op, kind : Is(q, op, kind)' <=> Is(q, op, kind)
      /\ OnNodes(q)' <=> OnNodes(q)
      /\ Bulky(q)' <=> Bulky(q)
      /\ Todo(q)' = M(q).keys \ (ok \union failed)
  BY <1>1, <1>2 DEF Is, OnNodes, Bulky, Todo
<1>4. Keys(held)' = Keys(held)
  BY DEF Keys
<1>5. Keys(req[q].held)' = Keys(held)
  BY <1>1 DEF Keys
<1>6. Answers(q)'
  BY <1>1, <1>2, <1>3, <1>5 DEF Answers
<1> QED BY <1>1, <1>6 DEF RequestGoesOn

\* An answer for every name: all of them failed, or those that are left done.
LEMMA AnswerGoesOn ==
  ASSUME req \in [Request -> ReqType], NEW q \in Request, Answers(q), Fail(q) \/ Succeed(q)
  PROVE  RequestGoesOn(q)
<1>1. /\ M(q).keys \in SUBSET Key /\ req[q].ok \in SUBSET Key /\ req[q].failed \in SUBSET Key
      /\ Todo(q) \in SUBSET Key /\ {} \in SUBSET Key /\ IsFiniteSet({})
  BY RequestIs, FS_EmptySet
<1>2. /\ req[q].ok \intersect req[q].failed = {} /\ req[q].ok \union req[q].failed \subseteq M(q).keys
      /\ req[q].held # {} => OnNodes(q)
      /\ End(q) \in {"done", "release"}
  BY DEF Answers, End
<1>3. CASE Fail(q)
  <2>1. Becomes(q, End(q), {}, req[q].held, {}, M(q).keys)
    BY <1>1, <1>3, AnswerIs DEF Fail
  <2> QED BY <1>1, <1>2, <2>1, AnswersKeep
<1>4. CASE Succeed(q)
  <2> DEFINE ok == req[q].ok \union Todo(q)
  <2>1. ok \in SUBSET Key /\ ok \intersect req[q].failed = {} /\ ok \union req[q].failed = M(q).keys
    BY <1>1, <1>2 DEF Todo
  <2>2. Answer(q, ok, req[q].failed)
    BY <1>4 DEF Succeed
  <2> HIDE DEF ok
  <2>3. Becomes(q, End(q), {}, req[q].held, ok, req[q].failed)
    BY <1>1, <2>1, <2>2, AnswerIs
  <2> QED BY <1>1, <1>2, <2>1, <2>3, AnswersKeep
<1> QED BY <1>3, <1>4

\* A request that goes on has done nothing yet.
LEMMA ProceedGoesOn ==
  ASSUME req \in [Request -> ReqType], NEW q \in Request, Answers(q),
         ~ At(q, "done"), ~ At(q, "release"), At(q, "idle") => ~ Is(q, "post", "node"),
         NEW phase \in Phases \ {"done", "release"}, NEW seen \in SUBSET Row, IsFiniteSet(seen),
         Proceed(q, phase, seen), ~ (Is(q, "delete", "node") /\ phase = "destroy")
  PROVE  RequestGoesOn(q)
<1>1. Becomes(q, phase, seen, req[q].held, req[q].ok, req[q].failed)
  BY ProceedIs
<1>2. req[q].ok = {}
  BY DEF Answers, At
<1>3. req[q].ok \intersect req[q].failed = {} /\ req[q].ok \union req[q].failed \subseteq M(q).keys
      /\ (req[q].held # {} => OnNodes(q))
  BY DEF Answers
<1> QED BY <1>1, <1>2, <1>3, AnswersKeep

\* A lookup.
LEMMA GetGoesOn ==
  ASSUME CatalogInv, NEW q \in Request, NEW kind \in Kind, NEW next \in Phases \ {"done", "release"},
         Get(q, kind, next), ~ Is(q, "post", "node"), ~ Is(q, "delete", "node")
  PROVE  RequestGoesOn(q)
<1>1. TablesInv /\ req \in [Request -> ReqType] /\ Answers(q)
  BY DEF CatalogInv
<1> DEFINE found == ByKey(kind, M(q).keys)
<1>2. found \in SUBSET Row /\ IsFiniteSet(found)
  <2>1. found \in SUBSET rows[kind]
    BY DEF ByKey
  <2> QED BY <1>1, <2>1, RowsAreFinite, FS_Subset
<1>3. At(q, "idle") /\ (Fail(q) \/ Proceed(q, next, found))
  BY DEF Get
<1>4. ~ At(q, "done") /\ ~ At(q, "release")
  BY <1>3 DEF At
<1> HIDE DEF found
<1> QED BY <1>1, <1>2, <1>3, <1>4, AnswerGoesOn, ProceedGoesOn

\* What a request finds in a table is finite.
LEMMA FoundIs ==
  ASSUME TablesInv, NEW kind \in Kind, NEW found \in SUBSET rows[kind]
  PROVE  found \in SUBSET Row /\ IsFiniteSet(found)
BY RowsAreFinite, FS_Subset

\* The lock of the nodes: all of those that are left, or none.
LEMMA LockGoesOn ==
  ASSUME CatalogInv, NEW q \in Request, OnNodes(q), NEW from, NEW next \in Phases \ {"done", "release"},
         from \notin {"done", "release", "idle"}, NodesLock(q, from, next)
  PROVE  RequestGoesOn(q)
<1>1. TablesInv /\ req \in [Request -> ReqType] /\ Answers(q) /\ "node" \in Kind
  BY DEF CatalogInv, Kind
<1>2. CASE Fail(q)
  BY <1>1, <1>2, AnswerGoesOn
<1>3. CASE ~ Fail(q)
  <2> DEFINE found == ByKey("node", Todo(q))
             r == [req[q] EXCEPT !.phase = next, !.held = found]
  <2>1. Keys(found) = Todo(q) /\ req' = [req EXCEPT ![q] = r]
    BY <1>3 DEF NodesLock
  <2>2. found \in SUBSET Row
    <3>1. found \in SUBSET rows["node"]
      BY DEF ByKey
    <3> QED BY <1>1, <3>1, FoundIs
  <2>3. req[q] \in ReqType
    BY <1>1
  <2> HIDE DEF found
  <2>4. /\ r \in ReqType /\ r.m = M(q) /\ r.phase = next /\ r.seen = req[q].seen
        /\ r.held = found /\ r.ok = req[q].ok /\ r.failed = req[q].failed
    BY <2>2, <2>3 DEF ReqType, M
  <2> HIDE DEF r
  <2>5. Becomes(q, r.phase, r.seen, r.held, r.ok, r.failed)
    BY <1>1, <2>1, <2>4, OneBecomes
  <2>6. Becomes(q, next, req[q].seen, found, req[q].ok, req[q].failed)
    BY <2>4, <2>5
  <2>7. req[q].ok = {}
    BY <1>1 DEF Answers, NodesLock, At
  <2>8. /\ req[q].ok \intersect req[q].failed = {} /\ req[q].ok \union req[q].failed \subseteq M(q).keys
        /\ IsFiniteSet(req[q].seen)
    BY <1>1 DEF Answers
  <2>9. Keys(found) = M(q).keys \ (req[q].ok \union req[q].failed)
    BY <2>1 DEF Todo
  <2> QED BY <2>6, <2>7, <2>8, <2>9, AnswersKeep
<1> QED BY <1>2, <1>3

\* The answer goes out when the lock is given back.
LEMMA ReleaseGoesOn ==
  ASSUME CatalogInv, NEW q \in Request, NodesRelease(q)
  PROVE  RequestGoesOn(q)
<1>1. req \in [Request -> ReqType] /\ Answers(q) /\ req[q] \in ReqType /\ "done" \in Phases
  BY DEF CatalogInv, Phases
<1> DEFINE r == [req[q] EXCEPT !.phase = "done", !.held = {}]
<1>2. req' = [req EXCEPT ![q] = r] /\ At(q, "release")
  BY DEF NodesRelease
<1>3. /\ r \in ReqType /\ r.m = M(q) /\ r.phase = "done" /\ r.seen = req[q].seen
      /\ r.held = {} /\ r.ok = req[q].ok /\ r.failed = req[q].failed
  BY <1>1 DEF ReqType, M
<1> HIDE DEF r
<1>4. Becomes(q, r.phase, r.seen, r.held, r.ok, r.failed)
  BY <1>1, <1>2, <1>3, OneBecomes
<1>5. Becomes(q, "done", req[q].seen, {}, req[q].ok, req[q].failed)
  BY <1>3, <1>4
<1>6. /\ req[q].ok \intersect req[q].failed = {} /\ req[q].ok \union req[q].failed = M(q).keys
      /\ IsFiniteSet(req[q].seen)
  BY <1>1, <1>2 DEF Answers, At
<1> QED BY <1>5, <1>6, AnswersKeep

\* Names that are left out, or answered for, one by one or in bulk.
LEMMA SomeAnswered ==
  ASSUME CatalogInv, NEW q \in Request, At(q, "idle"),
         NEW phase \in Phases, NEW ok \in SUBSET Key, NEW failed \in SUBSET Key,
         req' = [req EXCEPT ![q].phase = phase, ![q].ok = ok, ![q].failed = failed],
         ok \intersect failed = {}, ok \union failed \subseteq M(q).keys,
         phase # "release", phase = "done" => ok \union failed = M(q).keys, phase # "destroy",
         ok # {} => Is(q, "post", "node") /\ ~ Bulky(q) /\ phase \in {"idle", "done"}
  PROVE  RequestGoesOn(q) /\ Becomes(q, phase, req[q].seen, req[q].held, ok, failed)
<1>1. req \in [Request -> ReqType] /\ Answers(q) /\ req[q] \in ReqType
  BY DEF CatalogInv
<1> DEFINE r == [req[q] EXCEPT !.phase = phase, !.ok = ok, !.failed = failed]
<1>2. req' = [req EXCEPT ![q] = r]
  OBVIOUS
<1>3. /\ r \in ReqType /\ r.m = M(q) /\ r.phase = phase /\ r.seen = req[q].seen
      /\ r.held = req[q].held /\ r.ok = ok /\ r.failed = failed
  BY <1>1 DEF ReqType, M
<1> HIDE DEF r
<1>4. Becomes(q, r.phase, r.seen, r.held, r.ok, r.failed)
  BY <1>1, <1>2, <1>3, OneBecomes
<1>5. Becomes(q, phase, req[q].seen, req[q].held, ok, failed)
  BY <1>3, <1>4
<1>6. (req[q].held # {} => OnNodes(q)) /\ IsFiniteSet(req[q].seen)
  BY <1>1 DEF Answers
<1> QED BY <1>5, <1>6, AnswersKeep

\* A POST of single nodes answers for them one by one.
LEMMA NodePostGoesOn ==
  ASSUME CatalogInv, NEW q \in Request, NodePost(q)
  PROVE  \E name \in Todo(q), phase \in {"idle", "done"} :
            \/ /\ Becomes(q, phase, req[q].seen, req[q].held, req[q].ok, req[q].failed \union {name})
               /\ RequestGoesOn(q) /\ UNCHANGED tables
            \/ /\ Becomes(q, phase, req[q].seen, req[q].held, req[q].ok \union {name}, req[q].failed)
               /\ RequestGoesOn(q)
               /\ ~ Taken("node", {name}) /\ ~ Taken("nic", {MacOf[name]})
               /\ Room("node", 1) /\ Room("nic", 1)
               /\ rows' = [rows EXCEPT
                    !["node"] = @ \union {NewRow(ids["node"] + 1, name, 0, NoDistro, q)},
                    !["nic"] = @ \union {NewRow(ids["nic"] + 1, MacOf[name], ids["node"] + 1, NoDistro, q)}]
               /\ ids' = [ids EXCEPT !["node"] = @ + 1, !["nic"] = @ + 1] /\ UNCHANGED gone
<1>1. req \in [Request -> ReqType] /\ Answers(q) /\ req[q] \in ReqType
  BY DEF CatalogInv
<1>2. At(q, "idle") /\ Is(q, "post", "node") /\ Cardinality(M(q).keys) < BulkSize
  BY DEF NodePost
<1>3. ~ Bulky(q)
  <2>1. Cardinality(M(q).keys) \in Nat /\ BulkSize \in Nat
    BY <1>1, RequestIs, FS_CardinalityType, CatalogAssumption DEF CatalogAssumption
  <2> QED BY <1>2, <2>1 DEF Bulky
<1>4. /\ req[q].ok \in SUBSET Key /\ req[q].failed \in SUBSET Key /\ M(q).keys \in SUBSET Key
      /\ Todo(q) = M(q).keys \ (req[q].ok \union req[q].failed)
      /\ req[q].ok \intersect req[q].failed = {} /\ req[q].ok \union req[q].failed \subseteq M(q).keys
  BY <1>1, RequestIs DEF Answers, Todo
<1>5. PICK name \in Todo(q) :
        LET phase == IF Todo(q) = {name} THEN "done" ELSE "idle"
        IN  IF Taken("node", {name}) \/ Taken("nic", {MacOf[name]})
            THEN /\ req' = [req EXCEPT ![q].phase = phase, ![q].failed = @ \union {name}]
                 /\ UNCHANGED tables
            ELSE /\ Room("node", 1) /\ Room("nic", 1)
                 /\ LET id == ids["node"] + 1
                        mac == MacOf[name]
                    IN  rows' = [rows EXCEPT
                            !["node"] = @ \union {NewRow(id, name, 0, NoDistro, q)},
                            !["nic"] = @ \union {NewRow(ids["nic"] + 1, mac, id, NoDistro, q)}]
                 /\ ids' = [ids EXCEPT !["node"] = @ + 1, !["nic"] = @ + 1]
                 /\ req' = [req EXCEPT ![q].phase = phase, ![q].ok = @ \union {name}]
                 /\ UNCHANGED gone
  BY DEF NodePost
<1> DEFINE phase == IF Todo(q) = {name} THEN "done" ELSE "idle"
           ok == req[q].ok \union {name}
           failed == req[q].failed \union {name}
<1>6. phase \in Phases /\ phase \in {"idle", "done"} /\ (phase = "done" => Todo(q) = {name})
  BY DEF Phases
<1>7. /\ ok \in SUBSET Key /\ ok \intersect req[q].failed = {} /\ ok \union req[q].failed \subseteq M(q).keys
      /\ phase = "done" => ok \union req[q].failed = M(q).keys
  BY <1>4, <1>6
<1>8. /\ failed \in SUBSET Key /\ req[q].ok \intersect failed = {} /\ req[q].ok \union failed \subseteq M(q).keys
      /\ phase = "done" => req[q].ok \union failed = M(q).keys
  BY <1>4, <1>6
<1>9. CASE Taken("node", {name}) \/ Taken("nic", {MacOf[name]})
  <2>1. req' = [req EXCEPT ![q].phase = phase, ![q].failed = failed] /\ UNCHANGED tables
    BY <1>5, <1>9
  <2> HIDE DEF phase, failed, ok
  <2>2. req' = [req EXCEPT ![q].phase = phase, ![q].ok = req[q].ok, ![q].failed = failed]
    <3> DEFINE r == [req[q] EXCEPT !.phase = phase, !.failed = failed]
               s == [req[q] EXCEPT !.phase = phase, !.ok = req[q].ok, !.failed = failed]
    <3>1. r = s
      BY <1>1 DEF ReqType
    <3> QED BY <2>1, <3>1
  <2>3. RequestGoesOn(q) /\ Becomes(q, phase, req[q].seen, req[q].held, req[q].ok, failed)
    BY <1>2, <1>3, <1>4, <1>6, <1>8, <2>2, SomeAnswered
  <2> QED BY <1>6, <2>1, <2>3 DEF failed
<1>10. CASE ~ (Taken("node", {name}) \/ Taken("nic", {MacOf[name]}))
  <2>1. /\ req' = [req EXCEPT ![q].phase = phase, ![q].ok = ok]
        /\ Room("node", 1) /\ Room("nic", 1)
        /\ rows' = [rows EXCEPT
                    !["node"] = @ \union {NewRow(ids["node"] + 1, name, 0, NoDistro, q)},
                    !["nic"] = @ \union {NewRow(ids["nic"] + 1, MacOf[name], ids["node"] + 1, NoDistro, q)}]
        /\ ids' = [ids EXCEPT !["node"] = @ + 1, !["nic"] = @ + 1] /\ UNCHANGED gone
    BY <1>5, <1>10
  <2> HIDE DEF phase, failed, ok
  <2>2. req' = [req EXCEPT ![q].phase = phase, ![q].ok = ok, ![q].failed = req[q].failed]
    <3> DEFINE r == [req[q] EXCEPT !.phase = phase, !.ok = ok]
               s == [req[q] EXCEPT !.phase = phase, !.ok = ok, !.failed = req[q].failed]
    <3>1. r = s
      BY <1>1 DEF ReqType
    <3> QED BY <2>1, <3>1
  <2>3. RequestGoesOn(q) /\ Becomes(q, phase, req[q].seen, req[q].held, ok, req[q].failed)
    BY <1>2, <1>3, <1>4, <1>6, <1>7, <2>2, SomeAnswered
  <2> QED BY <1>6, <1>10, <2>1, <2>3 DEF ok
<1> QED BY <1>9, <1>10

\* Names that are left out from the start.
LEMMA FilterGoesOn ==
  ASSUME CatalogInv, NEW q \in Request, BulkCheck(q) \/ NodesFilter(q)
  PROVE  RequestGoesOn(q)
<1>1. req \in [Request -> ReqType] /\ Answers(q) /\ req[q] \in ReqType
  BY DEF CatalogInv
<1>2. M(q).keys \in SUBSET Key /\ req[q].ok \in SUBSET Key /\ req[q].failed \in SUBSET Key
  BY <1>1, RequestIs
<1>3. PICK failed \in SUBSET M(q).keys, phase \in Phases \ {"release", "destroy", "idle"} :
            /\ req' = [req EXCEPT ![q].failed = failed, ![q].phase = phase]
            /\ phase = "done" => failed = M(q).keys
  <2>1. CASE BulkCheck(q)
    <3> DEFINE dups == Keys(ByKey("node", M(q).keys))
               phase == IF dups = M(q).keys THEN "done" ELSE "insert"
    <3>1. dups \in SUBSET M(q).keys
      BY DEF Keys, ByKey
    <3>2. phase \in Phases \ {"release", "destroy", "idle"} /\ (phase = "done" => dups = M(q).keys)
      BY DEF Phases
    <3>3. req' = [req EXCEPT ![q].failed = dups, ![q].phase = phase]
      BY <2>1 DEF BulkCheck
    <3> HIDE DEF dups, phase
    <3> QED BY <3>1, <3>2, <3>3
  <2>2. CASE NodesFilter(q)
    <3> DEFINE failed == Unavailable(q)
               phase == IF failed = M(q).keys THEN "done" ELSE "read"
    <3>1. failed \in SUBSET M(q).keys
      BY DEF Unavailable
    <3>2. phase \in Phases \ {"release", "destroy", "idle"} /\ (phase = "done" => failed = M(q).keys)
      BY DEF Phases
    <3>3. req' = [req EXCEPT ![q].failed = failed, ![q].phase = phase]
      BY <2>2 DEF NodesFilter
    <3> HIDE DEF failed, phase
    <3> QED BY <3>1, <3>2, <3>3
  <2> QED BY <2>1, <2>2
<1>4. CASE req[q].ok = {}
  <2>1. req' = [req EXCEPT ![q].phase = phase, ![q].ok = {}, ![q].failed = failed]
    <3> DEFINE r == [req[q] EXCEPT !.failed = failed, !.phase = phase]
               s == [req[q] EXCEPT !.phase = phase, !.ok = {}, !.failed = failed]
    <3>1. r = s
      BY <1>1, <1>4 DEF ReqType
    <3> QED BY <1>3, <3>1
  <2>2. At(q, "idle") /\ failed \in SUBSET Key /\ {} \in SUBSET Key
    BY <1>2 DEF BulkCheck, NodesFilter
  <2>3. /\ phase \in Phases /\ phase # "release" /\ phase # "destroy"
        /\ {} \intersect failed = {} /\ {} \union failed \subseteq M(q).keys
        /\ phase = "done" => {} \union failed = M(q).keys
    BY <1>3
  <2> DEFINE ok == {}
  <2>4. ok = {}
    OBVIOUS
  <2> HIDE DEF ok
  <2> QED BY <2>1, <2>2, <2>3, <2>4, SomeAnswered
<1>5. req[q].ok = {}
  <2>1. At(q, "idle") /\ (Is(q, "post", "node") => Bulky(q))
    <3>1. OnNodes(q) => ~ Is(q, "post", "node")
      BY DEF OnNodes, Is
    <3>2. At(q, "idle") /\ (Bulky(q) \/ OnNodes(q))
      BY DEF BulkCheck, NodesFilter, Bulky
    <3> QED BY <3>1, <3>2
  <2> QED BY <1>1, <2>1 DEF Answers, At
<1> QED BY <1>4, <1>5

\* A DELETE of nodes answers for each node that it holds.
LEMMA DestroyGoesOn ==
  ASSUME CatalogInv, NEW q \in Request, NodesDestroy(q)
  PROVE  RequestGoesOn(q)
<1>1. req \in [Request -> ReqType] /\ Answers(q)
  BY DEF CatalogInv
<1>2. CASE Fail(q)
  BY <1>1, <1>2, AnswerGoesOn
<1>3. CASE ~ Fail(q)
  <2> DEFINE out == {r \in req[q].held : r.attrs["b"] # "new"}
             ok == Keys(out)
             failed == req[q].failed \union (Keys(req[q].held) \ Keys(out))
  <2>1. Answer(q, ok, failed) /\ At(q, "destroy") /\ Is(q, "delete", "node")
    BY <1>3 DEF NodesDestroy
  <2>2. /\ M(q).keys \in SUBSET Key /\ req[q].failed \in SUBSET Key /\ req[q].ok = {}
        /\ Keys(req[q].held) = M(q).keys \ req[q].failed /\ req[q].failed \subseteq M(q).keys
        /\ req[q].held # {} => OnNodes(q)
    BY <1>1, <2>1, RequestIs DEF Answers, At, Todo
  <2>3. Keys(out) \in SUBSET Keys(req[q].held)
    BY DEF Keys
  <2>4. /\ ok \in SUBSET Key /\ failed \in SUBSET Key /\ ok \intersect failed = {}
        /\ ok \union failed = M(q).keys
    <3> HIDE DEF out
    <3> QED BY <2>2, <2>3
  <2> HIDE DEF ok, failed
  <2>5. Becomes(q, End(q), {}, req[q].held, ok, failed)
    BY <1>1, <2>1, <2>4, AnswerIs
  <2>6. End(q) \in {"done", "release"} /\ IsFiniteSet({})
    BY FS_EmptySet DEF End
  <2> QED BY <2>2, <2>4, <2>5, <2>6, AnswersKeep
<1> QED BY <1>2, <1>3

\* Steps of a request that read something, or go on with what they have read.
Reads(q) ==
    \/ NicPost(q) \/ BulkInsertNodes(q) \/ BulkLookUp(q) \/ NodesPatch(q)
    \/ ImageInUse(q) \/ ImageFiles(q) \/ Copycd(q) \/ Upload(q) \/ Provision(q) \/ EnsureImage(q)

\* Such a step, whatever it finds.
LEMMA ReadsGoOn ==
  ASSUME CatalogInv, NEW q \in Request, Reads(q)
  PROVE  RequestGoesOn(q)
<1>1. TablesInv /\ req \in [Request -> ReqType] /\ Answers(q) /\ {"node", "osimage"} \subseteq Kind
  BY DEF CatalogInv, Kind
<1>2. req[q].seen \in SUBSET Row /\ IsFiniteSet(req[q].seen)
  BY <1>1, RequestIs DEF Answers
<1>3. /\ \A S : ByKey("node", S) \in SUBSET Row /\ IsFiniteSet(ByKey("node", S))
      /\ \A S : ByKey("osimage", S) \in SUBSET Row /\ IsFiniteSet(ByKey("osimage", S))
  <2>1. \A S : ByKey("node", S) \in SUBSET rows["node"] /\ ByKey("osimage", S) \in SUBSET rows["osimage"]
    BY DEF ByKey
  <2> QED BY <1>1, <2>1, FoundIs
<1>4. {r \in rows["osimage"] : r.distro = M(q).distro} \in SUBSET Row
      /\ IsFiniteSet({r \in rows["osimage"] : r.distro = M(q).distro})
  <2>1. {r \in rows["osimage"] : r.distro = M(q).distro} \in SUBSET rows["osimage"]
    OBVIOUS
  <2> QED BY <1>1, <2>1, FoundIs
<1>5. {} \in SUBSET Row /\ IsFiniteSet({})
  BY FS_EmptySet
<1>6. CASE Fail(q) \/ Succeed(q)
  BY <1>1, <1>6, AnswerGoesOn
<1>7. CASE ~ (Fail(q) \/ Succeed(q))
  <2>1. PICK phase \in Phases \ {"done", "release"}, seen \in SUBSET Row :
            IsFiniteSet(seen) /\ Proceed(q, phase, seen) /\ (phase = "destroy" => Is(q, "delete", "osimage"))
    <3>1. {"create", "ids", "nics", "save", "files", "destroy", "upload", "rename", "lock"}
            \subseteq Phases \ {"done", "release"}
      BY DEF Phases
    <3>2. CASE NicPost(q)
      BY <1>3, <1>7, <3>1, <3>2 DEF NicPost
    <3>3. CASE BulkInsertNodes(q)
      BY <1>5, <1>7, <3>1, <3>3 DEF BulkInsertNodes
    <3>4. CASE BulkLookUp(q) \/ NodesPatch(q)
      BY <1>3, <1>7, <3>1, <3>4 DEF BulkLookUp, NodesPatch
    <3>5. CASE ImageInUse(q)
      BY <1>2, <1>7, <3>1, <3>5 DEF ImageInUse
    <3>6. CASE ImageFiles(q)
      BY <1>2, <1>7, <3>1, <3>6 DEF ImageFiles
    <3>7. CASE EnsureImage(q)
      BY <1>2, <1>7, <3>1, <3>7 DEF EnsureImage
    <3>8. CASE Copycd(q)
      BY <1>5, <1>7, <3>1, <3>8 DEF Copycd
    <3>9. CASE Upload(q)
      BY <1>4, <1>5, <1>7, <3>1, <3>9 DEF Upload
    <3>10. CASE Provision(q)
      BY <1>3, <1>7, <3>1, <3>10 DEF Provision
    <3> QED BY <3>2, <3>3, <3>4, <3>5, <3>6, <3>7, <3>8, <3>9, <3>10 DEF Reads
  <2>2. ~ At(q, "done") /\ ~ At(q, "release") /\ (At(q, "idle") => ~ Is(q, "post", "node"))
    BY DEF Reads, NicPost, BulkInsertNodes, BulkLookUp, NodesPatch, ImageInUse, ImageFiles, Copycd, Upload,
           Provision, EnsureImage, At, Is
  <2>3. ~ (Is(q, "delete", "node") /\ phase = "destroy")
    BY <2>1 DEF Is
  <2> QED BY <1>1, <2>1, <2>2, <2>3, ProceedGoesOn
<1> QED BY <1>6, <1>7

\* The requests after any transaction.
LEMMA RequestStep ==
  ASSUME CatalogInv, NEW q \in Request, Step(q)
  PROVE  RequestGoesOn(q)
<1>1. /\ req \in [Request -> ReqType] /\ Answers(q) /\ {"network", "passwd", "nic", "osimage"} \subseteq Kind
      /\ {"save", "destroy", "check"} \subseteq Phases \ {"done", "release"}
  BY DEF CatalogInv, Kind, Phases
<1>2. CASE Fail(q) \/ Succeed(q)
  BY <1>1, <1>2, AnswerGoesOn
<1>3. CASE NetworkSave(q) \/ PasswdSave(q) \/ NicSave(q) \/ ImageSave(q)
  BY <1>2, <1>3 DEF NetworkSave, PasswdSave, NicSave, ImageSave, Save
<1>4. CASE NetworkPost(q) \/ PasswdPost(q) \/ ImagePost(q) \/ UploadCreate(q) \/ NicCreate(q)
  BY <1>2, <1>4 DEF NetworkPost, PasswdPost, ImagePost, Create, UploadCreate, NicCreate
<1>5. CASE NetworkDestroy(q) \/ PasswdDestroy(q) \/ NicDestroy(q) \/ ImageDestroy(q)
  BY <1>2, <1>5 DEF NetworkDestroy, PasswdDestroy, DestroyNamed, NicDestroy, ImageDestroy, Destroy
<1>6. CASE NodesSave(q) \/ UploadSave(q) \/ ProvisionSave(q) \/ BulkInsertNics(q)
  BY <1>2, <1>6 DEF NodesSave, UploadSave, ProvisionSave, BulkInsertNics
<1>7. CASE \/ NetworkPatch(q) \/ NetworkDelete(q) \/ PasswdPatch(q) \/ PasswdDelete(q)
           \/ NicDelete(q) \/ NicPatch(q) \/ ImagePatch(q) \/ ImageDelete(q)
  <2>1. ~ Is(q, "post", "node") /\ ~ Is(q, "delete", "node")
    BY <1>7 DEF NetworkPatch, NetworkDelete, PasswdPatch, PasswdDelete, NicDelete, NicPatch,
                ImagePatch, ImageDelete, Is
  <2>2. \/ Fail(q)
        \/ \E kind \in {"network", "passwd", "nic", "osimage"}, next \in {"save", "destroy", "check"} :
               Get(q, kind, next)
    BY <1>7 DEF NetworkPatch, NetworkDelete, PasswdPatch, PasswdDelete, NicDelete, NicPatch,
                ImagePatch, ImageDelete, NetworkGet, PasswdGet, NicGet
  <2> QED BY <1>1, <1>2, <2>1, <2>2, GetGoesOn
<1>8. CASE NodesDelete(q) \/ ProvisionLock(q)
  <2>1. /\ {"destroy", "image"} \subseteq Phases \ {"done", "release"}
        /\ {"read", "lock"} \intersect {"done", "release", "idle"} = {}
    BY DEF Phases
  <2>2. OnNodes(q)
    BY <1>8 DEF OnNodes, NodesDelete, ProvisionLock, Is
  <2> QED BY <1>8, <2>1, <2>2, LockGoesOn DEF NodesDelete, ProvisionLock
<1>9. CASE NodesRelease(q) \/ NodesDestroy(q) \/ BulkCheck(q) \/ NodesFilter(q)
  BY <1>9, ReleaseGoesOn, DestroyGoesOn, FilterGoesOn
<1>10. CASE NodePost(q)
  BY <1>10, NodePostGoesOn
<1>11. CASE Reads(q)
  BY <1>11, ReadsGoOn
<1> QED BY <1>3, <1>4, <1>5, <1>6, <1>7, <1>8, <1>9, <1>10, <1>11 DEF Step, Reads

-----------------------------------------------------------------------------
(* POSTs of nodes.                                                          *)

\* What a POST has inserted stays in the history, and its nodes come from there.
Grows(p, q) ==
    /\ Made(p) \subseteq Made(p)' /\ WithNic(p) \subseteq WithNic(p)'
    /\ Cardinality(Made(p)) \in Nat /\ Cardinality(Made(p)') \in Nat
    /\ Cardinality(Made(p)) <= Cardinality(Made(p)')
    /\ IsFiniteSet(Made(p)')
    /\ \A s \in rows'["node"] : s.by = p =>
          \/ \E r \in rows["node"] : From("node", r, s)
          \/ p = q /\ s.id > ids["node"]

\* It grows with every step.
LEMMA MadeGrows ==
  ASSUME TablesInv, TablesInv', NEW q \in Request, NEW p \in Request, Onward(q)
  PROVE  Grows(p, q)
<1>1. /\ rows \in [Kind -> SUBSET Row] /\ gone \in [Kind -> SUBSET Row]
      /\ rows' \in [Kind -> SUBSET Row] /\ gone' \in [Kind -> SUBSET Row]
      /\ {"node", "nic"} \subseteq Kind /\ IsFiniteSet(1..MaxId)
  <2>1. IsFiniteSet(1..MaxId)
    BY FS_Interval, CatalogAssumption DEF CatalogAssumption
  <2> QED BY <2>1 DEF TablesInv, Kind
<1>2. \A k \in Kind : \A r \in All(k) : \E s \in All(k)' : From(k, r, s)
  BY DEF Onward
<1>3. Made(p) \subseteq Made(p)'
  <2> SUFFICES ASSUME NEW r \in All("node"), r.by = p PROVE r.id \in Made(p)'
    BY DEF Made
  <2>1. PICK s \in All("node")' : From("node", r, s)
    BY <1>1, <1>2
  <2>2. s.id = r.id /\ s.by = p
    BY <2>1 DEF From
  <2>3. s.id \in Made(p)'
    BY <2>2 DEF Made
  <2> QED BY <2>2, <2>3
<1>4. WithNic(p) \subseteq WithNic(p)'
  <2> SUFFICES ASSUME NEW r \in All("nic"), r.by = p PROVE r.ref \in WithNic(p)'
    BY DEF WithNic
  <2>1. PICK s \in All("nic")' : From("nic", r, s)
    BY <1>1, <1>2
  <2>2. s.ref = r.ref /\ s.by = p
    BY <2>1 DEF From
  <2>3. s.ref \in WithNic(p)'
    BY <2>2 DEF WithNic
  <2> QED BY <2>2, <2>3
<1>5. Made(p)' \in SUBSET (1..MaxId)
  <2>1. \A r \in Row : r.id \in 1..MaxId
    BY DEF Row
  <2>2. All("node")' \in SUBSET Row
    BY <1>1 DEF All
  <2> QED BY <2>1, <2>2 DEF Made
<1>6. IsFiniteSet(Made(p)')
  BY <1>1, <1>5, FS_Subset
<1>7. IsFiniteSet(Made(p)) /\ Cardinality(Made(p)) <= Cardinality(Made(p)')
  BY <1>3, <1>6, FS_Subset
<1>8. Cardinality(Made(p)) \in Nat /\ Cardinality(Made(p)') \in Nat
  BY <1>6, <1>7, FS_CardinalityType
<1>9. ASSUME NEW s \in rows'["node"], s.by = p
      PROVE  \/ \E r \in rows["node"] : From("node", r, s)
             \/ p = q /\ s.id > ids["node"]
  BY <1>1, <1>9 DEF Onward
<1> QED BY <1>3, <1>4, <1>6, <1>7, <1>8, <1>9 DEF Grows

\* Where no node is new, those that kept their names are those that had them.
LEMMA NamedBefore ==
  ASSUME NEW p, NEW names, NEW s, NEW r, From("node", r, s), Named(s, p, names)
  PROVE  Named(r, p, names) /\ r.id = s.id
BY DEF From, Named

\* Counts of names are numbers.
LEMMA CountsAre ==
  ASSUME CatalogInv, NEW p \in Request
  PROVE  /\ IsFiniteSet(req[p].ok) /\ IsFiniteSet(Todo(p))
         /\ Cardinality(req[p].ok) \in Nat /\ Cardinality(Todo(p)) \in Nat
         /\ Cardinality(M(p).keys) \in Nat /\ BulkSize \in Nat
<1>1. req \in [Request -> ReqType] /\ req[p].ok \in SUBSET M(p).keys /\ BulkSize \in Nat
  BY CatalogAssumption DEF CatalogInv, Answers, CatalogAssumption
<1>2. IsFiniteSet(M(p).keys) /\ IsFiniteSet(Todo(p))
  BY <1>1, RequestIs
<1> QED BY <1>1, <1>2, FS_Subset, FS_CardinalityType

\* Another request does not undo a POST of nodes.
LEMMA OthersCreate ==
  ASSUME CatalogInv, TablesInv', NEW q \in Request, NEW p \in Request \ {q}, Onward(q),
         req'[p] = req[p]
  PROVE  Creates(p)'
<1>1. Grows(p, q) /\ Creates(p)
  BY MadeGrows DEF CatalogInv
<1>2. /\ M(p)' = M(p) /\ Todo(p)' = Todo(p) /\ (Bulky(p)' <=> Bulky(p))
      /\ Is(p, "post", "node")' <=> Is(p, "post", "node")
  BY DEF M, Todo, Bulky, Is
<1> DEFINE r == req[p]
           made == Cardinality(Made(p))
<1>3. \A n \in rows'["node"] : n.by = p => \E o \in rows["node"] : From("node", o, n)
  BY <1>1 DEF Grows
<1>4. SUFFICES ASSUME Is(p, "post", "node") PROVE Creates(p)'
  BY <1>2 DEF Creates
<1>5. /\ made >= Cardinality(r.ok) => Cardinality(Made(p)') >= Cardinality(r.ok)
      /\ made >= Cardinality(Todo(p)) => Cardinality(Made(p)') >= Cardinality(Todo(p))
  <2>1. made \in Nat /\ Cardinality(Made(p)') \in Nat /\ made <= Cardinality(Made(p)')
    BY <1>1 DEF Grows
  <2>2. Cardinality(r.ok) \in Nat /\ Cardinality(Todo(p)) \in Nat
    BY CountsAre
  <2> HIDE DEF made
  <2> QED BY <2>1, <2>2
<1>6. CASE ~ Bulky(p)
  <2>1. /\ r.phase \in {"idle", "done"} /\ made >= Cardinality(r.ok)
        /\ \A n \in rows["node"] : n.by = p => n.id \in WithNic(p)
    BY <1>1, <1>4, <1>6 DEF Creates
  <2>2. ASSUME NEW n \in rows'["node"], n.by = p PROVE n.id \in WithNic(p)'
    <3>1. PICK o \in rows["node"] : From("node", o, n)
      BY <1>3, <2>2
    <3>2. o.by = p /\ o.id = n.id
      BY <2>2, <3>1 DEF From
    <3> QED BY <1>1, <2>1, <3>2 DEF Grows
  <2> QED BY <1>2, <1>5, <1>6, <2>1, <2>2 DEF Creates
<1>7. CASE Bulky(p)
  <2>1. r.phase \in {"idle", "insert", "ids", "nics", "done"}
    BY <1>1, <1>4, <1>7 DEF Creates
  <2>2. r.phase \in {"ids", "nics"} => Cardinality(Made(p)') >= Cardinality(Todo(p))
    BY <1>1, <1>4, <1>5, <1>7 DEF Creates
  <2>3. ASSUME r.phase = "nics"
        PROVE  /\ Keys(r.seen) = Todo(p)
               /\ \A n, s \in r.seen : n.key = s.key => n = s
               /\ \A n \in rows'["node"] : Named(n, p, Todo(p)) => n.id \in Ids(r.seen)
    <3>1. /\ Keys(r.seen) = Todo(p)
          /\ \A n, s \in r.seen : n.key = s.key => n = s
          /\ \A n \in rows["node"] : Named(n, p, Todo(p)) => n.id \in Ids(r.seen)
      BY <1>1, <1>4, <1>7, <2>3 DEF Creates
    <3>2. ASSUME NEW n \in rows'["node"], Named(n, p, Todo(p)) PROVE n.id \in Ids(r.seen)
      <4>1. PICK o \in rows["node"] : From("node", o, n)
        BY <1>3, <3>2 DEF Named
      <4>2. Named(o, p, Todo(p)) /\ o.id = n.id
        BY <3>2, <4>1, NamedBefore
      <4> QED BY <3>1, <4>2
    <3> QED BY <3>1, <3>2
  <2>4. ASSUME r.phase = "done"
        PROVE  /\ Cardinality(Made(p)') >= Cardinality(r.ok)
               /\ \A n \in rows'["node"] : Named(n, p, r.ok) => n.id \in WithNic(p)'
    <3>1. /\ made >= Cardinality(r.ok)
          /\ \A n \in rows["node"] : Named(n, p, r.ok) => n.id \in WithNic(p)
      BY <1>1, <1>4, <1>7, <2>4 DEF Creates
    <3>2. ASSUME NEW n \in rows'["node"], Named(n, p, r.ok) PROVE n.id \in WithNic(p)'
      <4>1. PICK o \in rows["node"] : From("node", o, n)
        BY <1>3, <3>2 DEF Named
      <4>2. Named(o, p, r.ok) /\ o.id = n.id
        BY <3>2, <4>1, NamedBefore
      <4> QED BY <1>1, <3>1, <4>2 DEF Grows
    <3> QED BY <1>5, <3>1, <3>2
  <2>5. Keys(r.seen)' = Keys(req'[p].seen) /\ Ids(r.seen)' = Ids(req'[p].seen) /\ Keys(r.seen) = Keys(req'[p].seen)
    BY DEF Keys, Ids
  <2>6. /\ \A n : Named(n, p, Todo(p))' <=> Named(n, p, Todo(p))
        /\ \A n : Named(n, p, r.ok)' <=> Named(n, p, r.ok)
    BY <1>2 DEF Named
  <2> QED BY <1>2, <1>7, <2>1, <2>2, <2>3, <2>4, <2>5, <2>6 DEF Creates
<1> QED BY <1>6, <1>7

\* A node that is posted with its nic.
LEMMA NodePostCreates ==
  ASSUME CatalogInv, TablesInv', NEW q \in Request, Onward(q), NodePost(q)
  PROVE  Creates(q)'
<1>1. /\ TablesInv /\ req \in [Request -> ReqType] /\ Creates(q) /\ Grows(q, q)
      /\ MacOf \in [Key -> Key] /\ ids \in [Kind -> 0..MaxId] /\ MaxId \in Nat /\ "node" \in Kind
  BY MadeGrows, CatalogAssumption DEF CatalogInv, CatalogAssumption, TablesInv, Kind
<1>2. Is(q, "post", "node") /\ ~ Bulky(q)
  <2>1. Cardinality(M(q).keys) < BulkSize /\ Is(q, "post", "node")
    BY DEF NodePost
  <2> QED BY <2>1, CountsAre DEF Bulky
<1>3. /\ Cardinality(Made(q)) >= Cardinality(req[q].ok)
      /\ \A n \in rows["node"] : n.by = q => n.id \in WithNic(q)
  BY <1>1, <1>2 DEF Creates
<1>4. PICK name \in Todo(q), phase \in {"idle", "done"} :
            \/ /\ Becomes(q, phase, req[q].seen, req[q].held, req[q].ok, req[q].failed \union {name})
               /\ RequestGoesOn(q) /\ UNCHANGED tables
            \/ /\ Becomes(q, phase, req[q].seen, req[q].held, req[q].ok \union {name}, req[q].failed)
               /\ RequestGoesOn(q)
               /\ ~ Taken("node", {name}) /\ ~ Taken("nic", {MacOf[name]})
               /\ Room("node", 1) /\ Room("nic", 1)
               /\ rows' = [rows EXCEPT
                    !["node"] = @ \union {NewRow(ids["node"] + 1, name, 0, NoDistro, q)},
                    !["nic"] = @ \union {NewRow(ids["nic"] + 1, MacOf[name], ids["node"] + 1, NoDistro, q)}]
               /\ ids' = [ids EXCEPT !["node"] = @ + 1, !["nic"] = @ + 1] /\ UNCHANGED gone
  BY NodePostGoesOn
<1>5. req'[q].m = M(q) /\ req'[q].phase \in {"idle", "done"}
  BY <1>4 DEF Becomes
<1>6. Is(q, "post", "node")' /\ ~ Bulky(q)'
  BY <1>2, <1>5 DEF Is, Bulky, M
<1>7. CASE UNCHANGED tables /\ req'[q].ok = req[q].ok
  <2>1. Made(q)' = Made(q) /\ WithNic(q)' = WithNic(q) /\ rows' = rows
    BY <1>7 DEF Made, WithNic, All, tables
  <2> QED BY <1>3, <1>5, <1>6, <1>7, <2>1 DEF Creates
<1>8. CASE /\ req'[q].ok = req[q].ok \union {name}
           /\ ~ Taken("node", {name}) /\ ~ Taken("nic", {MacOf[name]})
           /\ Room("node", 1) /\ Room("nic", 1)
           /\ rows' = [rows EXCEPT
                    !["node"] = @ \union {NewRow(ids["node"] + 1, name, 0, NoDistro, q)},
                    !["nic"] = @ \union {NewRow(ids["nic"] + 1, MacOf[name], ids["node"] + 1, NoDistro, q)}]
           /\ ids' = [ids EXCEPT !["node"] = @ + 1, !["nic"] = @ + 1] /\ UNCHANGED gone
  <2>1. name \in Key /\ MacOf[name] \in Key
    BY <1>1, RequestIs
  <2>2. PICK n \in rows'["node"], m \in rows'["nic"] :
               /\ rows'["node"] = rows["node"] \union {n} /\ n.id = ids["node"] + 1 /\ n.by = q
               /\ m.by = q /\ m.ref = n.id
    <3> DEFINE mac == MacOf[name]
    <3>1. /\ mac \in Key /\ ~ Taken("node", {name}) /\ ~ Taken("nic", {mac})
          /\ Room("node", 1) /\ Room("nic", 1)
          /\ rows' = [rows EXCEPT
                    !["node"] = @ \union {NewRow(ids["node"] + 1, name, 0, NoDistro, q)},
                    !["nic"] = @ \union {NewRow(ids["nic"] + 1, mac, ids["node"] + 1, NoDistro, q)}]
          /\ ids' = [ids EXCEPT !["node"] = @ + 1, !["nic"] = @ + 1] /\ UNCHANGED gone
      BY <1>8, <2>1
    <3> HIDE DEF mac
    <3>2. TablesInv /\ name \in Key
      BY <1>1, <2>1
    <3>3. Posted(q)
      BY <3>1, <3>2, PostKeeps
    <3> QED BY <3>3 DEF Posted
  <2>3. n.id \in Made(q)' /\ n.id \in WithNic(q)'
    BY <2>2 DEF Made, WithNic, All
  <2>4. n.id \notin Made(q)
    <3>1. ASSUME NEW r \in All("node") PROVE r.id # n.id
      <4>1. r.id <= ids["node"] /\ r.id \in 1..MaxId
        <5>1. r \in Row
          BY <1>1 DEF All, TablesInv
        <5>2. r.id \in 1..MaxId
          BY <5>1 DEF Row
        <5> QED BY <1>1, <5>2 DEF TablesInv
      <4>2. ids["node"] \in Nat
        BY <1>1
      <4> QED BY <2>2, <4>1, <4>2
    <3> QED BY <3>1 DEF Made
  <2>5. Cardinality(Made(q)') >= Cardinality(req'[q].ok)
    <3>1. Made(q) \union {n.id} \in SUBSET Made(q)' /\ IsFiniteSet(Made(q)')
      BY <1>1, <2>3 DEF Grows
    <3>2. IsFiniteSet(Made(q)) /\ Cardinality(Made(q) \union {n.id}) <= Cardinality(Made(q)')
      BY <3>1, FS_Subset
    <3>3. Cardinality(Made(q) \union {n.id}) = Cardinality(Made(q)) + 1
      BY <2>4, <3>2, FS_AddElement
    <3>4. name \notin req[q].ok /\ IsFiniteSet(req[q].ok)
      BY CountsAre DEF Todo
    <3>5. Cardinality(req'[q].ok) = Cardinality(req[q].ok) + 1
      BY <1>8, <3>4, FS_AddElement
    <3>6. Cardinality(req[q].ok) \in Nat /\ Cardinality(Made(q)) \in Nat /\ Cardinality(Made(q)') \in Nat
      BY <1>1, CountsAre DEF Grows
    <3> QED BY <1>3, <3>2, <3>3, <3>5, <3>6
  <2>6. ASSUME NEW s \in rows'["node"], s.by = q PROVE s.id \in WithNic(q)'
    BY <1>1, <1>3, <2>2, <2>3, <2>6 DEF Grows
  <2> QED BY <1>5, <1>6, <2>5, <2>6 DEF Creates
<1> QED BY <1>4, <1>7, <1>8 DEF Becomes

\* A bulk that fails, or has nothing to do.
LEMMA NothingMade ==
  ASSUME NEW q \in Request, Grows(q, q), Is(q, "post", "node"), Bulky(q),
         NEW phase \in {"insert", "done"}, NEW seen, NEW held, NEW failed,
         Becomes(q, phase, seen, held, {}, failed)
  PROVE  Creates(q)'
<1>1. /\ req'[q].m = M(q) /\ req'[q].phase \in {"insert", "done"} /\ req'[q].ok = {}
  BY DEF Becomes
<1>2. Is(q, "post", "node")' /\ Bulky(q)'
  BY <1>1 DEF Is, Bulky, M
<1>3. Cardinality(Made(q)') >= Cardinality(req'[q].ok)
  BY <1>1, FS_EmptySet DEF Grows
<1>4. \A n \in rows'["node"] : ~ Named(n, q, req[q].ok)'
  BY <1>1 DEF Named
<1> QED BY <1>1, <1>2, <1>3, <1>4 DEF Creates

\* The lock is of nodes that there are: a POST holds none.
LEMMA PostHoldsNone ==
  ASSUME CatalogInv, NEW q \in Request, Is(q, "post", "node"), Fail(q)
  PROVE  Becomes(q, "done", {}, req[q].held, {}, M(q).keys) /\ End(q) = "done"
<1>1. req \in [Request -> ReqType] /\ Answers(q)
  BY DEF CatalogInv
<1>2. End(q) = "done"
  BY <1>1 DEF Answers, OnNodes, Is, End
<1>3. Becomes(q, End(q), {}, req[q].held, {}, M(q).keys)
  BY <1>1, RequestIs, AnswerIs DEF Fail
<1> QED BY <1>2, <1>3

\* A bulk that begins.
LEMMA BulkCheckCreates ==
  ASSUME CatalogInv, TablesInv', NEW q \in Request, Onward(q), BulkCheck(q)
  PROVE  Creates(q)'
<1>1. TablesInv /\ req \in [Request -> ReqType] /\ req[q] \in ReqType /\ Grows(q, q) /\ Answers(q)
  BY MadeGrows DEF CatalogInv
<1>2. Is(q, "post", "node") /\ Bulky(q) /\ At(q, "idle")
  BY DEF BulkCheck, Bulky
<1>3. req[q].ok = {}
  BY <1>1, <1>2 DEF Answers, At
<1> DEFINE dups == Keys(ByKey("node", M(q).keys))
           phase == IF dups = M(q).keys THEN "done" ELSE "insert"
           r == [req[q] EXCEPT !.failed = dups, !.phase = phase]
<1>4. dups \in SUBSET Key /\ phase \in Phases /\ phase \in {"insert", "done"}
  <2>1. dups \in SUBSET M(q).keys
    BY DEF Keys, ByKey
  <2>2. M(q).keys \in SUBSET Key
    BY <1>1, RequestIs
  <2>3. phase \in Phases /\ phase \in {"insert", "done"}
    BY DEF Phases
  <2> HIDE DEF dups, phase
  <2> QED BY <2>1, <2>2, <2>3
<1>5. req' = [req EXCEPT ![q] = r]
  BY DEF BulkCheck
<1> HIDE DEF dups, phase
<1>6. /\ r \in ReqType /\ r.m = M(q) /\ r.phase = phase /\ r.seen = req[q].seen
      /\ r.held = req[q].held /\ r.ok = req[q].ok /\ r.failed = dups
  BY <1>1, <1>4 DEF ReqType, M
<1> HIDE DEF r
<1>7. Becomes(q, r.phase, r.seen, r.held, r.ok, r.failed)
  BY <1>1, <1>5, <1>6, OneBecomes
<1>8. Becomes(q, phase, req[q].seen, req[q].held, {}, dups)
  BY <1>3, <1>6, <1>7
<1> QED BY <1>1, <1>2, <1>4, <1>8, NothingMade

\* The nodes of a bulk: a row for each name.
LEMMA BulkNodesCreates ==
  ASSUME CatalogInv, TablesInv', NEW q \in Request, Onward(q), BulkInsertNodes(q)
  PROVE  Creates(q)'
<1>1. /\ TablesInv /\ req \in [Request -> ReqType] /\ Grows(q, q) /\ Creates(q)
      /\ "node" \in Kind /\ ids["node"] \in Nat
  BY MadeGrows, CatalogAssumption DEF CatalogInv, TablesInv, CatalogAssumption, Kind
<1>2. Is(q, "post", "node") /\ At(q, "insert")
  BY DEF BulkInsertNodes
<1>3. Bulky(q)
  BY <1>1, <1>2 DEF Creates, At
<1>4. CASE Fail(q)
  BY <1>1, <1>2, <1>3, <1>4, PostHoldsNone, NothingMade
<1>5. CASE ~ Fail(q)
  <2> DEFINE new == NewIds("node", Todo(q))
  <2>1. /\ Proceed(q, "ids", {})
        /\ \A k \in Todo(q) : \E s \in rows'["node"] : s.id = new[k] /\ s.by = q
    BY <1>5, BulkNodes
  <2>2. Todo(q) \in SUBSET Key /\ IsFiniteSet(Todo(q))
    BY <1>1, RequestIs
  <2>3. \A j, k \in Todo(q) : new[j] = new[k] => j = k
    BY <1>1, <2>2, NewIdsAre
  <2> HIDE DEF new
  <2> DEFINE f == [k \in Todo(q) |-> new[k]]
  <2>4. \A k \in Todo(q) : new[k] \in Made(q)'
    <3>1. ASSUME NEW s \in rows'["node"], s.by = q PROVE s.id \in Made(q)'
      BY <3>1 DEF Made, All
    <3> QED BY <2>1, <3>1
  <2>5. f \in Injection(Todo(q), Made(q)')
    BY <2>3, <2>4 DEF Injection, IsInjective
  <2>6. Cardinality(Todo(q)) <= Cardinality(Made(q)')
    <3> HIDE DEF f
    <3> QED BY <1>1, <2>5, FS_Injection DEF Grows
  <2>7. Becomes(q, "ids", {}, req[q].held, req[q].ok, req[q].failed)
    <3>1. "ids" \in Phases
      BY DEF Phases
    <3> QED BY <1>1, <2>1, <3>1, ProceedIs
  <2>8. req'[q].m = M(q) /\ req'[q].phase = "ids" /\ req'[q].ok = req[q].ok /\ req'[q].failed = req[q].failed
    BY <2>7 DEF Becomes
  <2>9. Is(q, "post", "node")' /\ Bulky(q)' /\ Todo(q)' = Todo(q)
    BY <1>2, <1>3, <2>8 DEF Is, Bulky, Todo, M
  <2>10. Cardinality(Made(q)') >= Cardinality(Todo(q))
    BY <1>1, <2>6, CountsAre DEF Grows
  <2> QED BY <2>8, <2>9, <2>10 DEF Creates
<1> QED BY <1>4, <1>5

\* Their ids are looked up by their names.
LEMMA LookUpCreates ==
  ASSUME CatalogInv, TablesInv', NEW q \in Request, Onward(q), BulkLookUp(q)
  PROVE  Creates(q)'
<1>1. /\ TablesInv /\ req \in [Request -> ReqType] /\ Grows(q, q) /\ Creates(q)
      /\ "node" \in Kind /\ Consistent(rows)
  BY MadeGrows DEF CatalogInv, TablesInv, Kind
<1>2. Is(q, "post", "node") /\ At(q, "ids") /\ rows' = rows /\ gone' = gone
  BY DEF BulkLookUp, tables
<1>3. Bulky(q) /\ Cardinality(Made(q)) >= Cardinality(Todo(q))
  BY <1>1, <1>2 DEF Creates, At
<1>4. CASE Fail(q)
  BY <1>1, <1>2, <1>3, <1>4, PostHoldsNone, NothingMade
<1>5. CASE ~ Fail(q)
  <2> DEFINE found == ByKey("node", Todo(q))
  <2>1. Keys(found) = Todo(q) /\ Proceed(q, "nics", found)
    BY <1>5 DEF BulkLookUp
  <2>2. found \in SUBSET rows["node"]
    BY DEF ByKey
  <2>3. \A n, s \in found : n.key = s.key => n = s
    BY <1>1, <2>2 DEF Consistent
  <2>4. ASSUME NEW n \in rows["node"], Named(n, q, Todo(q)) PROVE n.id \in Ids(found)
    <3>1. n \in found
      BY <2>4 DEF Named, ByKey
    <3> QED BY <3>1 DEF Ids
  <2>5. found \in SUBSET Row
    BY <1>1, <2>2, FoundIs
  <2> HIDE DEF found
  <2>6. Becomes(q, "nics", found, req[q].held, req[q].ok, req[q].failed)
    <3>1. "nics" \in Phases
      BY DEF Phases
    <3> QED BY <1>1, <2>1, <2>5, <3>1, ProceedIs
  <2>7. /\ req'[q].m = M(q) /\ req'[q].phase = "nics" /\ req'[q].ok = req[q].ok /\ req'[q].failed = req[q].failed
        /\ req'[q].seen = found
    BY <2>6 DEF Becomes
  <2>8. Is(q, "post", "node")' /\ Bulky(q)' /\ Todo(q)' = Todo(q)
    BY <1>2, <1>3, <2>7 DEF Is, Bulky, Todo, M
  <2>9. Made(q)' = Made(q)
    BY <1>2 DEF Made, All
  <2>10. Keys(req[q].seen)' = Keys(found) /\ Ids(req[q].seen)' = Ids(found)
    BY <2>7 DEF Keys, Ids
  <2>11. \A n : Named(n, q, Todo(q))' <=> Named(n, q, Todo(q))
    BY <2>8 DEF Named
  <2> QED BY <1>2, <1>3, <2>1, <2>3, <2>4, <2>7, <2>8, <2>9, <2>10, <2>11 DEF Creates
<1> QED BY <1>4, <1>5

\* And the nics of those that were found.
LEMMA BulkNicsCreates ==
  ASSUME CatalogInv, TablesInv', NEW q \in Request, Onward(q), BulkInsertNics(q)
  PROVE  Creates(q)'
<1>1. /\ TablesInv /\ req \in [Request -> ReqType] /\ Grows(q, q) /\ Creates(q) /\ Answers(q)
      /\ "node" \in Kind /\ "nic" \in Kind /\ rows \in [Kind -> SUBSET Row]
  BY MadeGrows DEF CatalogInv, TablesInv, Kind
<1>2. Is(q, "post", "node") /\ At(q, "nics")
  BY DEF BulkInsertNics
<1>3. Bulky(q)
  BY <1>1, <1>2 DEF Creates, At
<1>4. /\ Cardinality(Made(q)) >= Cardinality(Todo(q)) /\ req[q].ok = {}
      /\ \A n \in rows["node"] : Named(n, q, Todo(q)) => n.id \in Ids(req[q].seen)
  BY <1>1, <1>2, <1>3 DEF Creates, At, Answers
<1>5. CASE Fail(q)
  BY <1>1, <1>2, <1>3, <1>5, PostHoldsNone, NothingMade
<1>6. CASE ~ Fail(q)
  <2>1. /\ Succeed(q) /\ \A n \in req[q].seen : \E s \in rows'["nic"] : s.by = q /\ s.ref = n.id
    BY <1>6, BulkNics
  <2>2. rows'["node"] = rows["node"]
    BY <1>1, <1>6 DEF BulkInsertNics, Insert
  <2>3. \A n \in req[q].seen : n.id \in WithNic(q)'
    <3>1. ASSUME NEW s \in rows'["nic"], s.by = q PROVE s.ref \in WithNic(q)'
      BY <3>1 DEF WithNic, All
    <3> QED BY <2>1, <3>1
  <2> DEFINE ok == req[q].ok \union Todo(q)
  <2>4. ok \in SUBSET Key /\ ok = Todo(q) /\ req[q].failed \in SUBSET Key
    BY <1>1, <1>4, RequestIs
  <2>5. Answer(q, ok, req[q].failed)
    BY <2>1 DEF Succeed
  <2> HIDE DEF ok
  <2>6. Becomes(q, End(q), {}, req[q].held, ok, req[q].failed)
    BY <1>1, <2>4, <2>5, AnswerIs
  <2>7. End(q) = "done"
    BY <1>1, <1>2 DEF Answers, OnNodes, Is, End
  <2>8. req'[q].m = M(q) /\ req'[q].phase = "done" /\ req'[q].ok = Todo(q)
    BY <2>4, <2>6, <2>7 DEF Becomes
  <2>9. Is(q, "post", "node")' /\ Bulky(q)'
    BY <1>2, <1>3, <2>8 DEF Is, Bulky, M
  <2>10. Cardinality(Made(q)') >= Cardinality(req'[q].ok)
    <3>1. Cardinality(Made(q)) \in Nat /\ Cardinality(Made(q)') \in Nat
          /\ Cardinality(Made(q)) <= Cardinality(Made(q)') /\ Cardinality(Todo(q)) \in Nat
      BY <1>1, CountsAre DEF Grows
    <3>2. Cardinality(Made(q)') >= Cardinality(Todo(q))
      BY <1>4, <3>1
    <3> QED BY <2>8, <3>2
  <2>11. ASSUME NEW n \in rows'["node"], Named(n, q, req[q].ok)' PROVE n.id \in WithNic(q)'
    <3>1. Named(n, q, Todo(q)) /\ n \in rows["node"]
      BY <2>2, <2>8, <2>11 DEF Named
    <3>2. n.id \in Ids(req[q].seen)
      BY <1>4, <3>1
    <3> QED BY <2>3, <3>2 DEF Ids
  <2> QED BY <2>8, <2>9, <2>10, <2>11 DEF Creates
<1> QED BY <1>5, <1>6

\* What is known of the POSTs after any transaction.
LEMMA CreatesStep ==
  ASSUME CatalogInv, TablesInv', NEW q \in Request, NEW p \in Request, Onward(q), Step(q), RequestGoesOn(q)
  PROVE  Creates(p)'
<1>1. CASE p # q
  BY <1>1, OthersCreate DEF RequestGoesOn
<1>2. CASE p = q /\ ~ Is(q, "post", "node")
  BY <1>2 DEF RequestGoesOn, Creates, Is, M
<1>3. CASE p = q /\ Is(q, "post", "node")
  <2>1. ~ At(q, "release")
    BY <1>3 DEF CatalogInv, Creates, At
  <2>2. NodePost(q) \/ BulkCheck(q) \/ BulkInsertNodes(q) \/ BulkLookUp(q) \/ BulkInsertNics(q)
    <3>1. \A op, kind : Is(q, op, kind) => op = "post" /\ kind = "node"
      BY <1>3 DEF Is
    <3>2. ~ OnNodes(q)
      BY <1>3 DEF Is, OnNodes
    <3>3. ~ (NetworkPost(q) \/ NetworkPatch(q) \/ NetworkSave(q) \/ NetworkDelete(q) \/ NetworkDestroy(q))
      BY <3>1 DEF NetworkPost, NetworkPatch, NetworkSave, NetworkDelete, NetworkDestroy
    <3>4. ~ (PasswdPost(q) \/ PasswdPatch(q) \/ PasswdSave(q) \/ PasswdDelete(q) \/ PasswdDestroy(q))
      BY <3>1 DEF PasswdPost, PasswdPatch, PasswdSave, PasswdDelete, PasswdDestroy
    <3>5. ~ (NicPost(q) \/ NicCreate(q) \/ NicDelete(q) \/ NicDestroy(q) \/ NicPatch(q) \/ NicSave(q))
      BY <3>1 DEF NicPost, NicCreate, NicDelete, NicDestroy, NicPatch, NicSave
    <3>6. ~ (NodesFilter(q) \/ NodesPatch(q) \/ NodesSave(q) \/ NodesRelease(q) \/ NodesDelete(q) \/ NodesDestroy(q))
      BY <2>1, <3>1, <3>2 DEF NodesFilter, NodesPatch, NodesSave, NodesRelease, NodesDelete, NodesDestroy
    <3>7. ~ (ImagePost(q) \/ ImagePatch(q) \/ ImageSave(q) \/ ImageDelete(q) \/ ImageInUse(q) \/ ImageFiles(q)
             \/ ImageDestroy(q))
      BY <3>1 DEF ImagePost, ImagePatch, ImageSave, ImageDelete, ImageInUse, ImageFiles, ImageDestroy
    <3>8. ~ (Copycd(q) \/ Upload(q) \/ UploadSave(q) \/ UploadCreate(q))
      BY <3>1 DEF Copycd, Upload, UploadSave, UploadCreate
    <3>9. ~ (Provision(q) \/ ProvisionLock(q) \/ EnsureImage(q) \/ ProvisionSave(q))
      <4>1. ~ Is(q, "provision", "node")
        BY <3>1
      <4> QED BY <4>1 DEF Provision, ProvisionLock, EnsureImage, ProvisionSave
    <3> QED BY <3>3, <3>4, <3>5, <3>6, <3>7, <3>8, <3>9 DEF Step
  <2> QED BY <1>3, <2>2, NodePostCreates, BulkCheckCreates, BulkNodesCreates, LookUpCreates, BulkNicsCreates
<1> QED BY <1>1, <1>2, <1>3

-----------------------------------------------------------------------------
(* Images and their files.                                                  *)

\* A DELETE of an image that is past its look at the nodes.
Deletes(x) == Is(x, "delete", "osimage") /\ req[x].phase \in {"files", "destroy", "done"}

\* Files go only by such a DELETE, and who counts on them is in a race.
FilesGoOn ==
    /\ files' \subseteq Distro /\ raced' \subseteq Distro /\ raced \subseteq raced'
    /\ \A d \in files \ files' : \E x \in Request : Deletes(x) /\ (OthersCountOn(d, x) => d \in raced')

\* What was read in a table, and what remains of it.
LEMMA ReadNow ==
  ASSUME TablesInv, NEW i \in rows["osimage"]
  PROVE  WasRead(i)
<1>1. "osimage" \in Kind /\ i \in All("osimage")
  BY DEF Kind, All
<1> QED BY <1>1 DEF TablesInv, WasRead, Consistent

\* What was read of an image stays true.
LEMMA ReadBefore ==
  ASSUME TablesInv, TablesInv', NEW q, Onward(q), NEW i \in Row, WasRead(i)
  PROVE  WasRead(i)'
<1>1. /\ "osimage" \in Kind /\ ids["osimage"] \in 0..MaxId /\ ids'["osimage"] \in 0..MaxId /\ i.id \in 1..MaxId
      /\ rows' \in [Kind -> SUBSET Row] /\ rows \in [Kind -> SUBSET Row] /\ MaxId \in Nat
  BY CatalogAssumption DEF TablesInv, Kind, Row, CatalogAssumption
<1>2. i.id <= ids'["osimage"]
  <2>1. ids["osimage"] <= ids'["osimage"] /\ i.id <= ids["osimage"]
    BY <1>1 DEF Onward, WasRead
  <2> QED BY <1>1, <2>1
<1>3. ASSUME NEW s \in rows'["osimage"], s.id = i.id PROVE s.distro = i.distro
  <2>1. CASE \E r \in rows["osimage"] : From("osimage", r, s)
    BY <1>3, <2>1 DEF From, WasRead
  <2>2. ~ (s.id > ids["osimage"])
    BY <1>1, <1>3 DEF WasRead
  <2> QED BY <1>1, <2>1, <2>2 DEF Onward
<1> QED BY <1>2, <1>3 DEF WasRead

\* The files of a distro go.
LEMMA DestroyFilesGoOn ==
  ASSUME FilesInv, NEW x \in Request, Deletes(x), NEW d \in Distro, DestroyFiles(d, x)
  PROVE  FilesGoOn
<1>1. files \subseteq Distro /\ raced \subseteq Distro
  BY DEF FilesInv
<1>2. files' = files \ {d} /\ raced' = IF OthersCountOn(d, x) THEN raced \union {d} ELSE raced
  BY DEF DestroyFiles
<1>3. \A e \in files \ files' : e = d
  BY <1>2
<1>4. OthersCountOn(d, x) => d \in raced'
  BY <1>2
<1> QED BY <1>1, <1>2, <1>3, <1>4 DEF FilesGoOn

\* The files after any transaction, and after a message.
LEMMA FilesStep ==
  ASSUME CatalogInv, NEW q \in Request, Step(q)
  PROVE  FilesGoOn /\ (casts' = casts \/ ImageInUse(q))
<1>1. FilesInv /\ files \subseteq Distro /\ raced \subseteq Distro /\ req \in [Request -> ReqType] /\ Images(q)
  BY DEF CatalogInv, FilesInv
<1>2. CASE ImageFiles(q)
  <2>1. Is(q, "delete", "osimage") /\ Deletes(q)
    BY <1>2 DEF ImageFiles, Deletes, At
  <2>2. PICK d \in DistrosOf(req[q].seen) : DestroyFiles(d, q)
    BY <1>2 DEF ImageFiles
  <2>3. d \in Distro
    BY <1>1, <2>1, <2>2 DEF Images, DistrosOf, WasRead
  <2>4. casts' = casts
    BY <1>2 DEF ImageFiles
  <2> QED BY <1>1, <2>1, <2>2, <2>3, <2>4, DestroyFilesGoOn
<1>3. CASE ProvisionSave(q)
  <2>1. Is(q, "provision", "node")
    BY <1>3 DEF ProvisionSave
  <2>2. DistrosOf(req[q].seen) \subseteq Distro
    BY <1>1, <2>1 DEF Images, DistrosOf, WasRead
  <2>3. files' = files /\ casts' = casts /\ raced \subseteq raced' /\ raced' \subseteq Distro
    BY <1>1, <1>3, <2>2 DEF ProvisionSave
  <2> QED BY <1>1, <2>3 DEF FilesGoOn
<1>4. CASE Copycd(q)
  <2>1. Is(q, "copycd", "osimage") /\ raced' = raced /\ casts' = casts /\ files' \in {files, files \union {M(q).distro}}
    BY <1>4 DEF Copycd
  <2>2. M(q).distro \in Distro
    <3>1. M(q).kind = "osimage" /\ M(q).op = "copycd"
      BY <2>1 DEF Is
    <3> QED BY <1>1, <3>1, RequestIs
  <2> QED BY <1>1, <2>1, <2>2 DEF FilesGoOn
<1>5. CASE files' = files /\ raced' = raced /\ (casts' = casts \/ ImageInUse(q))
  BY <1>1, <1>5 DEF FilesGoOn
<1>6. CASE NetworkSave(q) \/ PasswdSave(q) \/ NicSave(q) \/ ImageSave(q)
  BY <1>5, <1>6 DEF NetworkSave, PasswdSave, NicSave, ImageSave, Save, fileVars
<1>7. CASE NetworkPost(q) \/ PasswdPost(q) \/ ImagePost(q) \/ UploadCreate(q) \/ NicCreate(q)
  BY <1>5, <1>7 DEF NetworkPost, PasswdPost, ImagePost, Create, UploadCreate, NicCreate, fileVars
<1>8. CASE NetworkDestroy(q) \/ PasswdDestroy(q) \/ NicDestroy(q) \/ ImageDestroy(q)
  BY <1>5, <1>8 DEF NetworkDestroy, PasswdDestroy, DestroyNamed, NicDestroy, ImageDestroy, Destroy, fileVars
<1>9. CASE \/ NetworkPatch(q) \/ NetworkDelete(q) \/ PasswdPatch(q) \/ PasswdDelete(q)
           \/ NicPost(q) \/ NicDelete(q) \/ NicPatch(q) \/ ImagePatch(q) \/ ImageDelete(q)
  BY <1>5, <1>9 DEF NetworkPatch, NetworkDelete, PasswdPatch, PasswdDelete, NicPost, NicDelete,
                    NicPatch, ImagePatch, ImageDelete, NetworkGet, PasswdGet, NicGet, Get, fileVars
<1>10. CASE NodesSave(q) \/ UploadSave(q) \/ BulkInsertNics(q) \/ NodePost(q) \/ BulkInsertNodes(q)
  BY <1>5, <1>10 DEF NodesSave, UploadSave, BulkInsertNics, NodePost, BulkInsertNodes, fileVars
<1>11. CASE NodesDelete(q) \/ ProvisionLock(q) \/ NodesRelease(q) \/ NodesDestroy(q)
  BY <1>5, <1>11 DEF NodesDelete, ProvisionLock, NodesLock, NodesRelease, NodesDestroy, fileVars
<1>12. CASE \/ BulkCheck(q) \/ BulkLookUp(q) \/ NodesFilter(q) \/ NodesPatch(q)
            \/ ImageInUse(q) \/ Upload(q) \/ Provision(q) \/ EnsureImage(q)
  BY <1>5, <1>12 DEF BulkCheck, BulkLookUp, NodesFilter, NodesPatch, ImageInUse, Upload, Provision,
                     EnsureImage, fileVars
<1> QED BY <1>2, <1>3, <1>4, <1>6, <1>7, <1>8, <1>9, <1>10, <1>11, <1>12 DEF Step

\* destroy_osimage at a conductor.
LEMMA FilesMessage ==
  ASSUME CatalogInv, ConductorDestroys
  PROVE  FilesGoOn
<1>1. FilesInv
  BY DEF CatalogInv
<1>2. PICK c \in casts : DestroyFiles(c[1], c[2])
  BY DEF ConductorDestroys
<1>3. c[1] \in Distro /\ c[2] \in Request /\ Deletes(c[2])
  BY <1>1, <1>2 DEF FilesInv, Deletes
<1> QED BY <1>1, <1>2, <1>3, DestroyFilesGoOn

\* An image in use keeps its files.
LEMMA TreesStay ==
  ASSUME CatalogInv, TablesInv', NEW q, Onward(q), FilesGoOn,
         NEW n \in rows["node"], NEW r \in rows'["osimage"], n.ref = r.id
  PROVE  r.distro \in files' \union raced'
<1>1. /\ TablesInv /\ UsedImageHasTree /\ \A x \in Request : Images(x)
      /\ rows \in [Kind -> SUBSET Row] /\ rows' \in [Kind -> SUBSET Row] /\ ids["osimage"] \in 0..MaxId
      /\ "osimage" \in Kind /\ "node" \in Kind /\ MaxId \in Nat /\ Consistent(rows)
  BY CatalogAssumption DEF CatalogInv, FilesInv, TablesInv, Kind, CatalogAssumption
<1>2. r \in Row /\ r.id \in 1..MaxId
  <2>1. r \in Row
    BY <1>1
  <2> QED BY <2>1 DEF Row
<1>3. PICK i \in rows["osimage"] : i.id = n.ref
  <2>1. n.ref # 0
    BY <1>2
  <2> QED BY <1>1, <2>1 DEF Consistent
<1>4. i.id <= ids["osimage"]
  BY <1>1, <1>3 DEF TablesInv, All
<1>5. i.distro = r.distro
  <2>1. ~ (r.id > ids["osimage"])
    BY <1>1, <1>2, <1>3, <1>4
  <2>2. PICK o \in rows["osimage"] : From("osimage", o, r)
    BY <1>1, <2>1 DEF Onward
  <2>3. o.id = i.id /\ o.distro = r.distro
    BY <1>3, <2>2 DEF From
  <2> QED BY <1>1, <2>3 DEF Consistent
<1> DEFINE d == i.distro
<1>6. d \in files \union raced
  BY <1>1, <1>3 DEF UsedImageHasTree
<1>7. CASE d \in raced
  BY <1>5, <1>7 DEF FilesGoOn
<1>8. CASE d \in files \ files' /\ d \notin raced
  <2>1. PICK x \in Request : Deletes(x) /\ (OthersCountOn(d, x) => d \in raced')
    BY <1>8 DEF FilesGoOn
  <2>2. CASE i \in req[x].seen
    <3>1. req[x].phase \notin {"files", "destroy"}
      BY <1>1, <1>3, <1>8, <2>1, <2>2 DEF Images, Deletes
    <3>2. At(x, "done")
      BY <2>1, <3>1 DEF Deletes, At
    <3> QED BY <1>5, <2>1, <3>2 DEF OthersCountOn
  <2>3. CASE i \notin req[x].seen
    BY <1>3, <1>5, <2>1, <2>3 DEF OthersCountOn
  <2> QED BY <2>2, <2>3
<1> QED BY <1>5, <1>6, <1>7, <1>8

\* A node gets the image of the provision, which is there, or keeps the one it has.
Given(n, image) == n.ref = image.id \/ \E r \in rows["node"] : n.ref = r.ref

\* What the save of a provision does to the references.
LEMMA ProvisionRefs ==
  ASSUME CatalogInv, NEW q \in Request, ProvisionSave(q), ~ UNCHANGED tables
  PROVE  \E image \in req[q].seen, s \in rows["osimage"] :
            /\ s.id = image.id /\ rows'["osimage"] = rows["osimage"]
            /\ \A n \in rows'["node"] : Given(n, image)
<1>1. rows \in [Kind -> SUBSET Row] /\ "node" \in Kind /\ "osimage" \in Kind
  BY DEF CatalogInv, TablesInv, Kind
<1> DEFINE held == Ids(req[q].held)
<1>2. PICK image \in req[q].seen :
            /\ ById("osimage", {image.id}) # {}
            /\ rows' = [rows EXCEPT !["node"] =
                 {IF r.id \in held THEN [r EXCEPT !.attrs["b"] = "new", !.asked["b"] = "new", !.ref = image.id]
                  ELSE r : r \in @}]
  BY DEF ProvisionSave
<1>3. PICK s \in rows["osimage"] : s.id = image.id
  BY <1>2 DEF ById
<1> HIDE DEF held
<1>4. rows'["osimage"] = rows["osimage"]
  BY <1>1, <1>2
<1>5. ASSUME NEW n \in rows'["node"] PROVE Given(n, image)
  <2>1. PICK r \in rows["node"] :
          n = IF r.id \in held THEN [r EXCEPT !.attrs["b"] = "new", !.asked["b"] = "new", !.ref = image.id] ELSE r
    BY <1>1, <1>2, <1>5
  <2>2. r \in Row
    BY <1>1
  <2>3. [r EXCEPT !.attrs["b"] = "new", !.asked["b"] = "new", !.ref = image.id].ref = image.id
    BY <2>2 DEF Row
  <2> QED BY <2>1, <2>3 DEF Given
<1> QED BY <1>3, <1>4, <1>5

\* An image in use keeps its files, whatever the step.
LEMMA UsedStays ==
  ASSUME CatalogInv, TablesInv', NEW q \in Request, Onward(q), FilesGoOn, RefsKept \/ ProvisionSave(q)
  PROVE  UsedImageHasTree'
<1> SUFFICES ASSUME NEW n \in rows'["node"], NEW r \in rows'["osimage"], n.ref = r.id
             PROVE  r.distro \in files' \union raced'
  BY DEF UsedImageHasTree
<1>1. rows' \in [Kind -> SUBSET Row] /\ "osimage" \in Kind /\ "node" \in Kind
      /\ TablesInv /\ req \in [Request -> ReqType] /\ Images(q) /\ MaxId \in Nat
  BY CatalogAssumption DEF CatalogInv, TablesInv, Kind, CatalogAssumption
<1>2. n.ref # 0
  <2>1. r \in Row
    BY <1>1
  <2>2. r.id \in 1..MaxId
    BY <2>1 DEF Row
  <2> QED BY <2>2
<1>3. CASE \E o \in rows["node"] : n.ref = o.ref
  BY <1>3, TreesStay
<1>4. CASE RefsKept
  BY <1>2, <1>3, <1>4 DEF RefsKept
<1>5. CASE ProvisionSave(q) /\ UNCHANGED tables
  BY <1>1, <1>4, <1>5, TablesStay
<1>6. CASE ProvisionSave(q) /\ ~ UNCHANGED tables
  <2>1. PICK image \in req[q].seen, s \in rows["osimage"] :
            /\ s.id = image.id /\ rows'["osimage"] = rows["osimage"]
            /\ \A m \in rows'["node"] : Given(m, image)
    BY <1>6, ProvisionRefs
  <2>2. Given(n, image)
    BY <2>1
  <2>3. CASE n.ref = image.id
    <3>1. Is(q, "provision", "node") /\ At(q, "save") /\ files' = files
      BY <1>6 DEF ProvisionSave
    <3>2. image.distro \in files \union raced /\ WasRead(image)
      BY <1>1, <2>1, <3>1 DEF Images, DistrosOf, At
    <3>3. r.distro = image.distro
      BY <2>1, <2>3, <3>2 DEF WasRead
    <3> QED BY <3>1, <3>2, <3>3 DEF FilesGoOn
  <2> QED BY <1>3, <2>2, <2>3 DEF Given
<1> QED BY <1>4, <1>5, <1>6

\* Which steps are those of a DELETE of an image, and of a provision.
LEMMA DeleteSteps ==
  ASSUME NEW q \in Request, Is(q, "delete", "osimage"), Step(q)
  PROVE  ImageDelete(q) \/ ImageInUse(q) \/ ImageFiles(q) \/ ImageDestroy(q) \/ NodesRelease(q)
<1>1. \A op, kind : Is(q, op, kind) => op = "delete" /\ kind = "osimage"
  BY DEF Is
<1>2. ~ OnNodes(q)
  BY DEF Is, OnNodes
<1>3. ~ (NetworkPost(q) \/ NetworkPatch(q) \/ NetworkSave(q) \/ NetworkDelete(q) \/ NetworkDestroy(q))
  BY <1>1 DEF NetworkPost, NetworkPatch, NetworkSave, NetworkDelete, NetworkDestroy
<1>4. ~ (PasswdPost(q) \/ PasswdPatch(q) \/ PasswdSave(q) \/ PasswdDelete(q) \/ PasswdDestroy(q))
  BY <1>1 DEF PasswdPost, PasswdPatch, PasswdSave, PasswdDelete, PasswdDestroy
<1>5. ~ (NicPost(q) \/ NicCreate(q) \/ NicDelete(q) \/ NicDestroy(q) \/ NicPatch(q) \/ NicSave(q))
  BY <1>1 DEF NicPost, NicCreate, NicDelete, NicDestroy, NicPatch, NicSave
<1>6. ~ (NodePost(q) \/ BulkCheck(q) \/ BulkInsertNodes(q) \/ BulkLookUp(q) \/ BulkInsertNics(q))
  BY <1>1 DEF NodePost, BulkCheck, BulkInsertNodes, BulkLookUp, BulkInsertNics
<1>7. ~ (NodesFilter(q) \/ NodesPatch(q) \/ NodesSave(q) \/ NodesDelete(q) \/ NodesDestroy(q))
  BY <1>1, <1>2 DEF NodesFilter, NodesPatch, NodesSave, NodesDelete, NodesDestroy
<1>8. ~ (ImagePost(q) \/ ImagePatch(q) \/ ImageSave(q))
  BY <1>1 DEF ImagePost, ImagePatch, ImageSave
<1>9. ~ (Copycd(q) \/ Upload(q) \/ UploadSave(q) \/ UploadCreate(q))
  BY <1>1 DEF Copycd, Upload, UploadSave, UploadCreate
<1>10. ~ (Provision(q) \/ ProvisionLock(q) \/ EnsureImage(q) \/ ProvisionSave(q))
  <2>1. ~ Is(q, "provision", "node")
    BY <1>1
  <2> QED BY <2>1 DEF Provision, ProvisionLock, EnsureImage, ProvisionSave
<1> QED BY <1>3, <1>4, <1>5, <1>6, <1>7, <1>8, <1>9, <1>10 DEF Step

\* The steps of a provision.
LEMMA ProvisionSteps ==
  ASSUME NEW q \in Request, Is(q, "provision", "node"), Step(q)
  PROVE  NodesFilter(q) \/ Provision(q) \/ ProvisionLock(q) \/ EnsureImage(q) \/ ProvisionSave(q) \/ NodesRelease(q)
<1>1. \A op, kind : Is(q, op, kind) => op = "provision" /\ kind = "node"
  BY DEF Is
<1>2. ~ (NetworkPost(q) \/ NetworkPatch(q) \/ NetworkSave(q) \/ NetworkDelete(q) \/ NetworkDestroy(q))
  BY <1>1 DEF NetworkPost, NetworkPatch, NetworkSave, NetworkDelete, NetworkDestroy
<1>3. ~ (PasswdPost(q) \/ PasswdPatch(q) \/ PasswdSave(q) \/ PasswdDelete(q) \/ PasswdDestroy(q))
  BY <1>1 DEF PasswdPost, PasswdPatch, PasswdSave, PasswdDelete, PasswdDestroy
<1>4. ~ (NicPost(q) \/ NicCreate(q) \/ NicDelete(q) \/ NicDestroy(q) \/ NicPatch(q) \/ NicSave(q))
  BY <1>1 DEF NicPost, NicCreate, NicDelete, NicDestroy, NicPatch, NicSave
<1>5. ~ (NodePost(q) \/ BulkCheck(q) \/ BulkInsertNodes(q) \/ BulkLookUp(q) \/ BulkInsertNics(q))
  BY <1>1 DEF NodePost, BulkCheck, BulkInsertNodes, BulkLookUp, BulkInsertNics
<1>6. ~ (NodesPatch(q) \/ NodesSave(q) \/ NodesDelete(q) \/ NodesDestroy(q))
  BY <1>1 DEF NodesPatch, NodesSave, NodesDelete, NodesDestroy
<1>7. ~ (ImagePost(q) \/ ImagePatch(q) \/ ImageSave(q))
  BY <1>1 DEF ImagePost, ImagePatch, ImageSave
<1>8. ~ (ImageDelete(q) \/ ImageInUse(q) \/ ImageFiles(q) \/ ImageDestroy(q))
  BY <1>1 DEF ImageDelete, ImageInUse, ImageFiles, ImageDestroy
<1>9. ~ (Copycd(q) \/ Upload(q) \/ UploadSave(q) \/ UploadCreate(q))
  BY <1>1 DEF Copycd, Upload, UploadSave, UploadCreate
<1> QED BY <1>2, <1>3, <1>4, <1>5, <1>6, <1>7, <1>8, <1>9 DEF Step

\* The steps of a PATCH.
LEMMA PatchSteps ==
  ASSUME NEW q \in Request, M(q).op = "patch", Step(q)
  PROVE  \/ NetworkPatch(q) \/ PasswdPatch(q) \/ NicPatch(q) \/ ImagePatch(q) \/ NodesPatch(q)
         \/ NetworkSave(q) \/ PasswdSave(q) \/ NicSave(q) \/ ImageSave(q) \/ NodesSave(q)
         \/ NodesFilter(q) \/ NodesRelease(q)
<1>1. \A op, kind : Is(q, op, kind) => op = "patch"
  BY DEF Is
<1>2. ~ (NetworkPost(q) \/ NetworkDelete(q) \/ NetworkDestroy(q))
  BY <1>1 DEF NetworkPost, NetworkDelete, NetworkDestroy
<1>3. ~ (PasswdPost(q) \/ PasswdDelete(q) \/ PasswdDestroy(q))
  BY <1>1 DEF PasswdPost, PasswdDelete, PasswdDestroy
<1>4. ~ (NicPost(q) \/ NicCreate(q) \/ NicDelete(q) \/ NicDestroy(q))
  BY <1>1 DEF NicPost, NicCreate, NicDelete, NicDestroy
<1>5. ~ (NodePost(q) \/ BulkCheck(q) \/ BulkInsertNodes(q) \/ BulkLookUp(q) \/ BulkInsertNics(q))
  BY <1>1 DEF NodePost, BulkCheck, BulkInsertNodes, BulkLookUp, BulkInsertNics
<1>6. ~ (NodesDelete(q) \/ NodesDestroy(q) \/ ImagePost(q))
  BY <1>1 DEF NodesDelete, NodesDestroy, ImagePost
<1>7. ~ (ImageDelete(q) \/ ImageInUse(q) \/ ImageFiles(q) \/ ImageDestroy(q))
  BY <1>1 DEF ImageDelete, ImageInUse, ImageFiles, ImageDestroy
<1>8. ~ (Copycd(q) \/ Upload(q) \/ UploadSave(q) \/ UploadCreate(q))
  BY <1>1 DEF Copycd, Upload, UploadSave, UploadCreate
<1>9. ~ (Provision(q) \/ ProvisionLock(q) \/ EnsureImage(q) \/ ProvisionSave(q))
  <2>1. ~ Is(q, "provision", "node")
    BY <1>1
  <2> QED BY <2>1 DEF Provision, ProvisionLock, EnsureImage, ProvisionSave
<1> QED BY <1>2, <1>3, <1>4, <1>5, <1>6, <1>7, <1>8, <1>9 DEF Step

\* What a request that has answered holds.
LEMMA Answered ==
  ASSUME req \in [Request -> ReqType], NEW q \in Request, Answers(q), Fail(q) \/ Succeed(q)
  PROVE  req'[q].m = M(q) /\ req'[q].seen = {} /\ req'[q].phase = End(q) /\ req'[q].phase \in {"done", "release"}
<1>1. /\ M(q).keys \in SUBSET Key /\ req[q].ok \in SUBSET Key /\ req[q].failed \in SUBSET Key
      /\ Todo(q) \in SUBSET Key /\ {} \in SUBSET Key
  BY RequestIs
<1>2. PICK ok \in SUBSET Key, failed \in SUBSET Key : Answer(q, ok, failed)
  <2>1. req[q].ok \union Todo(q) \in SUBSET Key
    BY <1>1
  <2> QED BY <1>1, <2>1 DEF Fail, Succeed
<1>3. Becomes(q, End(q), {}, req[q].held, ok, failed)
  BY <1>2, AnswerIs
<1> QED BY <1>3 DEF Becomes, End

\* What another request knows of images stays true.
LEMMA OthersImages ==
  ASSUME CatalogInv, TablesInv', NEW q, Onward(q), FilesGoOn, RefsKept \/ (q \in Request /\ ProvisionSave(q)),
         NEW p \in Request, req'[p] = req[p]
  PROVE  Images(p)'
<1>1. /\ TablesInv /\ req \in [Request -> ReqType] /\ Images(p) /\ req[p].seen \in SUBSET Row
      /\ raced \subseteq raced' /\ "node" \in Kind
  BY RequestIs DEF CatalogInv, FilesGoOn, Kind
<1>2. \A op, kind : Is(p, op, kind)' <=> Is(p, op, kind)
  BY DEF Is, M
<1> DEFINE r == req[p]
<1>3. ASSUME Is(p, "delete", "osimage") \/ Is(p, "provision", "node"), NEW i \in r.seen
      PROVE  WasRead(i)'
  BY <1>1, <1>3, ReadBefore DEF Images
<1>4. ASSUME Is(p, "delete", "osimage"), r.phase \in {"files", "destroy"}, NEW i \in r.seen,
             NEW n \in rows'["node"], n.ref = i.id
      PROVE  i.distro \in raced'
  <2>1. CASE \E o \in rows["node"] : n.ref = o.ref
    BY <1>1, <1>4, <2>1 DEF Images
  <2>2. i.id \in 1..MaxId
    <3>1. i \in Row
      BY <1>1, <1>4
    <3> QED BY <3>1 DEF Row
  <2>3. CASE RefsKept
    <3>1. n.ref # 0
      BY <1>4, <2>2
    <3> QED BY <2>1, <2>3, <3>1 DEF RefsKept
  <2>4. CASE q \in Request /\ ProvisionSave(q) /\ UNCHANGED tables
    <3>1. RefsKept
      BY <1>1, <2>4, TablesStay
    <3> QED BY <2>3, <3>1
  <2>5. CASE q \in Request /\ ProvisionSave(q) /\ ~ UNCHANGED tables
    <3>1. PICK image \in req[q].seen, s \in rows["osimage"] :
            /\ s.id = image.id /\ \A m \in rows'["node"] : Given(m, image)
      BY <2>5, ProvisionRefs
    <3>2. CASE n.ref = image.id
      <4>1. WasRead(image) /\ WasRead(i)
        <5>1. Is(q, "provision", "node") /\ Images(q)
          BY <2>5 DEF ProvisionSave, CatalogInv
        <5> QED BY <1>1, <1>4, <3>1, <5>1 DEF Images
      <4>2. i.distro = image.distro
        BY <1>4, <3>1, <3>2, <4>1 DEF WasRead
      <4>3. i.distro \in DistrosOf(req[q].seen)
        BY <3>1, <4>2 DEF DistrosOf
      <4>4. BeingDeleted(i.distro)
        BY <1>4 DEF BeingDeleted, DistrosOf
      <4> QED BY <2>5, <4>3, <4>4 DEF ProvisionSave
    <3> QED BY <2>1, <3>1, <3>2 DEF Given
  <2> QED BY <2>3, <2>4, <2>5
<1>5. ASSUME Is(p, "provision", "node"), r.phase = "save", NEW d \in DistrosOf(r.seen)
      PROVE  d \in files' \union raced'
  <2>1. d \in files \union raced
    BY <1>1, <1>5 DEF Images
  <2>2. CASE d \in files \ files'
    <3>1. PICK x \in Request : Deletes(x) /\ (OthersCountOn(d, x) => d \in raced')
      BY <2>2 DEF FilesGoOn
    <3>2. p # x /\ M(p).op = "provision"
      BY <1>5, <3>1 DEF Deletes, Is
    <3>3. OthersCountOn(d, x)
      BY <1>5, <3>2 DEF OthersCountOn
    <3> QED BY <3>1, <3>3
  <2> QED BY <1>1, <2>1, <2>2
<1>6. DistrosOf(req[p].seen)' = DistrosOf(r.seen)
  BY DEF DistrosOf
<1> QED BY <1>2, <1>3, <1>4, <1>5, <1>6 DEF Images

\* What a DELETE of an image knows after a step of its own.
LEMMA DeleteImages ==
  ASSUME CatalogInv, TablesInv', NEW q \in Request, Onward(q), FilesGoOn, Is(q, "delete", "osimage"), Step(q)
  PROVE  Images(q)'
<1>1. /\ TablesInv /\ req \in [Request -> ReqType] /\ Images(q) /\ Answers(q) /\ req[q].seen \in SUBSET Row
      /\ raced \subseteq raced' /\ "osimage" \in Kind /\ rows \in [Kind -> SUBSET Row]
      /\ {"check", "files", "destroy"} \subseteq Phases
  BY RequestIs DEF CatalogInv, FilesGoOn, Kind, TablesInv, Phases
<1>2. ASSUME NEW i \in req[q].seen \union rows["osimage"] PROVE WasRead(i)'
  <2>1. i \in Row
    BY <1>1
  <2>2. WasRead(i)
    BY <1>1, ReadNow DEF Images
  <2> QED BY <1>1, <2>1, <2>2, ReadBefore
<1>3. \A S : ByKey("osimage", S) \in SUBSET rows["osimage"]
  BY DEF ByKey
<1>4. PICK seen \in SUBSET (req[q].seen \union rows["osimage"]), phase \in Phases :
        /\ req'[q].m = M(q) /\ req'[q].seen = seen /\ req'[q].phase = phase
        /\ phase \in {"files", "destroy"} =>
              \A i \in seen, n \in rows'["node"] : n.ref = i.id => i.distro \in raced'
  <2>1. CASE Fail(q) \/ Succeed(q)
    <3>1. {"done", "release"} \subseteq Phases /\ {} \in SUBSET (req[q].seen \union rows["osimage"])
      BY DEF Phases
    <3>2. req'[q].m = M(q) /\ req'[q].seen = {} /\ req'[q].phase \in {"done", "release"}
      BY <1>1, <2>1, Answered
    <3> QED BY <3>1, <3>2
  <2>2. CASE ImageDelete(q)
    <3>1. CASE Proceed(q, "check", ByKey("osimage", M(q).keys))
      <4> DEFINE found == ByKey("osimage", M(q).keys)
      <4>1. found \in SUBSET rows["osimage"] /\ found \in SUBSET Row
        BY <1>1, <1>3
      <4> HIDE DEF found
      <4>2. Proceed(q, "check", found)
        BY <3>1 DEF found
      <4>3. Becomes(q, "check", found, req[q].held, req[q].ok, req[q].failed)
        BY <1>1, <4>1, <4>2, ProceedIs
      <4> QED BY <1>1, <4>1, <4>3 DEF Becomes
    <3> QED BY <2>1, <2>2, <3>1 DEF ImageDelete, Get
  <2>3. CASE ImageInUse(q)
    <3>1. CASE Unused(q) /\ Proceed(q, "files", req[q].seen)
      <4>1. Becomes(q, "files", req[q].seen, req[q].held, req[q].ok, req[q].failed)
        BY <1>1, <3>1, ProceedIs
      <4>2. \A i \in req[q].seen, n \in rows'["node"] : n.ref # i.id
        <5>1. rows' = rows
          BY <2>3 DEF ImageInUse, tables
        <5> QED BY <3>1, <5>1 DEF Unused, Users, Ids
      <4> QED BY <1>1, <4>1, <4>2 DEF Becomes
    <3> QED BY <2>1, <2>3, <3>1 DEF ImageInUse
  <2>4. CASE ImageFiles(q)
    <3>1. Proceed(q, "destroy", req[q].seen) /\ At(q, "files") /\ rows' = rows
      BY <2>4 DEF ImageFiles, tables
    <3>2. Becomes(q, "destroy", req[q].seen, req[q].held, req[q].ok, req[q].failed)
      BY <1>1, <3>1, ProceedIs
    <3>3. \A i \in req[q].seen, n \in rows'["node"] : n.ref = i.id => i.distro \in raced'
      BY <1>1, <3>1 DEF Images, At
    <3> QED BY <1>1, <3>2, <3>3 DEF Becomes
  <2>5. CASE ImageDestroy(q)
    BY <2>1, <2>5 DEF ImageDestroy, Destroy
  <2>6. CASE NodesRelease(q)
    <3>1. req'[q].m = M(q) /\ req'[q].seen = req[q].seen /\ req'[q].phase = "done" /\ "done" \in Phases
      BY <1>1, <2>6 DEF NodesRelease, ReqType, M, Phases
    <3> QED BY <3>1
  <2> QED BY <2>2, <2>3, <2>4, <2>5, <2>6, DeleteSteps
<1>5. /\ Is(q, "delete", "osimage")' /\ ~ Is(q, "provision", "node")'
  BY <1>4 DEF Is, M
<1> QED BY <1>2, <1>4, <1>5 DEF Images

\* What a provision knows after a step of its own.
LEMMA ProvisionImages ==
  ASSUME CatalogInv, TablesInv', NEW q \in Request, Onward(q), FilesGoOn, Is(q, "provision", "node"), Step(q)
  PROVE  Images(q)'
<1>1. /\ TablesInv /\ req \in [Request -> ReqType] /\ Images(q) /\ Answers(q) /\ req[q].seen \in SUBSET Row
      /\ "osimage" \in Kind /\ rows \in [Kind -> SUBSET Row] /\ {"save", "lock"} \subseteq Phases
  BY RequestIs DEF CatalogInv, Kind, TablesInv, Phases
<1>2. ASSUME NEW i \in req[q].seen \union rows["osimage"] PROVE WasRead(i)'
  <2>1. i \in Row
    BY <1>1
  <2>2. WasRead(i)
    BY <1>1, ReadNow DEF Images
  <2> QED BY <1>1, <2>1, <2>2, ReadBefore
<1>3. PICK seen \in SUBSET (req[q].seen \union rows["osimage"]), phase \in Phases :
        /\ req'[q].m = M(q) /\ req'[q].seen = seen /\ req'[q].phase = phase
        /\ phase = "save" => DistrosOf(seen) \subseteq files' \union raced'
  <2>1. CASE Fail(q) \/ Succeed(q)
    <3>1. {"done", "release"} \subseteq Phases /\ {} \in SUBSET (req[q].seen \union rows["osimage"])
      BY DEF Phases
    <3>2. req'[q].m = M(q) /\ req'[q].seen = {} /\ req'[q].phase \in {"done", "release"}
      BY <1>1, <2>1, Answered
    <3> QED BY <3>1, <3>2
  <2>2. CASE \E phase \in {"read", "done", "image"} :
                req'[q].m = M(q) /\ req'[q].seen = req[q].seen /\ req'[q].phase = phase
    <3>1. {"read", "done", "image"} \subseteq Phases
      BY DEF Phases
    <3> QED BY <2>2, <3>1
  <2>3. CASE NodesFilter(q)
    <3> DEFINE failed == Unavailable(q)
               phase == IF failed = M(q).keys THEN "done" ELSE "read"
    <3>1. req' = [req EXCEPT ![q].failed = failed, ![q].phase = phase] /\ phase \in {"read", "done", "image"}
      BY <2>3 DEF NodesFilter
    <3> HIDE DEF failed, phase
    <3>2. req'[q].m = M(q) /\ req'[q].seen = req[q].seen /\ req'[q].phase = phase
      BY <1>1, <3>1 DEF ReqType, M
    <3> QED BY <2>2, <3>1, <3>2
  <2>4. CASE Provision(q)
    <3> DEFINE found == ByKey("osimage", {M(q).newkey})
    <3>1. found \in SUBSET rows["osimage"] /\ found \in SUBSET Row
      BY <1>1 DEF ByKey
    <3>2. Fail(q) \/ Proceed(q, "lock", found)
      BY <2>4 DEF Provision
    <3> HIDE DEF found
    <3>3. CASE Proceed(q, "lock", found)
      <4>1. Becomes(q, "lock", found, req[q].held, req[q].ok, req[q].failed)
        BY <1>1, <3>1, <3>3, ProceedIs
      <4> QED BY <1>1, <3>1, <4>1 DEF Becomes
    <3> QED BY <2>1, <3>2, <3>3
  <2>5. CASE ProvisionLock(q)
    <3> DEFINE found == ByKey("node", Todo(q))
    <3>1. Fail(q) \/ req' = [req EXCEPT ![q].phase = "image", ![q].held = found]
      BY <2>5 DEF ProvisionLock, NodesLock
    <3> HIDE DEF found
    <3>2. CASE req' = [req EXCEPT ![q].phase = "image", ![q].held = found]
      <4>1. req'[q].m = M(q) /\ req'[q].seen = req[q].seen /\ req'[q].phase = "image"
        BY <1>1, <3>2 DEF ReqType, M
      <4> QED BY <2>2, <4>1
    <3> QED BY <2>1, <3>1, <3>2
  <2>6. CASE EnsureImage(q)
    <3>1. Fail(q) \/ (Proceed(q, "save", req[q].seen) /\ DistrosOf(req[q].seen) \subseteq files /\ files' = files)
      BY <2>6 DEF EnsureImage, fileVars
    <3>2. CASE Proceed(q, "save", req[q].seen) /\ DistrosOf(req[q].seen) \subseteq files /\ files' = files
      <4>1. Becomes(q, "save", req[q].seen, req[q].held, req[q].ok, req[q].failed)
        BY <1>1, <3>2, ProceedIs
      <4> QED BY <1>1, <3>2, <4>1 DEF Becomes
    <3> QED BY <2>1, <3>1, <3>2
  <2>7. CASE ProvisionSave(q)
    BY <2>1, <2>7 DEF ProvisionSave
  <2>8. CASE NodesRelease(q)
    <3>1. req'[q].m = M(q) /\ req'[q].seen = req[q].seen /\ req'[q].phase = "done"
      BY <1>1, <2>8 DEF NodesRelease, ReqType, M
    <3> QED BY <2>2, <3>1
  <2> QED BY <2>3, <2>4, <2>5, <2>6, <2>7, <2>8, ProvisionSteps
<1>4. Is(q, "provision", "node")' /\ ~ Is(q, "delete", "osimage")'
  BY <1>3 DEF Is, M
<1> QED BY <1>2, <1>3, <1>4 DEF Images

\* The messages are those of DELETEs that are past their look at the nodes.
LEMMA StillDeletes ==
  ASSUME CatalogInv, NEW q \in Request, Step(q), Deletes(q)
  PROVE  Deletes(q)'
<1>1. req \in [Request -> ReqType] /\ Answers(q) /\ req[q].seen \in SUBSET Row /\ "destroy" \in Phases
  BY RequestIs DEF CatalogInv, Phases
<1>2. Is(q, "delete", "osimage") /\ End(q) = "done"
  BY <1>1 DEF Deletes, Answers, OnNodes, Is, End
<1>3. req'[q].m = M(q) /\ req'[q].phase \in {"destroy", "done"}
  <2>1. CASE Fail(q) \/ Succeed(q)
    BY <1>1, <1>2, <2>1, Answered
  <2>2. CASE ImageFiles(q)
    <3>1. Proceed(q, "destroy", req[q].seen)
      BY <2>2 DEF ImageFiles
    <3>2. Becomes(q, "destroy", req[q].seen, req[q].held, req[q].ok, req[q].failed)
      BY <1>1, <3>1, ProceedIs
    <3> QED BY <3>2 DEF Becomes
  <2>3. CASE ImageDestroy(q)
    BY <2>1, <2>3 DEF ImageDestroy, Destroy
  <2>4. ~ (ImageDelete(q) \/ ImageInUse(q) \/ NodesRelease(q))
    BY DEF Deletes, ImageDelete, ImageInUse, NodesRelease, Get, At
  <2> QED BY <1>2, <2>2, <2>3, <2>4, DeleteSteps
<1> QED BY <1>2, <1>3 DEF Deletes, Is, M

\* The messages after a step of a request.
LEMMA CastsStep ==
  ASSUME CatalogInv, NEW q \in Request, Step(q), RequestGoesOn(q), casts' = casts \/ ImageInUse(q)
  PROVE  casts' \subseteq Distro \X Request /\ \A c \in casts' : Deletes(c[2])'
<1>1. /\ casts \subseteq Distro \X Request /\ \A c \in casts : Deletes(c[2])
      /\ req \in [Request -> ReqType] /\ Answers(q) /\ Images(q) /\ req[q].seen \in SUBSET Row /\ "files" \in Phases
  BY RequestIs DEF CatalogInv, FilesInv, Deletes, Phases
<1>2. ASSUME NEW x \in Request, Deletes(x) PROVE Deletes(x)'
  <2>1. CASE x = q
    BY <1>2, <2>1, StillDeletes
  <2>2. CASE x # q
    BY <1>2, <2>2 DEF RequestGoesOn, Deletes, Is, M
  <2> QED BY <2>1, <2>2
<1>3. CASE casts' = casts
  BY <1>1, <1>2, <1>3
<1>4. CASE ImageInUse(q) /\ casts' # casts
  <2>1. /\ casts' = casts \union {<<d, q>> : d \in DistrosOf(req[q].seen)}
        /\ Proceed(q, "files", req[q].seen) /\ Is(q, "delete", "osimage")
    BY <1>4 DEF ImageInUse
  <2>2. DistrosOf(req[q].seen) \subseteq Distro
    BY <1>1, <2>1 DEF Images, DistrosOf, WasRead
  <2>3. Deletes(q)'
    <3>1. Becomes(q, "files", req[q].seen, req[q].held, req[q].ok, req[q].failed)
      BY <1>1, <2>1, ProceedIs
    <3> QED BY <2>1, <3>1 DEF Becomes, Deletes, Is, M
  <2> QED BY <1>1, <1>2, <2>1, <2>2, <2>3
<1> QED BY <1>3, <1>4

-----------------------------------------------------------------------------
(* What PATCHes have read.                                                  *)

\* A PATCH that is about to write has just read the rows as they are.
LEMMA ReadsAsIs ==
  ASSUME CatalogInv, NEW q \in Request, Step(q), M(q).op = "patch", req'[q].phase = "save"
  PROVE  rows' = rows /\ ids' = ids /\ req'[q].seen \subseteq rows[M(q).kind]
<1>1. /\ req \in [Request -> ReqType] /\ Answers(q) /\ req[q] \in ReqType
      /\ rows \in [Kind -> SUBSET Row] /\ "save" \in Phases
      /\ {"network", "passwd", "nic", "osimage", "node"} \subseteq Kind
  BY DEF CatalogInv, TablesInv, Phases, Kind
<1>2. ~ (Fail(q) \/ Succeed(q))
  <2>1. CASE Fail(q) \/ Succeed(q)
    BY <1>1, <2>1, Answered
  <2> QED BY <2>1
<1>3. ASSUME NEW kind \in Kind, M(q).kind = kind, NEW keys, Proceed(q, "save", ByKey(kind, keys)),
             UNCHANGED tables
      PROVE  rows' = rows /\ ids' = ids /\ req'[q].seen \subseteq rows[M(q).kind]
  <2>1. ByKey(kind, keys) \subseteq rows[kind] /\ ByKey(kind, keys) \in SUBSET Row
    BY <1>1 DEF ByKey
  <2> DEFINE found == ByKey(kind, keys)
  <2> HIDE DEF found
  <2>2. Proceed(q, "save", found) /\ found \in SUBSET Row
    BY <1>3, <2>1 DEF found
  <2>3. Becomes(q, "save", found, req[q].held, req[q].ok, req[q].failed)
    BY <1>1, <2>2, ProceedIs
  <2>4. req'[q].seen = ByKey(kind, keys)
    BY <2>3 DEF Becomes, found
  <2> QED BY <1>3, <2>1, <2>4 DEF tables
<1>4. CASE NetworkPatch(q) \/ PasswdPatch(q) \/ NicPatch(q) \/ ImagePatch(q)
  <2>1. PICK kind \in Kind : M(q).kind = kind /\ Get(q, kind, "save")
    BY <1>1, <1>2, <1>4 DEF NetworkPatch, PasswdPatch, NicPatch, ImagePatch, NetworkGet, PasswdGet, NicGet, Is
  <2>2. Proceed(q, "save", ByKey(kind, M(q).keys)) /\ UNCHANGED tables
    BY <1>2, <2>1 DEF Get
  <2> QED BY <1>3, <2>1, <2>2
<1>5. CASE NodesPatch(q)
  BY <1>1, <1>3, <1>5 DEF NodesPatch, Is
<1>6. ~ (NetworkSave(q) \/ PasswdSave(q) \/ NicSave(q) \/ ImageSave(q))
  BY <1>2 DEF NetworkSave, PasswdSave, NicSave, ImageSave, Save
<1>7. ~ NodesSave(q)
  BY <1>2 DEF NodesSave
<1>8. ~ NodesFilter(q)
  <2>1. CASE NodesFilter(q)
    <3> DEFINE phase == IF Unavailable(q) = M(q).keys THEN "done" ELSE "read"
               out == Unavailable(q)
    <3>1. req' = [req EXCEPT ![q].failed = out, ![q].phase = phase] /\ phase # "save"
      BY <2>1 DEF NodesFilter
    <3> HIDE DEF phase, out
    <3>2. req'[q].phase = phase
      BY <1>1, <3>1 DEF ReqType
    <3> QED BY <3>1, <3>2
  <2> QED BY <2>1
<1>9. ~ NodesRelease(q)
  <2>1. CASE NodesRelease(q)
    <3>1. req'[q].phase = "done"
      BY <1>1, <2>1 DEF NodesRelease, ReqType
    <3> QED BY <3>1
  <2> QED BY <2>1
<1> QED BY <1>4, <1>5, <1>6, <1>7, <1>8, <1>9, PatchSteps

\* What another PATCH has read is as it was, or shared.
LEMMA OthersAsRead ==
  ASSUME CatalogInv, TablesInv', NEW q, Onward(q), NEW p \in Request, p # q, req'[p] = req[p]
  PROVE  AsRead(p)'
<1> SUFFICES ASSUME At(p, "save"), M(p).op = "patch", M(p).field \in Nested, NEW r \in req[p].seen
             PROVE  /\ r.id <= ids'[M(p).kind]
                    /\ \A s \in rows'[M(p).kind] : s.id = r.id => KeysOf(r, s)
  BY DEF AsRead, At, M, KeysOf
<1> DEFINE k == M(p).kind
<1>1. /\ k \in Kind /\ r \in Row /\ AsRead(p)
      /\ ids[k] \in 0..MaxId /\ ids'[k] \in 0..MaxId /\ MaxId \in Nat
  BY RequestIs, CatalogAssumption DEF CatalogInv, TablesInv, CatalogAssumption
<1>2. r.id \in 1..MaxId
  BY <1>1 DEF Row
<1>3. r.id <= ids[k] /\ \A x \in rows[k] : x.id = r.id => KeysOf(r, x)
  BY <1>1 DEF AsRead
<1> HIDE DEF k
<1>4. ids[k] <= ids'[k]
  BY <1>1 DEF Onward
<1>5. ASSUME NEW s \in rows'[k], s.id = r.id PROVE KeysOf(r, s)
  <2>1. ~ (s.id > ids[k])
    BY <1>1, <1>2, <1>3, <1>5
  <2>2. PICK x \in rows[k] : From(k, x, s)
    BY <1>1, <2>1 DEF Onward
  <2>3. x.id = r.id /\ x.id = s.id
    BY <1>5, <2>2 DEF From
  <2>4. KeysOf(r, x) /\ Kept(q, k, x, s)
    BY <1>1, <1>3, <2>3 DEF Onward
  <2>5. p \in Readers(k, x)
    BY <2>3 DEF Readers, Is, Ids, k
  <2>6. (\A f \in Nested : s.attrs[f] = x.attrs[f]) \/ Nested \subseteq s.shared
    BY <2>4, <2>5 DEF Kept
  <2> QED BY <2>4, <2>6 DEF KeysOf, Kept
<1> QED BY <1>1, <1>2, <1>3, <1>4, <1>5 DEF k

\* What PATCHes have read, after any transaction.
LEMMA AsReadStep ==
  ASSUME CatalogInv, TablesInv', NEW q \in Request, Step(q), Onward(q), RequestGoesOn(q), NEW p \in Request
  PROVE  AsRead(p)'
<1>1. CASE p # q
  BY <1>1, OthersAsRead DEF RequestGoesOn
<1>2. CASE p = q
  <2> SUFFICES ASSUME At(q, "save")', M(q)'.op = "patch", NEW r \in req'[q].seen
               PROVE  /\ r.id <= ids'[M(q)'.kind]
                      /\ \A s \in rows'[M(q)'.kind] : s.id = r.id => KeysOf(r, s)
    BY <1>2 DEF AsRead, KeysOf
  <2>1. M(q)' = M(q)
    BY DEF RequestGoesOn, M
  <2>2. rows' = rows /\ ids' = ids /\ r \in rows[M(q).kind]
    BY <2>1, ReadsAsIs DEF At
  <2>3. M(q).kind \in Kind
    BY RequestIs DEF CatalogInv
  <2>4. r.id <= ids[M(q).kind] /\ \A s \in rows[M(q).kind] : s.id = r.id => s = r
    BY <2>2, <2>3 DEF CatalogInv, TablesInv, Consistent, All
  <2> QED BY <2>1, <2>2, <2>4 DEF KeysOf
<1> QED BY <1>1, <1>2

-----------------------------------------------------------------------------
(* The invariant is one.                                                    *)

\* A transaction of a request keeps the invariant.
LEMMA StepKeeps ==
  ASSUME CatalogInv, NEW q \in Request, Step(q)
  PROVE  CatalogInv'
<1>1. TablesInv' /\ Onward(q) /\ (RefsKept \/ ProvisionSave(q))
  BY TablesStep
<1>2. RequestGoesOn(q)
  BY RequestStep
<1>3. FilesGoOn /\ (casts' = casts \/ ImageInUse(q))
  BY FilesStep
<1>4. \A p \in Request : Creates(p)'
  BY <1>1, <1>2, CreatesStep
<1>5. UsedImageHasTree'
  BY <1>1, <1>3, UsedStays
<1>6. casts' \subseteq Distro \X Request /\ \A c \in casts' : Deletes(c[2])'
  BY <1>2, <1>3, CastsStep
<1>7. FilesInv'
  BY <1>3, <1>5, <1>6 DEF FilesInv, FilesGoOn, Deletes
<1>8. ASSUME NEW p \in Request PROVE Answers(p)'
  <2>1. CASE p = q
    BY <1>2, <2>1 DEF RequestGoesOn
  <2>2. CASE p # q
    <3>1. req'[p] = req[p] /\ Answers(p)
      BY <1>2, <2>2 DEF RequestGoesOn, CatalogInv
    <3> QED BY <3>1 DEF Answers, Is, OnNodes, Bulky, Todo, M, Keys
  <2> QED BY <2>1, <2>2
<1>9. ASSUME NEW p \in Request PROVE Images(p)'
  <2>1. CASE p # q
    BY <1>1, <1>2, <1>3, <2>1, OthersImages DEF RequestGoesOn
  <2>2. CASE p = q /\ Is(q, "delete", "osimage")
    BY <1>1, <1>3, <2>2, DeleteImages
  <2>3. CASE p = q /\ Is(q, "provision", "node")
    BY <1>1, <1>3, <2>3, ProvisionImages
  <2>4. CASE p = q /\ ~ Is(q, "delete", "osimage") /\ ~ Is(q, "provision", "node")
    BY <1>2, <2>4 DEF RequestGoesOn, Images, Is, M
  <2> QED BY <2>1, <2>2, <2>3, <2>4
<1>10. \A p \in Request : AsRead(p)'
  BY <1>1, <1>2, AsReadStep
<1> QED BY <1>1, <1>2, <1>4, <1>7, <1>8, <1>9, <1>10 DEF CatalogInv, RequestGoesOn

\* And so does a message that arrives.
LEMMA MessageKeeps ==
  ASSUME CatalogInv, ConductorDestroys
  PROVE  CatalogInv'
<1>1. UNCHANGED tables /\ req' = req /\ casts' \subseteq casts
  BY DEF ConductorDestroys
<1>2. \A q : TablesInv' /\ Onward(q) /\ RefsKept
  BY <1>1, TablesStay DEF CatalogInv
<1>3. FilesGoOn
  BY FilesMessage
<1>4. /\ req' \in [Request -> ReqType]
      /\ \A p \in Request : Answers(p)' /\ Creates(p)' /\ AsRead(p)'
  <2>1. rows' = rows /\ gone' = gone /\ ids' = ids
    BY <1>1 DEF tables
  <2>2. \A p \in Request : Answers(p) /\ Creates(p) /\ AsRead(p)
    BY DEF CatalogInv
  <2>3. \A p \in Request : Answers(p)'
    BY <1>1, <2>2 DEF Answers, Is, OnNodes, Bulky, Todo, M, Keys
  <2>4. \A p \in Request : Creates(p)'
    BY <1>1, <2>1, <2>2 DEF Creates, Is, Bulky, Todo, M, Keys, Ids, Named, Made, WithNic, All
  <2>5. \A p \in Request : AsRead(p)'
    BY <1>1, <2>1, <2>2 DEF AsRead, At, M, KeysOf
  <2> QED BY <1>1, <2>3, <2>4, <2>5 DEF CatalogInv
<1>5. ASSUME NEW p \in Request PROVE Images(p)'
  <2>1. req'[p] = req[p]
    BY <1>1
  <2> QED BY <1>2, <1>3, <2>1, OthersImages
<1>6. UsedImageHasTree'
  <2> SUFFICES ASSUME NEW n \in rows'["node"], NEW r \in rows'["osimage"], n.ref = r.id
               PROVE  r.distro \in files' \union raced'
    BY DEF UsedImageHasTree
  <2>1. n \in rows["node"]
    BY <1>1 DEF tables
  <2> QED BY <1>2, <1>3, <2>1, TreesStay
<1>7. FilesInv'
  <2>1. casts \subseteq Distro \X Request /\ \A c \in casts : Deletes(c[2])
    BY DEF CatalogInv, FilesInv, Deletes
  <2>2. \A c \in casts' : Deletes(c[2])'
    BY <1>1, <2>1 DEF Deletes, Is, M
  <2>3. casts' \subseteq Distro \X Request
    BY <1>1, <2>1
  <2> QED BY <1>3, <1>6, <2>2, <2>3 DEF FilesInv, FilesGoOn, Deletes
<1> QED BY <1>2, <1>4, <1>5, <1>7 DEF CatalogInv

\* It holds at the start.
LEMMA InitHasIt ==
  ASSUME Init
  PROVE  CatalogInv
<1>1. /\ rows \in [Kind -> SUBSET Row] /\ Consistent(rows) /\ MaxId \in Nat
      /\ \A k \in Kind : \A r \in rows[k] : r.by = NoRequest /\ r.attrs = r.asked
      /\ \A r \in rows["osimage"] : r.distro \in Distro
      /\ NoRequest \notin Request /\ {"node", "nic", "osimage"} \subseteq Kind
  BY CatalogAssumption DEF Init, CatalogAssumption, Kind
<1>2. gone = [k \in Kind |-> {}] /\ files = {r.distro : r \in rows["osimage"]} /\ casts = {} /\ raced = {}
  BY DEF Init
<1>3. PICK menu \in [Request -> Menu] : req = [q \in Request |-> Idle(menu[q])]
  BY DEF Init
<1>4. \A k \in Kind : All(k) = rows[k]
  BY <1>2 DEF All
<1>5. ASSUME NEW k \in Kind PROVE ids[k] \in 0..MaxId /\ \A r \in rows[k] : r.id <= ids[k]
  <2> DEFINE S == {0} \union {r.id : r \in rows[k]}
  <2>1. \A r \in rows[k] : r.id \in 1..MaxId
    <3>1. \A r \in Row : r.id \in 1..MaxId
      BY DEF Row
    <3> QED BY <1>1, <3>1
  <2>2. S \in SUBSET (0..MaxId) /\ S # {} /\ \A r \in rows[k] : r.id \in S
    BY <1>1, <2>1
  <2>3. ids[k] = Max(S)
    BY DEF Init
  <2> HIDE DEF S
  <2>4. Max(S) \in S /\ \A y \in S : y <= Max(S)
    BY <1>1, <2>2, MaxIsIn
  <2> QED BY <2>2, <2>3, <2>4
<1>6. ids \in [Kind -> 0..MaxId]
  <2>1. ids = [k \in Kind |-> ids[k]]
    BY DEF Init
  <2> QED BY <1>5, <2>1
<1>7. TablesInv
  <2>1. gone \in [Kind -> SUBSET Row] /\ \A k \in Kind : IsFiniteSet(gone[k])
    BY <1>2, FS_EmptySet
  <2>2. NoLostUpdate
    BY <1>1 DEF NoLostUpdate
  <2> QED BY <1>1, <1>4, <1>5, <1>6, <2>1, <2>2 DEF TablesInv
<1>8. ASSUME NEW q \in Request
      PROVE  /\ req[q] \in ReqType /\ req[q].phase = "idle" /\ req[q].seen = {} /\ req[q].held = {}
             /\ req[q].ok = {} /\ req[q].failed = {}
  <2>1. req[q] = Idle(menu[q]) /\ menu[q] \in Menu
    BY <1>3
  <2> QED BY <2>1 DEF Idle, ReqType, Phases
<1>9. req \in [Request -> ReqType]
  <2>1. req = [q \in Request |-> req[q]]
    BY <1>3
  <2> QED BY <1>8, <2>1
<1>10. ASSUME NEW q \in Request PROVE Answers(q) /\ Creates(q) /\ Images(q) /\ AsRead(q)
  <2>1. Answers(q)
    BY <1>8, FS_EmptySet DEF Answers
  <2>2. \A n \in rows["node"] : n.by # q
    BY <1>1
  <2>3. Made(q) = {}
    BY <1>1, <1>4, <2>2 DEF Made
  <2>4. Cardinality(Made(q)) >= Cardinality(req[q].ok)
    <3>1. Cardinality({}) = 0
      BY FS_EmptySet
    <3>2. Made(q) = {} /\ req[q].ok = {}
      BY <1>8, <2>3
    <3> QED BY <3>1, <3>2
  <2>5. Creates(q)
    BY <1>8, <2>2, <2>4 DEF Creates
  <2>6. Images(q)
    BY <1>8 DEF Images
  <2>7. AsRead(q)
    BY <1>8 DEF AsRead, At
  <2> QED BY <2>1, <2>5, <2>6, <2>7
<1>11. FilesInv
  BY <1>1, <1>2 DEF FilesInv, UsedImageHasTree
<1> QED BY <1>7, <1>9, <1>10, <1>11 DEF CatalogInv

\* And when nothing happens.
LEMMA StutterKeeps ==
  ASSUME CatalogInv, UNCHANGED vars
  PROVE  CatalogInv'
<1>1. /\ UNCHANGED tables /\ req' = req /\ files' = files /\ casts' = casts /\ raced' = raced
      /\ rows' = rows /\ gone' = gone
  BY DEF vars, tables, fileVars
<1>2. \A q : TablesInv'
  BY <1>1, TablesStay DEF CatalogInv
<1>3. FilesInv'
  BY <1>1 DEF CatalogInv, FilesInv, UsedImageHasTree, Is, M
<1>4. \A p \in Request : Answers(p) /\ Creates(p) /\ Images(p) /\ AsRead(p)
  BY DEF CatalogInv
<1>5. \A p \in Request : Answers(p)'
  BY <1>1, <1>4 DEF Answers, Is, OnNodes, Bulky, Todo, M, Keys
<1>6. \A p \in Request : Creates(p)'
  BY <1>1, <1>4 DEF Creates, Is, Bulky, Todo, M, Keys, Ids, Named, Made, WithNic, All
<1>7. \A p \in Request : Images(p)'
  <2>1. ids' = ids
    BY DEF vars, tables
  <2> QED BY <1>1, <1>4, <2>1 DEF Images, Is, M, WasRead, DistrosOf
<1>8. \A p \in Request : AsRead(p)'
  <2>1. ids' = ids
    BY DEF vars, tables
  <2> QED BY <1>1, <1>4, <2>1 DEF AsRead, At, M, KeysOf
<1> QED BY <1>1, <1>2, <1>3, <1>5, <1>6, <1>7, <1>8 DEF CatalogInv

\* The inductive invariant holds in every reachable state, for any requests.
THEOREM CatalogInvariant == Spec => []CatalogInv
<1>1. Init => CatalogInv
  BY InitHasIt
<1>2. CatalogInv /\ [Next]_vars => CatalogInv'
  BY StepKeeps, MessageKeeps, StutterKeeps DEF Next
<1> QED BY <1>1, <1>2, PTL DEF Spec

\* The constraints of the database hold whatever requests do between each
\* other's transactions, and every request answers once for each of its names.
THEOREM TypeCorrect == Spec => []TypeOK
<1>1. CatalogInv => TypeOK
  <2> SUFFICES ASSUME CatalogInv PROVE TypeOK
    OBVIOUS
  <2>1. \A k \in Kind : rows[k] \subseteq Row /\ ids[k] \in 0..MaxId
    BY DEF CatalogInv, TablesInv
  <2>2. /\ files \subseteq Distro /\ casts \subseteq Distro \X Request /\ raced \subseteq Distro /\ Consistent(rows)
    BY DEF CatalogInv, TablesInv, FilesInv
  <2>3. ASSUME NEW q \in Request
        PROVE  /\ req[q].ok \intersect req[q].failed = {}
               /\ req[q].phase = "done" => req[q].ok \union req[q].failed = req[q].m.keys
    BY DEF CatalogInv, Answers, M
  <2> QED BY <2>1, <2>2, <2>3 DEF TypeOK
<1> QED BY <1>1, CatalogInvariant, PTL

\* No PATCH and no provision undoes what another one wrote to a plain column; a
\* key of a JSON column is lost only where two PATCHes of that column overlapped.
THEOREM NothingIsLost == Spec => []NoLostUpdate
<1>1. CatalogInv => NoLostUpdate
  BY DEF CatalogInv, TablesInv
<1> QED BY <1>1, CatalogInvariant, PTL

\* What a POST of nodes answers ok for was inserted with its nics.
THEOREM PostsAreWhole == Spec => []CreatedIsWhole
<1>1. CatalogInv => CreatedIsWhole
  <2> SUFFICES ASSUME CatalogInv, NEW q \in Request, Is(q, "post", "node"), At(q, "done")
      PROVE  LET mine(kind) == {r \in rows[kind] \union gone[kind] : r.by = q}
             IN  /\ Cardinality(mine("node")) >= Cardinality(req[q].ok)
                 /\ \A r \in mine("node") \intersect rows["node"] :
                        r.key \in req[q].ok /\ ~ r.renamed => \E n \in mine("nic") : n.ref = r.id
    BY DEF CreatedIsWhole
  <2> DEFINE mine(kind) == {r \in rows[kind] \union gone[kind] : r.by = q}
  <2>1. /\ Cardinality(Made(q)) >= Cardinality(req[q].ok)
        /\ \A n \in rows["node"] : Named(n, q, req[q].ok) => n.id \in WithNic(q)
    <3>1. Creates(q) /\ req[q].phase = "done"
      BY DEF CatalogInv, At
    <3> QED BY <3>1 DEF Creates, Named
  <2>2. Cardinality(mine("node")) >= Cardinality(req[q].ok)
    <3> DEFINE S == mine("node")
               f == [r \in S |-> r.id]
    <3>1. S \in SUBSET All("node") /\ IsFiniteSet(All("node"))
      BY RowsAreFinite DEF All, CatalogInv, Kind
    <3>2. IsFiniteSet(S)
      BY <3>1, FS_Subset
    <3>3. f \in Surjection(S, Made(q))
      BY DEF Surjection, Made, All
    <3> HIDE DEF f, S
    <3>4. IsFiniteSet(Made(q)) /\ Cardinality(Made(q)) <= Cardinality(S)
      BY <3>2, <3>3, FS_Surjection
    <3>5. Cardinality(S) \in Nat /\ Cardinality(Made(q)) \in Nat /\ Cardinality(req[q].ok) \in Nat
      BY <3>2, <3>4, FS_CardinalityType, CountsAre
    <3>6. Cardinality(S) >= Cardinality(req[q].ok)
      BY <2>1, <3>4, <3>5
    <3> QED BY <3>6 DEF S
  <2>3. ASSUME NEW r \in mine("node") \intersect rows["node"], r.key \in req[q].ok, ~ r.renamed
        PROVE  \E n \in mine("nic") : n.ref = r.id
    <3>1. r.id \in WithNic(q)
      BY <2>1, <2>3 DEF Named
    <3> QED BY <3>1 DEF WithNic, All
  <2> QED BY <2>2, <2>3
<1> QED BY <1>1, CatalogInvariant, PTL

\* The files of an image stay while a node has it, but for a race that is named.
THEOREM UsedImagesKeepTrees == Spec => []UsedImageHasTree
<1>1. CatalogInv => UsedImageHasTree
  BY DEF CatalogInv, FilesInv
<1> QED BY <1>1, CatalogInvariant, PTL

=============================================================================
