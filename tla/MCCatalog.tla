------------------------------ MODULE MCCatalog ------------------------------
(* Instances of Catalog: three requests over tables of two nodes.           *)
EXTENDS Catalog, TLC

CONSTANTS q1, q2, q3, n1, n2, n3, n4, m1, m2, m3, net, key, img, img2, d1, d2, d3

\* d1 is as it should be, no class knows d2, and netboot does not know d3.
MCIso == [d \in Distro |->
    CASE d = d1 -> [file |-> ".disk/info", product |-> "ubuntu", arch |-> "ppc64le", kernel |-> TRUE]
      [] d = d2 -> [file |-> ".discinfo", product |-> "other", arch |-> "x86_64", kernel |-> TRUE]
      [] d = d3 -> [file |-> ".discinfo", product |-> "redhat", arch |-> "other", kernel |-> TRUE]]

\* n3 and n4 are to be posted with the same mac.
MCMacOf == [k \in Key |-> CASE k = n1 -> m1 [] k = n2 -> m2 [] OTHER -> m3]

On(op, kind, keys) == [op |-> op, kind |-> kind, keys |-> keys, field |-> "a",
                       value |-> "new", newkey |-> NoKey, distro |-> NoDistro]
Set(kind, keys, field, value) ==
    [On("patch", kind, keys) EXCEPT !.field = field, !.value = value]
Rename(kind, name, newkey) ==
    [On("patch", kind, {name}) EXCEPT !.field = "key", !.newkey = newkey]
Of(m, distro) == [m EXCEPT !.distro = distro]
To(m, newkey) == [m EXCEPT !.newkey = newkey]

MCMenu ==
    \* nodes and nics
    {On("post", "node", {n1}), On("post", "node", {n1, n2}), On("post", "node", {n1, n3}),
     On("post", "node", {n3, n4}),
     On("delete", "node", {n1}), On("delete", "node", {n1, n2}),
     Set("node", {n1, n2}, "a", "none"), Set("node", {n1}, "a", "new"),
     Set("node", {n1, n2}, "c", "new"), Set("node", {n1}, "b", "old"), Rename("node", n1, n3),
     To(On("provision", "node", {n1}), img), To(On("provision", "node", {n1, n2}), img),
     To(On("post", "nic", {m1}), n2), On("delete", "nic", {m2}), Set("nic", {m2}, "a", "new"),
     Set("nic", {m2}, "c", "none")}
    \* images
    \union {Of(On("post", "osimage", {img}), d1), On("delete", "osimage", {img}),
            Of(On("copycd", "osimage", {img2}), d1), Of(On("copycd", "osimage", {img2}), d2),
            Of(On("copycd", "osimage", {img2}), d3), Rename("osimage", img, img2)}
    \* networks and passwords
    \union {On("post", "network", {net}), On("delete", "network", {net}),
            Set("network", {net}, "a", "new"), Set("network", {net}, "c", "none"),
            Set("network", {net}, "b", "none"),
            Rename("network", net, n3), On("post", "passwd", {key}),
            On("delete", "passwd", {key}), Set("passwd", {key}, "b", "new")}

Old(id, name, ref, distro) == NewRow(id, name, ref, distro, NoRequest)
Bare(r) == [r EXCEPT !.attrs["a"] = "none", !.asked["a"] = "none"]

\* All there is, with n2 on the image; or n2 alone.
MCInitial ==
    {[node |-> {Old(1, n1, 0, NoDistro), Bare(Old(2, n2, 1, NoDistro))},
      nic |-> {Old(1, m1, 1, NoDistro), Old(2, m2, 2, NoDistro)},
      network |-> {Old(1, net, 0, NoDistro)}, passwd |-> {Old(1, key, 0, NoDistro)},
      osimage |-> {Old(1, img, 0, d1)}],
     [node |-> {Old(1, n2, 0, NoDistro)}, nic |-> {Old(1, m2, 1, NoDistro)},
      network |-> {}, passwd |-> {}, osimage |-> {}]}

Symmetric == Permutations(Request)
=============================================================================
