SPECIFICATION Spec
CONSTANTS
    q1 = q1
    q2 = q2
    q3 = q3
    n1 = n1
    n2 = n2
    n3 = n3
    n4 = n4
    m1 = m1
    m2 = m2
    m3 = m3
    net = net
    key = key
    img = img
    img2 = img2
    d1 = d1
    d2 = d2
    d3 = d3
    NoRequest = NoRequest
    NoDistro = NoDistro
    NoKey = NoKey
    Request = {q1, q2, q3}
    Key = {n1, n2, n3, n4, m1, m2, m3, net, key, img, img2}
    Distro = {d1, d2, d3}
    Iso <- MCIso
    Menu <- MCMenu
    MacOf <- MCMacOf
    Initial <- MCInitial
    BulkSize = 2
    MaxId = 8
SYMMETRY Symmetric
INVARIANTS TypeOK NoLostUpdate CreatedIsWhole UsedImageHasTree
CHECK_DEADLOCK FALSE
