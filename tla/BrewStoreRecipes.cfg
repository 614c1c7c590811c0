SPECIFICATION Spec
CONSTANTS
    b1 = b1
    b2 = b2
    i1 = i1
    a1 = a1
    a2 = a2
    k1 = k1
    s1 = s1
    f1 = f1
    f2 = f2
    x1 = x1
    q1 = q1
    q2 = q2
    None = None
    Recipes = {r1, r2, r3}
    Brews = {b1}
    Devices = {d1}
    Clients = {c1}
    Keys <- MCKeys
    Contents <- MCContents
    Calls <- MCNoCalls
    MaxRevision = 3
    MaxEvents = 2
    MaxAnnotations = 0
SYMMETRY Symmetry
INVARIANTS
    TypeOK
    NoLostUpdate
    SnapshotIsARevision
    ForkedOnce
CHECK_DEADLOCK FALSE
