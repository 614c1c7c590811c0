SPECIFICATION Spec
CONSTANTS
    b1 = b1
    b2 = b2
    i1 = i1
    a1 = a1
    a2 = a2
    k1 = k1
    s1 = s1
    f1 = f1
    f2 = f2
    x1 = x1
    q1 = q1
    q2 = q2
    None = None
    Recipes = {r1}
    Brews = {b1, b2}
    Devices = {d1}
    Clients = {}
    Keys <- MCKeys
    Contents <- OnePlain
    Calls <- MCCalls
    MaxRevision = 1
    MaxEvents = 4
    MaxAnnotations = 3
INVARIANTS
    OneActiveBrew
    OneOutcomePerAddition
    RetriesAgree
    EvidenceIsFinal
    AnnotationsLinear
PROPERTIES
    ImplementsLedger
CHECK_DEADLOCK FALSE
