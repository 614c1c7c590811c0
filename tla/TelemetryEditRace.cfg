SPECIFICATION Spec
CONSTANTS
    d1 = d1
    e1 = e1
    m1 = m1
    a = a
    b = b
    n1 = n1
    n2 = n2
    n3 = n3
    None = None
    Devices = {d1}
    Events = {e1}
    Instants = {m1}
    Readings = {a, b}
    Values = {n1, n2, n3}
    Payloads <- MCReports
    Changes <- MCChanges
    Editors = {x1, x2}
    Horizon = 0
    MaxTime = 0
    MaxSamples = 1
INVARIANTS
    OverridesAsAsked
