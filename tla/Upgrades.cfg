SPECIFICATION UpgradeSpec
CONSTANTS
    d1 = d1
    d2 = d2
    c1 = c1
    s1 = s1
    u1 = u1
    w1 = w1
    w2 = w2
    k1 = k1
    k2 = k2
    k3 = k3
    k4 = k4
    None = None
    NoJob = NoJob
    NoKey = NoKey
    Devices = {d1, d2}
    Readers = {r1}
    Curves = {c1}
    Legacy = {}
    MaxCalibrations = 2
    Urls = {u1}
    Contents = {w1, w2}
    Jobs = {j1}
    Statuses = {unreviewed, usable}
    Unreviewed = unreviewed
    MaxDocuments = 3
    Samples = {s1}
    Ingredients = {1, 2}
    Keys = {k1, k2, k3, k4}
    Installations <- MCInstallations
    MaxStops = 2
INVARIANTS
    VersionsAreEarned
    ServedIsWhole
    CalibrationsHold
    EvidenceResolves
    LatestIsShown
PROPERTY
    UpgradeEnds
CHECK_DEADLOCK FALSE
