SPECIFICATION Spec
CONSTANTS
    r1 = r1
    r2 = r2
    Rows <- MCRows
    Lossy <- DockerCommands
    Migrates <- Either
    MaxFaults = 3
    MaxRollbacks = 2
SYMMETRY Symmetric
INVARIANTS
    TypeOK
    OneServer
    RowsAreKept
    IngressIsTheCandidates
    StuckForAReason
PROPERTY
    ReceiptsAreTrue
CHECK_DEADLOCK FALSE
