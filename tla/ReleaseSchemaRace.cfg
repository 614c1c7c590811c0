SPECIFICATION Spec
CONSTANTS
    r1 = r1
    r2 = r2
    Rows <- MCRows
    Lossy <- DockerCommands
    Migrates <- Always
    MaxFaults = 0
    MaxRollbacks = 1
SYMMETRY Symmetric
INVARIANT
    PredecessorOnItsSchema
CHECK_DEADLOCK FALSE
