SPECIFICATION Spec
CONSTANTS
    r1 = r1
    r2 = r2
    Rows <- MCRows
    Lossy <- SeedCommands
    Migrates <- Never
    MaxFaults = 1
    MaxRollbacks = 1
SYMMETRY Symmetric
INVARIANT
    RowsAreKept
CHECK_DEADLOCK FALSE
