CONSTANTS
    Null = Null
    Work = {1, 2}
    Batches <- MCBatches
    Windows <- MCWindows
    MaxBatches = 4
    MaxWindows = 2
SPECIFICATION Spec
INVARIANTS TagsOnlyDivide RidersAddNoTime WindowsMoveWorkOnly SplitLosesNothing
CHECK_DEADLOCK FALSE
