CONSTANTS
    Null = Null
    Work = {1, 2}
    Batches <- MCBatches
    Windows <- MCWindows
    MaxBatches = 4
    MaxWindows = 2
SPECIFICATION Spec
INVARIANT WindowsStayInside
CHECK_DEADLOCK FALSE
