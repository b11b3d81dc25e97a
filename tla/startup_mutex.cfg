CONSTANTS
    NW = 2
    MaxTasks = 3
    SizeMod = 8
    PreTasks = 0
    MaxPub = 2
    NULL = NULL
SPECIFICATION Spec
INVARIANT DeliveredAtMostOnce
CHECK_DEADLOCK FALSE
