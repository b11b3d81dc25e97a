CONSTANTS
    Width = 2
    Size = 3
    MaxErrors = 4
    NULL = NULL
SPECIFICATION Spec
INVARIANT ErrorNeverLost
CHECK_DEADLOCK FALSE
