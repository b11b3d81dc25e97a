\* A store whose instances the gateway reads and writes back as text.
CONSTANTS
    Pids = {1}
    TypeNames = {"cfg", "state"}
    Layout <- MCLayout
    Kind <- MCKind
    MaxTypes = 2
    Ints = {0, 1}
    Chars = {"a", ";"}
    Strs <- MCStrs
    NUL = NUL
    NULL = NULL
    MaxHkOps = 3
SPECIFICATION Spec
INVARIANT MirrorStable
CHECK_DEADLOCK FALSE
