\* plugin_init loading three candidates whose schemas fill the property
\* store, the lifecycle operations after it, plugins writing their structs
\* and the gateway reading and writing them as text.
CONSTANTS
    Dirs <- MCDirs
    MaxOps = 3
    Schema <- MCSchema
    TypeNames = {"cfg", "state"}
    Layout <- MCLayout
    Kind <- MCKind
    MaxTypes = 2
    Ints = {0, 1}
    Chars = {"a"}
    Strs <- MCStrs
    NUL = NUL
    NULL = NULL
    MaxHkOps = 2
SPECIFICATION Spec
INVARIANTS TypeOK StartedOnlyIfInitialized LoadedTypesResolvable
CHECK_DEADLOCK FALSE
