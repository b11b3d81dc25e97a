\* Queue integrity and payload ownership with callbacks that return, fault,
\* publish and subscribe.
CONSTANTS
    Workers = {w1, w2}
    Clients = {c1}
    Main = Main
    Plugins = {p1, p2}
    Events = {e1}
    MaxTasks = 2
    MaxPayloads = 4
    MaxSubs = 2
    CallbackActs <- ReentrantCallbacks
    NoThread = NoThread
SPECIFICATION Spec
SYMMETRY WorkerSymmetry
INVARIANT TypeOK
INVARIANT QueueMatchesLog
INVARIANT PayloadOwnership
CHECK_DEADLOCK FALSE
