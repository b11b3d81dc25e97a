\* Every stored task is delivered and freed, also across bus_shutdown, with
\* callbacks that return or fault.  The system may stop: once the host has
\* shut the bus down, or while no plugin thread calls in.
CONSTANTS
    Workers = {w1, w2}
    Clients = {c1}
    Main = Main
    Plugins = {p1, p2}
    Events = {e1}
    MaxTasks = 2
    MaxPayloads = 3
    MaxSubs = 2
    CallbackActs <- SafeCallbacks
    NoThread = NoThread
SPECIFICATION FairSpec
PROPERTY EveryTaskDelivered
CHECK_DEADLOCK FALSE
