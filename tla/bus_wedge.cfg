\* Callbacks that call back into the bus while the queue is full wedge the pool.
CONSTANTS
    Workers = {w1, w2}
    Clients = {c1}
    Main = Main
    Plugins = {p1, p2}
    Events = {e1}
    MaxTasks = 1
    MaxPayloads = 4
    MaxSubs = 2
    CallbackActs <- ReentrantCallbacks
    NoThread = NoThread
SPECIFICATION Spec
INVARIANT NoDeliveryDeadlock
CHECK_DEADLOCK FALSE
