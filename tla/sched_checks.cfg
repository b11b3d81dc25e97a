\* Timer ownership, due-order firing, no early fire, and every due timer
\* eventually fired or cancelled, with callbacks that fault and that arm
\* and cancel timers, racing a plugin thread and shutdown.  The system may
\* stop: after shutdown, or when no plugin calls.
CONSTANTS
    Clients = {c1}
    Sched = Sched
    Main = Main
    Plugins = {p1}
    Delays = {0, 1}
    TimeMod = 8
    MaxTime = 2
    MaxTimers = 2
    CallbackActs <- ReentrantCallbacks
    NoThread = NoThread
SPECIFICATION FairSpec
INVARIANT TypeOK
INVARIANT TimerOwnership
PROPERTY FiresInDueOrder
PROPERTY DueTimerFires
CHECK_DEADLOCK FALSE
