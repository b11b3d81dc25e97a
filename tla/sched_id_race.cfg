\* Two threads of one plugin arm timers at once: g_next_id++ hands out one id twice, and a cancel by that id stops the other timer.
CONSTANTS
    Clients = {c1}
    Sched = Sched
    Main = Main
    Plugins = {p1}
    Delays = {0, 1}
    TimeMod = 8
    MaxTime = 2
    MaxTimers = 3
    CallbackActs <- ReentrantCallbacks
    NoThread = NoThread
SPECIFICATION Spec
INVARIANT CancelStopsTimer
CHECK_DEADLOCK FALSE
