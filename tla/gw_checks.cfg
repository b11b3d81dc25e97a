\* The gateway feed with two producers, a dispatcher and the control thread.
CONSTANTS
    Producers = {p1, p2}
    Lens = {1, 2}
    Cap = 6
    MaxMsgs = 3
    LoadFailures <- MCLoadFailures
    Dispatcher = Dispatcher
    NULL = NULL
SPECIFICATION FairSpec
INVARIANT TypeOK
INVARIANT FeedIntact
INVARIANT WholeLines
PROPERTY SentLineHanded
PROPERTY SendReturns
CHECK_DEADLOCK FALSE
