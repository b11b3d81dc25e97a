\* A worker whose callbacks fault reports into the critical-error queue
\* while the consumer thread drains it.
CONSTANTS
    Signals = {SIGSEGV, SIGFPE}
    Depths <- MCDepths
    RawBufferSize = 512
    CtxSize = 24
    MaxTasks = 4
    Width = 2
    Size = 3
    NULL = NULL
SPECIFICATION Spec
PROPERTY QueueDrains
PROPERTY ReportCompletes
CHECK_DEADLOCK FALSE
