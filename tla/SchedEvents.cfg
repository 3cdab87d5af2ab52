SPECIFICATION Spec
CONSTANTS
    idle = idle
    main = main
    t1 = t1
    t2 = t2
    ev = ev
    Threads <- FourThreads
    Idle = idle
    Main = main
    Queues = {ev}
    IrqQueues = {ev}
    InitPrio <- MCPrio
    Prios = {}
    Durations = {2,3}
    Ops <- EventOps
    PREEMPT = FALSE
    CLASS = "fifo"
    PromptSwitch = TRUE
    MaxEc = 2
INVARIANT QueuesSound
PROPERTY EventsKept
