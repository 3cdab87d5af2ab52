SPECIFICATION Spec
CONSTANTS
    idle = idle
    main = main
    t1 = t1
    t2 = t2
    ev = ev
    Threads <- ThreeThreads
    Idle = idle
    Main = main
    Queues = {ev}
    IrqQueues = {ev}
    InitPrio <- MCPrio
    Prios = {3}
    Durations = {2,3}
    Ops <- PreemptOps
    PREEMPT = TRUE
    CLASS = "rr"
    PromptSwitch = TRUE
    MaxEc = 1
INVARIANT QueuesSound
