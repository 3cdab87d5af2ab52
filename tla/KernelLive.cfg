SPECIFICATION MFairSpec
CONSTANTS
    idle = idle
    main = main
    t1 = t1
    t2 = t2
    mtx = mtx
    ev = ev
    null = null
    Threads <- ThreeThreads
    Idle = idle
    Main = main
    Queues = {mtx, ev}
    IrqQueues = {ev}
    InitPrio <- MCPrio
    Prios = {}
    Durations = {2}
    Ops <- MutexOps
    PREEMPT = FALSE
    CLASS = "rr"
    PromptSwitch = TRUE
    MaxEc = 1
    mutex = mtx
    NULL = null
    MaxDepth = 1
PROPERTIES IrqEventDelivered SleeperWakes ReadyRuns KillQueueDrains WaiterWoken
