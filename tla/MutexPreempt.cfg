SPECIFICATION MSpec
CONSTANTS
    idle = idle
    main = main
    t1 = t1
    t2 = t2
    mtx = mtx
    ev = ev
    null = null
    Threads <- FourThreads
    Idle = idle
    Main = main
    Queues = {mtx}
    IrqQueues = {}
    InitPrio <- MCPrio
    Prios = {}
    Durations = {2}
    Ops <- LiveOps
    PREEMPT = TRUE
    CLASS = "rr"
    PromptSwitch = TRUE
    MaxEc = 1
    mutex = mtx
    NULL = null
    MaxDepth = 2
INVARIANTS Undisturbed HolderOwns PreemptBalanced NoStrandedWaiter
PROPERTY ImplementsLock
