SPECIFICATION Spec
CONSTANTS
    idle = idle
    main = main
    t1 = t1
    t2 = t2
    ev = ev
    Threads <- FourThreads
    Idle = idle
    Main = main
    Queues = {ev}
    IrqQueues = {}
    InitPrio <- MCPrio
    Prios = {}
    Durations = {2}
    Ops <- ThreadOps
    PREEMPT = FALSE
    CLASS = "rr"
    PromptSwitch = TRUE
    MaxEc = 1
INVARIANTS TypeOK QueuesSound JoinersReleased StacksSound
