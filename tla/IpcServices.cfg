SPECIFICATION IpcSpec
CONSTANTS
    idle = idle
    main = main
    t1 = t1
    t2 = t2
    irqt = irqt
    mtx = mtx
    cnd = cnd
    sm = sm
    iq = iq
    xq = xq
    null = null
    m1 = m1
    m2 = m2
    Threads <- AllThreads
    Idle = idle
    Main = main
    Queues = {mtx, cnd, sm, iq, xq}
    IrqQueues = {}
    InitPrio <- MCPrio
    Prios = {}
    Durations = {2}
    Ops <- IpcOps
    PREEMPT = FALSE
    CLASS = "rr"
    PromptSwitch = TRUE
    MaxEc = 1
    mutex = mtx
    NULL = null
    MaxDepth = 1
    cond = cnd
    sem = sm
    ithread = irqt
    SemValue = 1
    ipm = iq
    Messages = {m1, m2}
    NumMsgs = 2
    xfer = xq
    Transfers <- MCTransfers
    Lengths = {1, 2}
    BusTmo = 2
    BusRetries = 2
    FastBus = TRUE
    Services = {"cond", "sem", "ipm", "i2c", "spi", "usart", "irq"}
INVARIANTS SemNoIdleUnit CondNoLostSignal IpmNoStrandedReader InsideBuffers OkMeansEnded BusyClears IrqServed
SYMMETRY IpcSymmetry
PROPERTY ImplementsFifo
