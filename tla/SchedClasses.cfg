SPECIFICATION ClassesSpec
CONSTANTS
    Threads = {idle, a, b, c}
    Idle = idle
    Prios = {1, 22}
    Configs <- Kernels
    IdleDelay = 100000
    Steps = {11}
    MaxTick = 22
    MaxCreated = 3
SYMMETRY Symmetry
INVARIANT TicketsSound
PROPERTY EdfInTime
