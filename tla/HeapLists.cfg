SPECIFICATION Spec
CONSTANTS
    Blocks <- MCBlocks
    Requests = {1, 3, 5}
    Alignments = {4}
    Fits = {"best", "first", "worst"}
    SIZEOF_NODE = 4
    HEAP_OVERHEAD = 2
    MM_GUARD_BYTES = 0
    SIZE_LIMIT = 65536
    Reallocs = TRUE
INVARIANTS NoByteLost Coalesced FitAsPromised
