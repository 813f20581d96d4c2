SPECIFICATION Spec
CONSTANTS
    BLOCK_SIZE = 4
    BLOCKS_PER_BYTE = 4
    WORD = 4
    LIMIT = 128
    UINT = 128
    MEMMAP_AREA = 8
    KERNEL_BASE = 28
    KERNEL_SIZE = 8
    Machines <- MCMachines
    Garbage <- MCGarbage
    Requests = {1}
INVARIANTS
    TypeOK
    NoDoubleAllocation
    ReservedStaysUsed
    OnlyAvailableMemory
