SPECIFICATION FairPagingSpec
CONSTANTS
    BLOCK_SIZE = 4
    BLOCKS_PER_BYTE = 4
    WORD = 8
    LIMIT = 128
    UINT = 128
    MEMMAP_AREA = 20
    KERNEL_BASE = 28
    KERNEL_SIZE = 4
    Machines <- MCMachines
    Garbage <- MCGarbage
    Requests = {1, 3}
    PAGES_PER_TABLE = 13
    TABLES_PER_DIRECTORY = 4
    HIGHER_HALF = 3
    STACK = 4
    LEAKS = 1
    ClientPages <- MCClientPages
INVARIANTS PagingTypeOK FramesExclusive TlbCoherent NoFrameLost
PROPERTIES FaultResolves NestedFaultFatal
CHECK_DEADLOCK FALSE
