SPECIFICATION Spec
CONSTANTS
    VECTORS = 20
    PIC_REMAP_OFFSET = 4
    PAGE_FAULT = 3
    Chips <- MCChips
    HERTZ = 1
    UPDATES = 1
    UPTIME = 1
    UINT = 5
    FREQUENCY = 1
    SECOND = 2
    Durations = {1, 4}
    Machines <- MCMachines
    BUSES = 2
    DEVICES = 2
    FUNCTIONS = 3
    NO_VENDOR <- MCNoVendor
    FLOATING = "ones"
INVARIANTS HalTypeOK VectorsHandled ClockNeverStuck PublishedWasShown SleptAllButATick PciListed
PROPERTY NoteEnds
