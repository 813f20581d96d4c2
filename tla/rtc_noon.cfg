SPECIFICATION Spec
CONSTANTS
    VECTORS = 20
    PIC_REMAP_OFFSET = 4
    PAGE_FAULT = 3
    Chips <- MCNoonChips
    HERTZ = 1
    UPDATES = 0
    UPTIME = 0
    UINT = 5
    FREQUENCY = 1
    SECOND = 2
    Durations = {1}
    Machines <- MCMachines
    BUSES = 2
    DEVICES = 2
    FUNCTIONS = 3
    NO_VENDOR <- MCNoVendor
    FLOATING = "ones"
INVARIANT HourWasShown
