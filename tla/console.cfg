SPECIFICATION Spec
CONSTANTS
    UINT = 256
    SCREEN_WIDTH = 6
    SCREEN_HEIGHT = 3
    BYTE = 5
    CLOCK_X = 4
    CLOCK_Y = 1
    CLOCK_LEN = 2
    KEYS = 2
    Prints <- MCPrints
INVARIANTS TypeOK GlyphsAtMostOneOff ClockKeepsToItsColumns HardwareCursorFollows
PROPERTIES PrintkRenders PrintingEnds
