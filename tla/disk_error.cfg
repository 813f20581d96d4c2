SPECIFICATION Spec
CONSTANTS
    Ports <- MCPorts
    PRIMARY = "1F0"
    Drives <- MCDrives
    Packet <- MCPacket
    Sectors = {1, 20, 70}
    NIBBLE = 4
    MAX_ADDRESSABLE = 63
    WORDS = 3
    MODEL_WORDS = 2
PROPERTY ErrorEndsCall
