SPECIFICATION FairSpec
CONSTANTS
    MAX_SIZE = 3
    LINE_SIZE = 3
    Codes <- MCCodes
INVARIANTS
    TypeOK
    NoSpuriousChar
    CommandIsLine
PROPERTIES
    FifoDelivery
    KeysAreRead
