SPECIFICATION NoHostSpec
CONSTANTS
    a = a
    b = b
    Nul = Nul
    Char = {a}
    DEFAULT_TIMEOUT = 2
    INT_MAX = 5
    FifoDepth = 2
    Threshold = 1
    BUF_LEN = 3
    Messages <- Lines
    Spaces = {1}
    HostChar = {}
    Timeouts = {}
PROPERTIES
    AbsenceNoticed
CHECK_DEADLOCK FALSE
