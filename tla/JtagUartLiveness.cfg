SPECIFICATION LiveSpec
CONSTANTS
    a = a
    b = b
    Nul = Nul
    DEFAULT_TIMEOUT = 2
    Char = {a}
    INT_MAX = 5
    FifoDepth = 2
    Threshold = 1
    BUF_LEN = 3
    Messages <- Lines
    Spaces = {0, 2}
    HostChar = {a}
    Timeouts = {}
PROPERTIES
    CallsReturn
    IsrReturns
    RxFlows
    Delivery
