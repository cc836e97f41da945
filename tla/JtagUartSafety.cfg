SPECIFICATION SceneSpec
CONSTANTS
    a = a
    b = b
    Nul = Nul
    DEFAULT_TIMEOUT = 2
    Char = {a, b}
    INT_MAX = 5
    FifoDepth = 2
    Threshold = 1
    BUF_LEN = 3
    Messages <- FewMessages
    Spaces = {0, 1, 2}
    HostChar = {a, b}
    Timeouts = {0}
INVARIANTS
    WriterOwnsSlots
    ReaderOwnsSlots
    NoTxOverflow
    NeverMeansNever
    TxKicked
    RxRearmed
PROPERTIES
    ChannelSafety
    OwnEnableOnly
