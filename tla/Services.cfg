SPECIFICATION PartSpec
CONSTANTS
    WORD = 3
    Reset = 1
    PERIODL = 2
    MaxChip = 2
    MaxSamples = 3
    ALT_US = 12
    Rates = {2, 3, 5}
    Seconds = {0, 2}
    Micros = {0, 6}
    MaxNticks = 12
    HeapStart = 1
    HeapLimit = 20
    ALIGN = 2
    MCOUNT_SLAB_INCREMENT = 6
    RecordSize = 4
    Increments = {1, 3}
    PCSAMPLE_BYTES_PER_BUCKET = 2
    TextSize = 3
    FIR_FILTER_COEFF_NUM = 3
    Width = 6
    Fraction = 4
    easy <- EasyTaps
    hard <- HardTaps
    Data <- Samples
    LongBits = 6
    DigitBits = 2
    Lines <- Printables
    Ahead = 2
    W = 4
    Junk = 9
    Situations <- Cases
    Selves = {f, g}
    Sites = {s, t}
    MaxMcounts = 5
    Devices = {"timer0", "jtag_uart"}
    Words = {"data", "more"}
CHECK_DEADLOCK FALSE
INVARIANTS
    TsInv
    SaInv
    TodInv
    HeapInv
    LineIsSample
    ExcInv
    ProfInv
    BootInv
PROPERTIES
    SamplesKeepComing
    TwoTaps
