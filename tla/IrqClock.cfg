SPECIFICATION PartSpec
CONSTANTS
    ALT_NIRQ = 3
    MaxCalls = 1
    Nesting = 2
    Levels = 4
    Alarm = {a1, a2, a3}
    alt_alarm_list = alt_alarm_list
    None = None
    Delay = {0, 1}
    Period = {0, 1}
    WORD = 2
    MaxTicks = 3
INVARIANTS
    IrqInv
    SearchEnds
    PriorityKept
    ClockInv
    TornOnlyAtWrap
PROPERTIES
    HighestServed
    TicksEnd
