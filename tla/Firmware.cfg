SPECIFICATION FairSpec
CONSTANTS
    Input = {"$", "t", "~", "1", "+"}
    ReadMax = 3
    DISP = 4
    WIN = 2
    HEX_DELAY = 2
    MaxBytes = 4
INVARIANTS
    FirmwareInv
    OnlyNewSamples
    ScrollKeepsText
PROPERTIES
    ScoreHeld
    LedsRefreshed
    TextShown
