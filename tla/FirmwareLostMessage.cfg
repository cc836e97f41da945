SPECIFICATION Spec
CONSTANTS
    Input = {"$", "1", "0"}
    ReadMax = 3
    DISP = 4
    WIN = 2
    HEX_DELAY = 2
    MaxBytes = 4
INVARIANTS
    EveryMessageObeyed
