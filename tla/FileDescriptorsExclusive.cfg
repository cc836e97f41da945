SPECIFICATION Spec
CONSTANTS
    ALT_MAX_FD = 5
    null = null
    uart = uart
    spi = spi
    fs = fs
    dev = dev
    file = file
    None = None
    alt_dev_null = null
    Device <- Devices
    Filesystem = {fs}
    BootDevices <- TwoDevices
    BootFilesystems <- OneFilesystem
    NameOf <- Names
    Provides <- Callbacks
    StdDevice <- Stdio
    Name <- Opened
    OpenFlags <- Modes
    SetFlags <- Settings
    Status = {"ok", "EIO"}
INVARIANTS
    LockIsExclusive
