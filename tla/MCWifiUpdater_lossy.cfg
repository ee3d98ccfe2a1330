\* Lossy link: the device may drop a line that send_command wrote.
CONSTANTS
    LossyLink = TRUE
    Interruptible = FALSE
    FirmwareVersion <- MCTarget
    InstalledVersion <- MCOlder
SPECIFICATION SpecToolEnds
INVARIANTS
    SuccessIsReal
