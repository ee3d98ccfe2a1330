\* Reliable link, Ctrl-C possible.
CONSTANTS
    LossyLink = FALSE
    Interruptible = TRUE
    FirmwareVersion <- MCTarget
    InstalledVersion <- MCOlder
SPECIFICATION SpecToolEnds
INVARIANTS
    InterruptRestores
