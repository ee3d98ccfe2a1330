\* Reliable link, no Ctrl-C: an exception inside verify_update().
CONSTANTS
    LossyLink = FALSE
    Interruptible = FALSE
    FirmwareVersion <- MCTarget
    InstalledVersion <- MCOlder
SPECIFICATION SpecToolEnds
PROPERTIES
    RestoreFailedOnlyMidRestore
