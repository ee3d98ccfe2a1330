\* Lossy link, no Ctrl-C: a restore command the device never processed.
CONSTANTS
    LossyLink = TRUE
    Interruptible = FALSE
    FirmwareVersion <- MCTarget
    InstalledVersion <- MCOlder
SPECIFICATION SpecToolEnds
INVARIANTS
    RestoredWhenReported
