\* Reliable link, no Ctrl-C: an exception inside prepare_for_update().
CONSTANTS
    LossyLink = FALSE
    Interruptible = FALSE
    FirmwareVersion <- MCTarget
    InstalledVersion <- MCOlder
SPECIFICATION SpecToolEnds
INVARIANTS
    NeverStranded
