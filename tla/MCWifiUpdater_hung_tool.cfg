\* Reliable link, no Ctrl-C, and no assumption that the programmer exits.
CONSTANTS
    LossyLink = FALSE
    Interruptible = FALSE
    FirmwareVersion <- MCTarget
    InstalledVersion <- MCOlder
SPECIFICATION Spec
PROPERTIES
    Termination
