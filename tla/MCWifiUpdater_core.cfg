\* Reliable link (a written command is processed), Ctrl-C possible.
CONSTANTS
    LossyLink = FALSE
    Interruptible = TRUE
    FirmwareVersion <- MCTarget
    InstalledVersion <- MCOlder
SPECIFICATION SpecToolEnds
INVARIANTS
    TypeOK
    StrandedOnlyOnLoudFailure
    SuccessIsReal
    PortDiscipline
PROPERTIES
    Termination
    RestoreFollowsFlash
    RefinesOutcome
