\* Reliable link, no Ctrl-C; the old firmware reports 19.7.70, whose
\* string contains the default target 19.7.7.
CONSTANTS
    LossyLink = FALSE
    Interruptible = FALSE
    FirmwareVersion <- MCTarget
    InstalledVersion <- MCContaining
SPECIFICATION SpecToolEnds
INVARIANTS
    SuccessIsReal
