\* Ctrl-C possible, lossy link: every test may pass, fail or raise, and a
\* StopStreamData may be dropped.
CONSTANTS
    Interruptible = TRUE
    LossyLink = TRUE
SPECIFICATION VSpec
INVARIANTS
    TypeOK
    VerdictSound
