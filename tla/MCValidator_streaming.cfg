\* No Ctrl-C, reliable link: an exception inside test_streaming alone.
CONSTANTS
    Interruptible = FALSE
    LossyLink = FALSE
SPECIFICATION VSpec
INVARIANTS
    StreamingStoppedAtExit
