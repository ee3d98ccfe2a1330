\* No Ctrl-C; the device may drop the StopStreamData test 6 writes.
CONSTANTS
    Interruptible = FALSE
    LossyLink = TRUE
SPECIFICATION VSpec
INVARIANTS
    PassLeavesStreamingOff
