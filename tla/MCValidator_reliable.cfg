\* Ctrl-C possible, the device processes every line written to it.
CONSTANTS
    Interruptible = TRUE
    LossyLink = FALSE
SPECIFICATION VSpec
INVARIANTS
    PassLeavesStreamingOff
