------------------------ MODULE WifiUpdaterRefinement ------------------------
(***************************************************************************)
(* WifiUpdater implements WifiUpdateOutcome. The refinement mapping reads *)
(* the phase of spec 4.4 off update()'s position: the first connect is    *)
(* part of Probe, the whole of run_flash_tool (the Windows drain after a  *)
(* timeout included) is Flash, and the second connect starts Reconnect &  *)
(* Restore. Entering the exception handler of lines 366-377 already      *)
(* decides the outcome RestoreFailed; its emergency send is a stutter.    *)
(***************************************************************************)
EXTENDS WifiUpdater

phaseBar ==
    IF pc \in {"connect", "probe"} THEN "Probe"
    ELSE IF pc = "prepare" THEN "Prepare"
    ELSE IF pc \in {"flash", "flashing", "draining"} THEN "Flash"
    ELSE IF pc \in {"reconnect", "restore"} THEN "Restore"
    ELSE IF pc = "verify" THEN "Verify"
    ELSE "Done"

outcomeBar ==
    IF pc = "done" THEN ret
    ELSE IF pc = "emergency" THEN "RestoreFailed"
    ELSE "none"

Abs == INSTANCE WifiUpdateOutcome
         WITH phase <- phaseBar, flashOk <- flash_success, outcome <- outcomeBar

(* update() implements the phase machine of spec 4.4: every step of the   *)
(* code is a phase transition the spec allows, or leaves phase, flash     *)
(* result and outcome alone; and, when the programmer exits, the phases   *)
(* reach their end.                                                       *)
RefinesOutcome == Abs!AbsSpec

=============================================================================
