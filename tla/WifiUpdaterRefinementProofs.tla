-------------------- MODULE WifiUpdaterRefinementProofs --------------------
(***************************************************************************)
(* Proof that WifiUpdater implements the safety part of the phase machine *)
(* WifiUpdateOutcome under the refinement mapping of                      *)
(* WifiUpdaterRefinement, for every value of the constants.               *)
(***************************************************************************)
EXTENDS WifiUpdaterRefinement, WifiUpdaterProofs

(* The phases of update() before run_flash_tool has returned.             *)
BeforeFlashResult == {"connect", "probe", "prepare", "flash", "flashing",
                      "draining"}

(* What the mapping needs besides the types: flash_success keeps its      *)
(* initial FALSE until run_flash_tool returns, and verify_update is only  *)
(* reached after a successful flash.                                      *)
RInv ==
    /\ TypeOK
    /\ pc \in BeforeFlashResult => flash_success = FALSE
    /\ pc = "verify" => flash_success

LEMMA RInvInit == Init => RInv
<1> SUFFICES ASSUME Init PROVE RInv
  OBVIOUS
<1>1. TypeOK
  BY TypeInit
<1>2. QED
  BY <1>1 DEF Init, RInv, BeforeFlashResult

LEMMA RInvStep == RInv /\ [Next]_vars => RInv'
<1> SUFFICES ASSUME RInv, [Next]_vars PROVE RInv'
  OBVIOUS
<1>. USE DEF RInv, BeforeFlashResult, Return
<1>0. TypeOK'
  BY TypeStep
<1>1. CASE FirstConnect
  BY <1>0, <1>1 DEF FirstConnect
<1>2. CASE CheckCurrentVersion
  BY <1>0, <1>2 DEF CheckCurrentVersion
<1>3. CASE PrepareForUpdate
  BY <1>0, <1>3 DEF PrepareForUpdate
<1>4. CASE RunFlashTool
  BY <1>0, <1>4 DEF RunFlashTool
<1>5. CASE ToolExit
  BY <1>0, <1>5 DEF ToolExit
<1>6. CASE FlashToolReturns
  BY <1>0, <1>6 DEF FlashToolReturns
<1>7. CASE FlashTimeout
  BY <1>0, <1>7 DEF FlashTimeout
<1>8. CASE TimeoutReturns
  BY <1>0, <1>8 DEF TimeoutReturns
<1>9. CASE Reconnect
  BY <1>0, <1>9 DEF Reconnect
<1>10. CASE RestoreNormalOperation
  BY <1>0, <1>10 DEF RestoreNormalOperation
<1>11. CASE VerifyUpdate
  BY <1>0, <1>11 DEF VerifyUpdate
<1>12. CASE EmergencyRestore
  BY <1>0, <1>12 DEF EmergencyRestore
<1>13. CASE Interrupt
  BY <1>0, <1>13 DEF Interrupt
<1>14. CASE Terminated \/ UNCHANGED vars
  BY <1>0, <1>14, Zenon DEF Terminated, vars
<1>15. QED
  BY <1>1, <1>2, <1>3, <1>4, <1>5, <1>6, <1>7, <1>8, <1>9, <1>10,
     <1>11, <1>12, <1>13, <1>14 DEF Next, Updater

(* The initial state of update() is the Probe phase with no outcome.      *)
LEMMA InitMaps == Init => Abs!AbsInit
  BY DEF Init, Abs!AbsInit, phaseBar, outcomeBar

(* Every step of the code is a step of the phase machine or a stutter of  *)
(* its phase, flash result and outcome.                                   *)
LEMMA StepMaps == RInv /\ [Next]_vars => [Abs!AbsNext]_Abs!avars
<1> SUFFICES ASSUME RInv, [Next]_vars PROVE [Abs!AbsNext]_Abs!avars
  OBVIOUS
<1>. USE DEF RInv, BeforeFlashResult, Return, phaseBar, outcomeBar,
             Abs!AbsNext, Abs!avars, Abs!Finish
<1>1. CASE FirstConnect
  BY <1>1 DEF FirstConnect, Abs!Probe
<1>2. CASE CheckCurrentVersion
  BY <1>2 DEF CheckCurrentVersion, Abs!Probe
<1>3. CASE PrepareForUpdate
  BY <1>3 DEF PrepareForUpdate, Abs!Prepare
<1>4. CASE RunFlashTool
  BY <1>4 DEF RunFlashTool, Abs!Flash
<1>5. CASE ToolExit
  BY <1>5 DEF ToolExit
<1>6. CASE FlashToolReturns
  BY <1>6 DEF FlashToolReturns, Abs!Flash
<1>7. CASE FlashTimeout
  BY <1>7 DEF FlashTimeout
<1>8. CASE TimeoutReturns
  BY <1>8 DEF TimeoutReturns, Abs!Flash
<1>9. CASE Reconnect
  BY <1>9 DEF Reconnect, Abs!Restore
<1>10. CASE RestoreNormalOperation
  BY <1>10 DEF RestoreNormalOperation, Abs!Restore
<1>11. CASE VerifyUpdate
  BY <1>11 DEF VerifyUpdate, Abs!Verify
<1>12. CASE EmergencyRestore
  BY <1>12 DEF EmergencyRestore
<1>13. CASE Interrupt
  <2>1. pc \notin {"done", "emergency"} /\ pc' = "done" /\ ret' = "Interrupted"
        /\ UNCHANGED flash_success
    BY <1>13 DEF Interrupt
  <2>2. phaseBar # "Done" /\ phaseBar' = "Done" /\ outcomeBar' = "Interrupted"
    BY <2>1 DEF TypeOK, Phases
  <2>3. QED
    BY <2>1, <2>2, Zenon DEF Abs!Interrupted
<1>14. CASE Terminated \/ UNCHANGED vars
  BY <1>14 DEF Terminated, vars
<1>15. QED
  BY <1>1, <1>2, <1>3, <1>4, <1>5, <1>6, <1>7, <1>8, <1>9, <1>10,
     <1>11, <1>12, <1>13, <1>14 DEF Next, Updater

(* update() implements the safety part of the phase machine of spec 4.4, *)
(* the handling of a verify exception as RestoreFailed included, for     *)
(* every value of the constants; the fairness part (every phase ends) is *)
(* the liveness that only the TLC runs check.                            *)
THEOREM Refinement == Spec => Abs!AbsSafety
<1>1. Spec => []RInv
  BY RInvInit, RInvStep, PTL DEF Spec
<1>2. QED
  BY <1>1, InitMaps, StepMaps, PTL DEF Spec, Abs!AbsSafety

=============================================================================
