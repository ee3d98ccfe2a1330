------------------------- MODULE WifiUpdaterProofs -------------------------
(***************************************************************************)
(* Proofs about WifiUpdater, for every value of LossyLink and            *)
(* Interruptible and, where DistinctVersions is assumed, for every pair   *)
(* of version strings of which the old one does not contain the target. *)
(***************************************************************************)
EXTENDS WifiUpdater, TLAPS

(* The phases in which the programmer has not been started yet, and the  *)
(* ones after subprocess.run has returned.                                *)
BeforeFlash == {"connect", "probe", "prepare", "flash"}
AfterFlash  == {"reconnect", "restore", "verify", "emergency"}

(* The strengthening of SuccessIsReal that is inductive: update() has     *)
(* returned exactly when ret is set; the programmer is not running before *)
(* it is started nor once subprocess.run has returned (on Windows the     *)
(* drain after a timeout waits for it); a successful return is taken with *)
(* the programmer stopped, so ToolExit can no longer change the firmware. *)
IInv ==
    /\ TypeOK
    /\ (pc = "done") <=> (ret # "none")
    /\ pc \in BeforeFlash => tool = "idle"
    /\ pc \in AfterFlash => tool # "running"
    /\ ret \in Success => /\ tool # "running"
                          /\ wifiFw = "target"
                          /\ mode = "normal"

(* The strengthening of StrandedOnlyOnLoudFailure on a reliable link: the *)
(* board is in normal mode before the prepare script, once the restore    *)
(* script's SetTransparentMode 0 has gone through, and when verifying; a  *)
(* return with the board in transparent mode is a loud failure.           *)
JInv ==
    /\ TypeOK
    /\ pc \in {"connect", "probe"} => mode = "normal"
    /\ (pc = "restore" /\ cmd > 1) => mode = "normal"
    /\ pc = "verify" => mode = "normal"
    /\ (pc = "done" /\ mode = "update") => ret \in LoudFailures

-----------------------------------------------------------------------------
(* The initial states are well typed.                                    *)
LEMMA TypeInit == Init => TypeOK
<1> SUFFICES ASSUME Init PROVE TypeOK
  OBVIOUS
<1>1. pc \in Phases /\ ret \in Returns \cup {"none"} /\ cmd \in 1..3
  BY DEF Init, Phases, Returns
<1>2. tool_path \in BOOLEAN /\ flash_success \in BOOLEAN
  BY Zenon DEF Init
<1>3. QED
  BY <1>1, <1>2 DEF Init, TypeOK

(* One step of Next keeps every variable in its type: the script index    *)
(* stays in 1..3 because both scripts have three commands and the index  *)
(* grows only below the last one.                                        *)
LEMMA TypeStep == TypeOK /\ [Next]_vars => TypeOK'
<1> SUFFICES ASSUME TypeOK, [Next]_vars PROVE TypeOK'
  OBVIOUS
<1>. USE DEF TypeOK, Phases, Returns, Return
<1>1. CASE FirstConnect
  BY <1>1 DEF FirstConnect
<1>2. CASE CheckCurrentVersion
  BY <1>2 DEF CheckCurrentVersion
<1>3. CASE PrepareForUpdate
  BY <1>3 DEF PrepareForUpdate, PrepareScript, ModeAfter
<1>4. CASE RunFlashTool
  BY <1>4 DEF RunFlashTool
<1>5. CASE ToolExit
  BY <1>5 DEF ToolExit
<1>6. CASE FlashToolReturns
  BY <1>6 DEF FlashToolReturns
<1>7. CASE FlashTimeout
  BY <1>7 DEF FlashTimeout
<1>8. CASE TimeoutReturns
  BY <1>8 DEF TimeoutReturns
<1>9. CASE Reconnect
  BY <1>9 DEF Reconnect
<1>10. CASE RestoreNormalOperation
  BY <1>10 DEF RestoreNormalOperation, RestoreScript, ModeAfter
<1>11. CASE VerifyUpdate
  BY <1>11 DEF VerifyUpdate
<1>12. CASE EmergencyRestore
  BY <1>12 DEF EmergencyRestore, ModeAfter
<1>13. CASE Interrupt
  BY <1>13 DEF Interrupt
<1>14. CASE Terminated \/ UNCHANGED vars
  BY <1>14 DEF Terminated, vars
<1>15. QED
  BY <1>1, <1>2, <1>3, <1>4, <1>5, <1>6, <1>7, <1>8, <1>9, <1>10,
     <1>11, <1>12, <1>13, <1>14 DEF Next, Updater

(* Type correctness of the whole specification.                          *)
THEOREM TypeCorrect == Spec => []TypeOK
<1>1. QED
  BY TypeInit, TypeStep, PTL DEF Spec

(* IInv holds initially.                                                  *)
LEMMA IInvInit == Init => IInv
<1> SUFFICES ASSUME Init PROVE IInv
  OBVIOUS
<1>1. TypeOK
  BY TypeInit
<1>2. QED
  BY <1>1 DEF Init, IInv, BeforeFlash, Success

(* A GETChipInfo? reply the code accepts comes from the target firmware  *)
(* on a board in normal mode, when the old firmware's version string does *)
(* not contain the target's.                                              *)
LEMMA AcceptedIsTarget ==
    ASSUME DistinctVersions, TypeOK, NEW o, ChipInfoMatches(o)
    PROVE  wifiFw = "target" /\ mode = "normal"
<1>1. wifiFw \in {"old", "target"}
  BY DEF ChipInfoMatches, TypeOK
<1>2. wifiFw # "old"
  BY DEF ChipInfoMatches, ChipInfoVersion, DistinctVersions
<1>3. QED
  BY <1>1, <1>2 DEF ChipInfoMatches

(* Every step keeps IInv. The steps that matter: CheckCurrentVersion and  *)
(* VerifyUpdate return True only when ChipInfoMatches, which reads the    *)
(* target firmware and normal mode, with the programmer idle or exited;   *)
(* ToolExit is disabled once a successful return is taken; the returns of *)
(* subprocess.run need an exited programmer.                              *)
LEMMA IInvStep ==
    ASSUME DistinctVersions PROVE IInv /\ [Next]_vars => IInv'
<1> SUFFICES ASSUME IInv, [Next]_vars PROVE IInv'
  OBVIOUS
<1>. USE DEF IInv, BeforeFlash, AfterFlash, Success, Return
<1>0. TypeOK'
  BY TypeStep
<1>1. CASE FirstConnect
  BY <1>0, <1>1 DEF FirstConnect, TypeOK
<1>2. CASE CheckCurrentVersion
  <2>1. PICK o \in Outcomes :
          IF ChipInfoMatches(o)
          THEN ser' = "closed" /\ Return("AlreadyCurrent") /\ UNCHANGED cmd
          ELSE pc' = "prepare" /\ cmd' = 1 /\ UNCHANGED <<ser, ret>>
    BY <1>2 DEF CheckCurrentVersion
  <2>2. CASE ChipInfoMatches(o)
    BY <1>0, <1>2, <2>1, <2>2, AcceptedIsTarget DEF CheckCurrentVersion, TypeOK
  <2>3. CASE ~ChipInfoMatches(o)
    BY <1>0, <1>2, <2>1, <2>3 DEF CheckCurrentVersion, TypeOK
  <2>4. QED
    BY <2>2, <2>3
<1>3. CASE PrepareForUpdate
  BY <1>0, <1>3 DEF PrepareForUpdate, TypeOK
<1>4. CASE RunFlashTool
  BY <1>0, <1>4 DEF RunFlashTool, TypeOK
<1>5. CASE ToolExit
  BY <1>0, <1>5 DEF ToolExit, TypeOK
<1>6. CASE FlashToolReturns
  BY <1>0, <1>6 DEF FlashToolReturns, TypeOK
<1>7. CASE FlashTimeout
  BY <1>0, <1>7 DEF FlashTimeout, TypeOK
<1>8. CASE TimeoutReturns
  BY <1>0, <1>8 DEF TimeoutReturns, TypeOK
<1>9. CASE Reconnect
  BY <1>0, <1>9 DEF Reconnect, TypeOK
<1>10. CASE RestoreNormalOperation
  BY <1>0, <1>10 DEF RestoreNormalOperation, TypeOK
<1>11. CASE VerifyUpdate
  <2>1. PICK o \in Outcomes :
          IF o.raised
          THEN pc' = "emergency" /\ UNCHANGED <<ser, ret>>
          ELSE /\ ser' = "closed"
               /\ Return(IF ChipInfoMatches(o) THEN "Verified" ELSE "FlashFailed")
    BY <1>11 DEF VerifyUpdate
  <2>2. CASE ChipInfoMatches(o)
    BY <1>0, <1>11, <2>1, <2>2, AcceptedIsTarget DEF VerifyUpdate, ChipInfoMatches, TypeOK
  <2>3. CASE ~ChipInfoMatches(o)
    BY <1>0, <1>11, <2>1, <2>3 DEF VerifyUpdate, TypeOK
  <2>4. QED
    BY <2>2, <2>3
<1>12. CASE EmergencyRestore
  BY <1>0, <1>12 DEF EmergencyRestore, TypeOK
<1>13. CASE Interrupt
  BY <1>0, <1>13 DEF Interrupt, TypeOK
<1>14. CASE Terminated \/ UNCHANGED vars
  BY <1>14 DEF Terminated, vars, TypeOK
<1>15. QED
  BY <1>1, <1>2, <1>3, <1>4, <1>5, <1>6, <1>7, <1>8, <1>9, <1>10,
     <1>11, <1>12, <1>13, <1>14 DEF Next, Updater

(* When update() returns True, the WiFi module runs the target firmware  *)
(* and the board is in normal mode, over a lossy link or not, with or    *)
(* without Ctrl-C, whenever the old firmware's version string does not    *)
(* contain the target's: the property the core and lossy runs check, and *)
(* the substring run shows violated without that assumption.             *)
THEOREM SuccessIsRealThm ==
    ASSUME DistinctVersions PROVE Spec => []SuccessIsReal
<1>1. IInv => SuccessIsReal
  BY DEF IInv, SuccessIsReal
<1>2. QED
  BY IInvInit, IInvStep, <1>1, PTL DEF Spec

(* On a reliable link a send_command that returns has been processed.     *)
LEMMA ReliableOutcome ==
    ASSUME ~LossyLink, NEW o \in Outcomes, ~o.raised
    PROVE  o.applied
  BY Zenon DEF Outcomes

(* JInv holds initially.                                                  *)
LEMMA JInvInit == Init => JInv
<1> SUFFICES ASSUME Init PROVE JInv
  OBVIOUS
<1>1. TypeOK
  BY TypeInit
<1>2. QED
  BY <1>1 DEF Init, JInv

(* On a reliable link every step keeps JInv. The step that matters is the *)
(* first command of the restore script: when its send_command returns,    *)
(* SetTransparentMode 0 was processed and the board is in normal mode,    *)
(* which LAN:ENabled and APPLY do not change up to the FlashFailed return *)
(* or the verify step.                                                    *)
LEMMA JInvStep ==
    ASSUME ~LossyLink
    PROVE  JInv /\ [Next]_vars => JInv'
<1> SUFFICES ASSUME JInv, [Next]_vars PROVE JInv'
  OBVIOUS
<1>. USE DEF JInv, LoudFailures, Return
<1>0. TypeOK'
  BY TypeStep
<1>1. CASE FirstConnect
  BY <1>0, <1>1 DEF FirstConnect, TypeOK
<1>2. CASE CheckCurrentVersion
  BY <1>0, <1>2 DEF CheckCurrentVersion, TypeOK
<1>3. CASE PrepareForUpdate
  BY <1>0, <1>3 DEF PrepareForUpdate, TypeOK
<1>4. CASE RunFlashTool
  BY <1>0, <1>4 DEF RunFlashTool, TypeOK
<1>5. CASE ToolExit
  BY <1>0, <1>5 DEF ToolExit, TypeOK
<1>6. CASE FlashToolReturns
  BY <1>0, <1>6 DEF FlashToolReturns, TypeOK
<1>7. CASE FlashTimeout
  BY <1>0, <1>7 DEF FlashTimeout, TypeOK
<1>8. CASE TimeoutReturns
  BY <1>0, <1>8 DEF TimeoutReturns, TypeOK
<1>9. CASE Reconnect
  BY <1>0, <1>9 DEF Reconnect, TypeOK
<1>10. CASE RestoreNormalOperation
  <2>1. PICK o \in Outcomes :
          /\ mode' = IF o.applied THEN ModeAfter(RestoreScript[cmd], mode)
                                  ELSE mode
          /\ IF o.raised
             THEN pc' = "emergency" /\ UNCHANGED <<cmd, ser, ret>>
             ELSE IF cmd < Len(RestoreScript)
             THEN cmd' = cmd + 1 /\ UNCHANGED <<pc, ser, ret>>
             ELSE IF flash_success
             THEN pc' = "verify" /\ UNCHANGED <<cmd, ser, ret>>
             ELSE ser' = "closed" /\ Return("FlashFailed") /\ UNCHANGED cmd
    BY <1>10 DEF RestoreNormalOperation
  <2>2. pc = "restore"
    BY <1>10 DEF RestoreNormalOperation
  <2>3. CASE o.raised
    BY <1>0, <2>1, <2>3 DEF TypeOK
  <2>4. CASE ~o.raised /\ cmd = 1
    <3>1. o.applied
      BY <2>4, ReliableOutcome
    <3>2. mode' = "normal"
      BY <2>1, <2>4, <3>1 DEF RestoreScript, ModeAfter
    <3>3. pc' = "restore" /\ cmd' = 2
      BY <2>1, <2>2, <2>4 DEF RestoreScript
    <3>4. QED
      BY <1>0, <3>2, <3>3 DEF TypeOK
  <2>5. CASE ~o.raised /\ cmd # 1
    <3>1. mode = "normal"
      BY <2>2, <2>5 DEF TypeOK
    <3>2. mode' = "normal"
      BY <2>1, <2>5, <3>1 DEF TypeOK, RestoreScript, ModeAfter
    <3>3. QED
      BY <1>0, <2>1, <2>2, <2>5, <3>2 DEF TypeOK, RestoreScript
  <2>6. QED
    BY <2>3, <2>4, <2>5
<1>11. CASE VerifyUpdate
  BY <1>0, <1>11 DEF VerifyUpdate, TypeOK
<1>12. CASE EmergencyRestore
  BY <1>0, <1>12 DEF EmergencyRestore, TypeOK
<1>13. CASE Interrupt
  BY <1>0, <1>13 DEF Interrupt, TypeOK
<1>14. CASE Terminated \/ UNCHANGED vars
  BY <1>14 DEF Terminated, vars, TypeOK
<1>15. QED
  BY <1>1, <1>2, <1>3, <1>4, <1>5, <1>6, <1>7, <1>8, <1>9, <1>10,
     <1>11, <1>12, <1>13, <1>14 DEF Next, Updater

(* On a link that processes every line send_command writes, update()     *)
(* leaves the board in transparent mode only after a loud failure: never *)
(* after True, after the first connect failing, or after the "device     *)
(* restored to normal mode" report of a failed flash. The core run checks *)
(* this with Ctrl-C enabled; the lossy-restore run shows the assumption   *)
(* is needed.                                                             *)
THEOREM StrandedOnlyOnLoudFailureThm ==
    ASSUME ~LossyLink
    PROVE  Spec => []StrandedOnlyOnLoudFailure
<1>1. JInv => StrandedOnlyOnLoudFailure
  BY DEF JInv, StrandedOnlyOnLoudFailure
<1>2. QED
  BY JInvInit, JInvStep, <1>1, PTL DEF Spec


-----------------------------------------------------------------------------
(* The strengthening of PortDiscipline that is inductive: the programmer  *)
(* has not been started while update() may still open the port for the    *)
(* first time, so FirstConnect never opens it under a running programmer. *)
PInv ==
    /\ TypeOK
    /\ PortDiscipline
    /\ pc \in BeforeFlash => tool = "idle"

LEMMA PInvInit == Init => PInv
<1> SUFFICES ASSUME Init PROVE PInv
  OBVIOUS
<1>1. TypeOK
  BY TypeInit
<1>2. QED
  BY <1>1 DEF Init, PInv, PortDiscipline, SendPhases, BeforeFlash

(* Every step keeps PInv: the port is opened only by the first connect,   *)
(* before the programmer exists, and by the reconnect, which Windows      *)
(* refuses while the programmer holds the port; run_flash_tool starts the *)
(* programmer only after disconnect().                                   *)
LEMMA PInvStep == PInv /\ [Next]_vars => PInv'
<1> SUFFICES ASSUME PInv, [Next]_vars PROVE PInv'
  OBVIOUS
<1>. USE DEF PInv, PortDiscipline, SendPhases, BeforeFlash, Return
<1>0. TypeOK'
  BY TypeStep
<1>1. CASE FirstConnect
  BY <1>0, <1>1 DEF FirstConnect
<1>2. CASE CheckCurrentVersion
  BY <1>0, <1>2 DEF CheckCurrentVersion
<1>3. CASE PrepareForUpdate
  BY <1>0, <1>3 DEF PrepareForUpdate
<1>4. CASE RunFlashTool
  BY <1>0, <1>4 DEF RunFlashTool
<1>5. CASE ToolExit
  BY <1>0, <1>5 DEF ToolExit
<1>6. CASE FlashToolReturns
  BY <1>0, <1>6 DEF FlashToolReturns
<1>7. CASE FlashTimeout
  BY <1>0, <1>7 DEF FlashTimeout
<1>8. CASE TimeoutReturns
  BY <1>0, <1>8 DEF TimeoutReturns
<1>9. CASE Reconnect
  BY <1>0, <1>9 DEF Reconnect
<1>10. CASE RestoreNormalOperation
  BY <1>0, <1>10 DEF RestoreNormalOperation
<1>11. CASE VerifyUpdate
  BY <1>0, <1>11 DEF VerifyUpdate
<1>12. CASE EmergencyRestore
  BY <1>0, <1>12 DEF EmergencyRestore
<1>13. CASE Interrupt
  BY <1>0, <1>13 DEF Interrupt
<1>14. CASE Terminated \/ UNCHANGED vars
  BY <1>0, <1>14 DEF Terminated, vars
<1>15. QED
  BY <1>1, <1>2, <1>3, <1>4, <1>5, <1>6, <1>7, <1>8, <1>9, <1>10,
     <1>11, <1>12, <1>13, <1>14 DEF Next, Updater

(* update() sends only over an open port and has closed it whenever the  *)
(* flash programmer runs, for every value of the constants, a lossy link *)
(* and Ctrl-C included: the property the core run of MCWifiUpdater       *)
(* checks.                                                                *)
THEOREM PortDisciplineThm == Spec => []PortDiscipline
<1>1. PInv => PortDiscipline
  BY DEF PInv
<1>2. QED
  BY PInvInit, PInvStep, <1>1, PTL DEF Spec

=============================================================================
