---------------------------- MODULE WifiUpdater ----------------------------
(***************************************************************************)
(* WiFiFirmwareUpdater.update() of                                         *)
(* src/firmware/utilities/update_wifi_firmware.py: the procedure that puts *)
(* the DAQiFi board into WINC1500 update (USB transparent) mode, runs      *)
(* winc_flash_tool.cmd over the same COM port, reconnects and restores     *)
(* normal operation.                                                       *)
(*                                                                         *)
(* Three actors share the COM port:                                        *)
(*   - the updater (one Python thread, every step below but ToolExit);     *)
(*   - the device, whose reaction to a command is given by ModeAfter;      *)
(*   - the flash tool's programmer process, which keeps running after      *)
(*     subprocess.run kills its cmd.exe shell on a timeout or a Ctrl-C.   *)
(* Serial I/O is abstracted to the outcome of one send_command call: it   *)
(* raised or returned, and the device applied the command or not.          *)
(***************************************************************************)
EXTENDS Naturals, Sequences
LOCAL INSTANCE SequencesExt

CONSTANTS
    LossyLink,      \* a written command may be dropped by the device
    Interruptible,  \* the operator may press Ctrl-C (KeyboardInterrupt)
    FirmwareVersion,  \* --firmware-version (default '19.7.7'), as characters
    InstalledVersion  \* the version the module's old firmware reports

ASSUME LinkAssumption == LossyLink \in BOOLEAN /\ Interruptible \in BOOLEAN

(* Version strings are sequences of the characters a version is made of.  *)
VersionChars == {"0", "1", "2", "3", "4", "5", "6", "7", "8", "9", "."}

ASSUME VersionAssumption ==
    /\ FirmwareVersion \in Seq(VersionChars) \ {<<>>}
    /\ InstalledVersion \in Seq(VersionChars)

VARIABLES
    pc,             \* where update() is
    cmd,            \* index of the next command of a SCPI script
    ser,            \* self.ser: "open" or "closed"
    mode,           \* device: "normal" or "update" (USB transparent mode)
    wifiFw,         \* WINC1500 firmware: "old", "target" or "erased"
    tool,           \* programmer process: "idle", "running", "ok", "fail"
    tool_path,      \* find_winc_tool() / --tool-path found an existing file
    flash_success,  \* the value run_flash_tool() returned
    ret             \* which return of update() was taken, "none" before

vars == <<pc, cmd, ser, mode, wifiFw, tool, tool_path, flash_success, ret>>

-----------------------------------------------------------------------------
(* The SCPI scripts of prepare_for_update and restore_normal_operation.   *)
PrepareScript == <<"POW1", "FWUPDATE", "APPLY">>
RestoreScript == <<"TM0", "LAN1", "APPLY">>

Phases == {"connect", "probe", "prepare", "flash", "flashing", "draining",
           "reconnect", "restore", "verify", "emergency", "done"}

(* The returns of update(): False at lines 317, 338, 353, 375, the two    *)
(* values of `verified` at 387, True at 327, and a KeyboardInterrupt that *)
(* escapes update() because every handler catches only Exception.         *)
Returns == {"ConnectFailed", "AlreadyCurrent", "PrepareFailed",
            "ReconnectFailed", "RestoreFailed", "FlashFailed", "Verified",
            "Interrupted"}

(* update() returns True, and the process exits 0, on these.              *)
Success == {"AlreadyCurrent", "Verified"}

(* The outcome of one send_command: `raised` when reset_input_buffer,     *)
(* write or read threw; `applied` when the device received and processed *)
(* the line. A call that returns normally wrote the line; over a lossy   *)
(* link the device may still drop it (the response is never checked).    *)
Outcomes == { o \in [raised : BOOLEAN, applied : BOOLEAN] :
                 o.raised \/ o.applied \/ LossyLink }

(* The device's operating mode after it processes command c.              *)
ModeAfter(c, m) == CASE c = "FWUPDATE" -> "update"
                     [] c = "TM0"      -> "normal"
                     [] OTHER          -> m

(* Python's `t in s` on strings: t is a contiguous piece of s.           *)
VersionIn(t, s) == t \in SubSeqs(s)

(* The version in the GETChipInfo? reply of a module that is not erased:  *)
(* the flashed image reports the version it was built as.                 *)
ChipInfoVersion == IF wifiFw = "target" THEN FirmwareVersion
                                       ELSE InstalledVersion

(* No version the old firmware reports contains the target's string.      *)
DistinctVersions == ~VersionIn(FirmwareVersion, InstalledVersion)

(* The device answers SYSTem:COMMunicate:LAN:GETChipInfo? with its chip   *)
(* info only when its command processor is active (normal mode); an       *)
(* erased module gives an error reply. The code then accepts the reply    *)
(* when self.firmware_version is a substring of it (lines 298 and 227).   *)
(* Mutant: the version test on the reply is dropped.                      *)
ChipInfoAnyReply(o) == ~o.raised /\ o.applied /\ mode = "normal"

ChipInfoMatches(o) == /\ ~o.raised /\ o.applied /\ mode = "normal"
                      /\ wifiFw # "erased"
                      /\ VersionIn(FirmwareVersion, ChipInfoVersion)

-----------------------------------------------------------------------------
Init ==
    /\ pc = "connect"
    /\ cmd = 1
    /\ ser = "closed"
    /\ mode = "normal"
    /\ wifiFw \in {"old", "target"}
    /\ tool = "idle"
    /\ tool_path \in BOOLEAN
    /\ flash_success = FALSE
    /\ ret = "none"

(* A return from update(): the procedure is over.                         *)
Return(r) == pc' = "done" /\ ret' = r

(* update(), lines 315-317: the first connect(); it may fail.             *)
FirstConnect ==
    /\ pc = "connect"
    /\ \/ ser' = "open" /\ pc' = "probe" /\ UNCHANGED ret
       \/ Return("ConnectFailed") /\ UNCHANGED ser
    /\ UNCHANGED <<cmd, mode, wifiFw, tool, tool_path, flash_success>>

(* check_current_version() inside update()'s first try (lines 319-330).   *)
(* Its queries change nothing on the device. A match closes the port and *)
(* returns True; a mismatch, an error reply or an exception (logged as a *)
(* warning) all go on to the prepare step.                                *)
CheckCurrentVersion ==
    /\ pc = "probe"
    /\ \E o \in Outcomes :
         IF ChipInfoMatches(o)
         THEN ser' = "closed" /\ Return("AlreadyCurrent") /\ UNCHANGED cmd
         ELSE pc' = "prepare" /\ cmd' = 1 /\ UNCHANGED <<ser, ret>>
    /\ UNCHANGED <<mode, wifiFw, tool, tool_path, flash_success>>

(* One send_command of prepare_for_update(). An exception aborts the     *)
(* whole procedure (lines 333-338): disconnect and return False, with no *)
(* restore, whatever the commands already sent did to the device.        *)
(* Mutant: the last-command test is off by one.                           *)
PrepareForUpdateOverrun ==
    /\ pc = "prepare"
    /\ \E o \in Outcomes :
         /\ mode' = IF o.applied THEN ModeAfter(PrepareScript[cmd], mode)
                                 ELSE mode
         /\ IF o.raised
            THEN ser' = "closed" /\ Return("PrepareFailed") /\ UNCHANGED cmd
            ELSE /\ IF cmd > Len(PrepareScript)
                    THEN pc' = "flash" /\ UNCHANGED cmd
                    ELSE cmd' = cmd + 1 /\ UNCHANGED pc
                 /\ UNCHANGED <<ser, ret>>
    /\ UNCHANGED <<wifiFw, tool, tool_path, flash_success>>

PrepareForUpdate ==
    /\ pc = "prepare"
    /\ \E o \in Outcomes :
         /\ mode' = IF o.applied THEN ModeAfter(PrepareScript[cmd], mode)
                                 ELSE mode
         /\ IF o.raised
            THEN ser' = "closed" /\ Return("PrepareFailed") /\ UNCHANGED cmd
            ELSE /\ IF cmd = Len(PrepareScript)
                    THEN pc' = "flash" /\ UNCHANGED cmd
                    ELSE cmd' = cmd + 1 /\ UNCHANGED pc
                 /\ UNCHANGED <<ser, ret>>
    /\ UNCHANGED <<wifiFw, tool, tool_path, flash_success>>

(* Mutant: the port is not closed before the flash tool starts.           *)
RunFlashToolKeepsPort ==
    /\ pc = "flash"
    /\ \/ /\ tool_path
          /\ tool' = "running"
          /\ pc' = "flashing"
          /\ UNCHANGED flash_success
       \/ /\ flash_success' = FALSE
          /\ pc' = "reconnect"
          /\ UNCHANGED tool
    /\ UNCHANGED <<ser, cmd, mode, wifiFw, tool_path, ret>>

(* Line 341 disconnect(), then run_flash_tool() up to subprocess.run:     *)
(* no tool file returns False at once (lines 126-135); Popen may fail     *)
(* (the `except Exception` at 188); otherwise the programmer starts.      *)
RunFlashTool ==
    /\ pc = "flash"
    /\ ser' = "closed"
    /\ \/ /\ tool_path
          /\ tool' = "running"
          /\ pc' = "flashing"
          /\ UNCHANGED flash_success
       \/ /\ flash_success' = FALSE
          /\ pc' = "reconnect"
          /\ UNCHANGED tool
    /\ UNCHANGED <<cmd, mode, wifiFw, tool_path, ret>>

(* The programmer process ends. It writes the image only through the      *)
(* device in transparent mode and with the COM port free; a failure after *)
(* the erase (/e) leaves the module erased. Not part of the updater: it   *)
(* may happen after update() has returned.                                *)
ToolExit ==
    /\ tool = "running"
    /\ \/ /\ mode = "update" /\ ser = "closed"
          /\ tool' = "ok" /\ wifiFw' = "target"
       \/ /\ tool' = "fail" /\ wifiFw' \in {wifiFw, "erased"}
    /\ UNCHANGED <<pc, cmd, ser, mode, tool_path, flash_success, ret>>

(* subprocess.run returns before its timeout: exit code 0 is success      *)
(* (lines 178-183), then the 5 s sleep of line 347.                       *)
(* Mutant: a failed flash returns at once, skipping the restore.          *)
FlashToolReturnsEarlyExit ==
    /\ pc = "flashing"
    /\ tool \in {"ok", "fail"}
    /\ flash_success' = (tool = "ok")
    /\ IF tool = "ok"
       THEN pc' = "reconnect" /\ UNCHANGED <<ser, ret>>
       ELSE ser' = "closed" /\ Return("FlashFailed")
    /\ UNCHANGED <<cmd, mode, wifiFw, tool, tool_path>>

(* Mutant: a failed flash is retried until it succeeds.                    *)
FlashToolReturnsRetry ==
    /\ pc = "flashing"
    /\ tool \in {"ok", "fail"}
    /\ flash_success' = (tool = "ok")
    /\ pc' = IF tool = "ok" THEN "reconnect" ELSE "flash"
    /\ UNCHANGED <<cmd, ser, mode, wifiFw, tool, tool_path, ret>>

FlashToolReturns ==
    /\ pc = "flashing"
    /\ tool \in {"ok", "fail"}
    /\ flash_success' = (tool = "ok")
    /\ pc' = "reconnect"
    /\ UNCHANGED <<cmd, ser, mode, wifiFw, tool, tool_path, ret>>

(* The 300 s timeout of line 164 expires: subprocess.run kills cmd.exe,   *)
(* not the programmer it started, and on Windows calls communicate()      *)
(* again, which waits for the programmer to close the inherited pipes.    *)
FlashTimeout ==
    /\ pc = "flashing"
    /\ tool = "running"
    /\ pc' = "draining"
    /\ UNCHANGED <<cmd, ser, mode, wifiFw, tool, tool_path, flash_success, ret>>

(* The pipes close, TimeoutExpired is raised and caught: return False     *)
(* (lines 185-187), whatever the programmer's own exit code was.          *)
TimeoutReturns ==
    /\ pc = "draining"
    /\ tool \in {"ok", "fail"}
    /\ flash_success' = FALSE
    /\ pc' = "reconnect"
    /\ UNCHANGED <<cmd, ser, mode, wifiFw, tool, tool_path, ret>>

(* Lines 349-353: the second connect(). It fails while the programmer     *)
(* still holds the COM port (Windows opens it exclusively) and may fail   *)
(* for any other reason; then update() returns False, device maybe stuck. *)
(* Mutant: the restore runs only when the flash succeeded.                 *)
ReconnectRestoresOnlyAfterFlash ==
    /\ pc = "reconnect"
    /\ \/ /\ tool # "running"
          /\ IF flash_success
             THEN ser' = "open" /\ pc' = "restore" /\ cmd' = 1 /\ UNCHANGED ret
             ELSE Return("FlashFailed") /\ UNCHANGED <<ser, cmd>>
       \/ Return("ReconnectFailed") /\ UNCHANGED <<ser, cmd>>
    /\ UNCHANGED <<mode, wifiFw, tool, tool_path, flash_success>>

Reconnect ==
    /\ pc = "reconnect"
    /\ \/ /\ tool # "running"
          /\ ser' = "open" /\ pc' = "restore" /\ cmd' = 1
          /\ UNCHANGED ret
       \/ Return("ReconnectFailed") /\ UNCHANGED <<ser, cmd>>
    /\ UNCHANGED <<mode, wifiFw, tool, tool_path, flash_success>>

(* One send_command of restore_normal_operation(), run whatever the flash *)
(* result. An exception goes to the handler at 366. After the last        *)
(* command: verify if the flash succeeded, else (lines 362-364 and the    *)
(* `finally` disconnect) return False.                                    *)
(* Mutant: the update is verified whether or not the flash succeeded.     *)
RestoreNormalOperationAlwaysVerify ==
    /\ pc = "restore"
    /\ \E o \in Outcomes :
         /\ mode' = IF o.applied THEN ModeAfter(RestoreScript[cmd], mode)
                                 ELSE mode
         /\ IF o.raised
            THEN pc' = "emergency" /\ UNCHANGED <<cmd, ser, ret>>
            ELSE IF cmd < Len(RestoreScript)
            THEN cmd' = cmd + 1 /\ UNCHANGED <<pc, ser, ret>>
            ELSE pc' = "verify" /\ UNCHANGED <<cmd, ser, ret>>
    /\ UNCHANGED <<wifiFw, tool, tool_path, flash_success>>

RestoreNormalOperation ==
    /\ pc = "restore"
    /\ \E o \in Outcomes :
         /\ mode' = IF o.applied THEN ModeAfter(RestoreScript[cmd], mode)
                                 ELSE mode
         /\ IF o.raised
            THEN pc' = "emergency" /\ UNCHANGED <<cmd, ser, ret>>
            ELSE IF cmd < Len(RestoreScript)
            THEN cmd' = cmd + 1 /\ UNCHANGED <<pc, ser, ret>>
            ELSE IF flash_success
            THEN pc' = "verify" /\ UNCHANGED <<cmd, ser, ret>>
            ELSE ser' = "closed" /\ Return("FlashFailed") /\ UNCHANGED cmd
    /\ UNCHANGED <<wifiFw, tool, tool_path, flash_success>>

(* verify_update(): query GETChipInfo? and look for the target version.   *)
(* An exception goes to the handler at 366; otherwise the `finally`       *)
(* disconnects and update() returns `verified`.                           *)
VerifyUpdate ==
    /\ pc = "verify"
    /\ \E o \in Outcomes :
         IF o.raised
         THEN pc' = "emergency" /\ UNCHANGED <<ser, ret>>
         ELSE /\ ser' = "closed"
              /\ Return(IF ChipInfoMatches(o) THEN "Verified" ELSE "FlashFailed")
    /\ UNCHANGED <<cmd, mode, wifiFw, tool, tool_path, flash_success>>

(* The handler of lines 366-377: one SetTransparentMode 0 whose own       *)
(* exception (or Ctrl-C) the bare `except` swallows, disconnect, False.   *)
EmergencyRestore ==
    /\ pc = "emergency"
    /\ \E o \in Outcomes :
         mode' = IF o.applied THEN ModeAfter("TM0", mode) ELSE mode
    /\ ser' = "closed"
    /\ Return("RestoreFailed")
    /\ UNCHANGED <<cmd, wifiFw, tool, tool_path, flash_success>>

(* Ctrl-C: KeyboardInterrupt is no Exception, so it escapes every handler *)
(* of update(); only the `finally` of the restore block (line 376)        *)
(* closes the port. Inside subprocess.run it kills cmd.exe and re-raises, *)
(* leaving the programmer running. In the emergency handler the bare      *)
(* `except` catches it: that is a raising send, in EmergencyRestore.      *)
Interrupt ==
    /\ Interruptible
    /\ pc \notin {"done", "emergency"}
    /\ ser' = IF pc \in {"restore", "verify"} THEN "closed" ELSE ser
    /\ Return("Interrupted")
    /\ UNCHANGED <<cmd, mode, wifiFw, tool, tool_path, flash_success>>

(* update() has returned; the process has exited (stuttering).            *)
Terminated == pc = "done" /\ UNCHANGED vars

(* The steps of the updater's own thread.                                 *)
Updater == \/ FirstConnect \/ CheckCurrentVersion \/ PrepareForUpdate
           \/ RunFlashTool \/ FlashToolReturns \/ FlashTimeout
           \/ TimeoutReturns \/ Reconnect \/ RestoreNormalOperation
           \/ VerifyUpdate \/ EmergencyRestore

Next == Updater \/ ToolExit \/ Interrupt \/ Terminated

(* The updater is one thread whose every blocking call has a timeout, so *)
(* it keeps taking steps; Ctrl-C is the operator's choice. SpecToolEnds  *)
(* also assumes the programmer process eventually exits.                  *)
Spec == Init /\ [][Next]_vars /\ WF_vars(Updater)
SpecToolEnds == Spec /\ WF_vars(ToolExit)

-----------------------------------------------------------------------------
(* Properties.                                                             *)

TypeOK ==
    /\ pc \in Phases
    /\ cmd \in 1..3
    /\ ser \in {"open", "closed"}
    /\ mode \in {"normal", "update"}
    /\ wifiFw \in {"old", "target", "erased"}
    /\ tool \in {"idle", "running", "ok", "fail"}
    /\ tool_path \in BOOLEAN
    /\ flash_success \in BOOLEAN
    /\ ret \in Returns \cup {"none"}

(* The failure returns after which update() may leave the board in USB   *)
(* transparent mode.                                                     *)
LoudFailures == {"PrepareFailed", "ReconnectFailed", "RestoreFailed",
                 "Interrupted"}

(* Once update() has returned, the board is in transparent (update-only) *)
(* mode only after one of the LoudFailures: never after True, after the  *)
(* first connect failing, or after "FAILED (device restored to normal    *)
(* mode)" of line 384, whatever the flash tool did.                      *)
StrandedOnlyOnLoudFailure ==
    (pc = "done" /\ mode = "update") => ret \in LoudFailures

(* When update() returns True (exit code 0), the WiFi module runs the    *)
(* target firmware and the board is back in normal mode: the version     *)
(* checks of check_current_version and verify_update never accept a      *)
(* module that is not updated or a board still in transparent mode.      *)
SuccessIsReal ==
    ret \in Success => (wifiFw = "target" /\ mode = "normal")

(* The phases in which update() sends commands over the port.            *)
SendPhases == {"probe", "prepare", "restore", "verify", "emergency"}

(* The COM port is shared with the programmer, and Windows opens it       *)
(* exclusively: every send_command of update() goes to an open port, and *)
(* the port is closed (disconnect() at line 341) whenever the programmer *)
(* runs, also after a timeout or a Ctrl-C left it running.               *)
PortDiscipline ==
    /\ pc \in SendPhases => ser = "open"
    /\ tool = "running" => ser = "closed"

(* update() returns: every blocking call it makes is bounded.            *)
Termination == <>(pc = "done")

(* Once the flash tool has been started, the restore script is run or    *)
(* update() stops at a failed reconnect or a Ctrl-C: a timeout or a      *)
(* non-zero exit code never skips the restore.                           *)
RestoreFollowsFlash ==
    (pc = "flashing") ~> (pc = "restore" \/ ret \in {"ReconnectFailed", "Interrupted"})

(* Spec 4.4: "the device must never be left in update-only mode after    *)
(* this procedure returns", the unrecoverable failed reconnect and the   *)
(* failed restore (after its emergency fallback) excepted.               *)
NeverStranded ==
    (pc = "done" /\ mode = "update") => ret \in {"ReconnectFailed", "RestoreFailed"}

(* Spec 5: a Ctrl-C during Prepare or Flash must not skip the restore:   *)
(* an interrupted update() leaves the board in normal mode.              *)
InterruptRestores ==
    (pc = "done" /\ ret = "Interrupted") => mode = "normal"

(* Line 384 prints "device restored to normal mode" when update()        *)
(* returns False after a completed restore: the board is then in normal  *)
(* mode.                                                                 *)
RestoredWhenReported ==
    ret = "FlashFailed" => mode = "normal"

(* Spec 4.4's truth table: RestoreFailed is the outcome of a restore that *)
(* did not complete. Once verify_update() has been reached the restore    *)
(* script has run, so update() never reports it as failed afterwards.     *)
RestoreFailedOnlyMidRestore == [](pc = "verify" => [](ret # "RestoreFailed"))

=============================================================================
