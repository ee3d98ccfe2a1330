------------------------------ MODULE Validator ------------------------------
(***************************************************************************)
(* DAQiFiTester of src/firmware/utilities/validate.py run from its        *)
(* __main__ block: connect in the constructor, run the eight tests of     *)
(* run_all_tests() in order, each under `except Exception`, summarise,    *)
(* and exit 0, 1 or 2 (Ctrl-C), closing the port in a `finally`.          *)
(*                                                                         *)
(* A test's SCPI exchange is abstracted to its result: it returned True,  *)
(* returned False, or raised. What is kept is what links the tests: the   *)
(* board variant test 1 reads from *IDN? and tests 2 and 3 branch on,     *)
(* which results reach self.test_results, and whether the device is       *)
(* streaming, which test 6 starts and stops.                              *)
(***************************************************************************)
EXTENDS Integers

CONSTANTS
    Interruptible,  \* the operator may press Ctrl-C
    LossyLink       \* the device may drop a line send_command wrote

ASSUME InterruptAssumption == Interruptible \in BOOLEAN /\ LossyLink \in BOOLEAN

VARIABLES
    vpc,          \* "init", "run", "capture" (inside test_streaming), "exit"
    idx,          \* 1-based index of the test run_all_tests is at
    variant,      \* self.board_variant
    recorded,     \* per test: the `passed` it appended to test_results
    returned,     \* per test: what test_func() returned, or "raised"
    streaming,    \* the device streams data (StartStreamData received)
    ser,          \* self.ser: "open" or "closed"
    save_reports, \* --save-reports
    exitCode      \* the process's exit code, NoExit before sys.exit

vvars == <<vpc, idx, variant, recorded, returned, streaming, ser,
           save_reports, exitCode>>

Tests == 1..8

(* The exit code before the process has exited.                           *)
NoExit == -1

(* The variants test_power_and_identification recognises in *IDN?.       *)
Nyquist == {"NQ1", "NQ3"}

-----------------------------------------------------------------------------
Init ==
    /\ vpc = "init"
    /\ idx = 1
    /\ variant = "None"
    /\ recorded = [t \in Tests |-> "none"]
    /\ returned = [t \in Tests |-> "none"]
    /\ streaming = FALSE
    /\ ser = "closed"
    /\ save_reports \in BOOLEAN
    /\ exitCode = NoExit

(* The constructor opens the port; on failure it calls sys.exit(1)        *)
(* before the try/finally of __main__, so nothing is closed.              *)
Connect ==
    /\ vpc = "init"
    /\ \/ ser' = "open" /\ vpc' = "run"
          /\ UNCHANGED exitCode
       \/ vpc' = "exit" /\ exitCode' = 1
          /\ UNCHANGED ser
    /\ UNCHANGED <<idx, variant, recorded, returned, streaming, save_reports>>

(* Mutant: the handler logs the exception but appends nothing.          *)
ConcludeUnrecorded(r) ==
    /\ recorded' = IF r = "raised" THEN recorded
                   ELSE [recorded EXCEPT ![idx] = r]
    /\ returned' = [returned EXCEPT ![idx] = r]
    /\ idx' = idx + 1
    /\ vpc' = "run"

(* Test idx ends with result r and goes on to the next test: its own      *)
(* append of `passed`, or, when it raised, the handler's append of False  *)
(* (lines 604-608).                                                       *)
Conclude(r) ==
    /\ recorded' = [recorded EXCEPT ![idx] = IF r = "pass" THEN "pass"
                                              ELSE "fail"]
    /\ returned' = [returned EXCEPT ![idx] = r]
    /\ idx' = idx + 1
    /\ vpc' = "run"

(* A test that ends with one of the results rs, all of it (sends, parsing *)
(* and its append) abstracted to that result.                             *)
RunGeneric(rs) ==
    /\ \E r \in rs : Conclude(r)
    /\ UNCHANGED <<variant, streaming, ser, save_reports, exitCode>>

(* Test 1: *IDN? gives the variant; only NQ1 and NQ3 pass. A send that    *)
(* raises comes before the variant is set. display_device_info() follows  *)
(* and its exceptions are swallowed (lines 598-602).                      *)
(* Mutant: any identified board passes.                                   *)
TestPowerAndIdentificationAny ==
    /\ vpc = "run" /\ idx = 1
    /\ \/ Conclude("raised") /\ UNCHANGED variant
       \/ \E v \in Nyquist \cup {"Unknown"} :
            variant' = v /\ Conclude("pass")
    /\ UNCHANGED <<streaming, ser, save_reports, exitCode>>

TestPowerAndIdentification ==
    /\ vpc = "run" /\ idx = 1
    /\ \/ Conclude("raised") /\ UNCHANGED variant
       \/ \E v \in Nyquist \cup {"Unknown"} :
            variant' = v /\ Conclude(IF v \in Nyquist THEN "pass" ELSE "fail")
    /\ UNCHANGED <<streaming, ser, save_reports, exitCode>>

(* Test 2: skipped, and recorded as passed, on any board but an NQ3.      *)
TestDacConfiguration ==
    /\ vpc = "run" /\ idx = 2
    /\ IF variant # "NQ3" THEN RunGeneric({"pass"})
                          ELSE RunGeneric({"pass", "fail", "raised"})

(* Test 3: on a board that is neither NQ1 nor NQ3 it returns False at     *)
(* line 323 without appending to test_results.                           *)
TestAdcConfiguration ==
    /\ vpc = "run" /\ idx = 3
    /\ IF variant \in Nyquist
       THEN RunGeneric({"pass", "fail", "raised"})
       ELSE /\ returned' = [returned EXCEPT ![3] = "fail"]
            /\ idx' = 4
            /\ UNCHANGED <<vpc, variant, recorded, streaming, ser,
                           save_reports, exitCode>>

(* Tests 4 and 5: readings of the public channels and of the internal    *)
(* monitoring channels; either may pass, fail or raise.                  *)
TestAdcReadings ==
    vpc = "run" /\ idx = 4 /\ RunGeneric({"pass", "fail", "raised"})

TestInternalMonitoring ==
    vpc = "run" /\ idx = 5 /\ RunGeneric({"pass", "fail", "raised"})

(* Test 6, first half: StartStreamData, then the 5 s capture loop. A      *)
(* send that raises may or may not have reached the device.               *)
StartStreaming ==
    /\ vpc = "run" /\ idx = 6
    /\ \/ vpc' = "capture" /\ streaming' = TRUE
          /\ UNCHANGED <<recorded, returned, idx>>
       \/ Conclude("raised") /\ streaming' \in BOOLEAN
    /\ UNCHANGED <<variant, ser, save_reports, exitCode>>

(* Test 6, second half: the capture ends (its read may raise), then       *)
(* StopStreamData and SYST:ERR?. An exception before StopStreamData was   *)
(* processed leaves the device streaming: the stop is not in a finally.   *)
(* The reply to the stop is never checked (line 483 logs "Stopped         *)
(* streaming" regardless): on a lossy link a dropped stop goes unnoticed  *)
(* and the test still passes or fails on its data and SYST:ERR? reply.    *)
StopStreaming ==
    /\ vpc = "capture"
    /\ \/ Conclude("raised") /\ UNCHANGED streaming
       \/ Conclude("raised") /\ streaming' = FALSE
       \/ \E r \in {"pass", "fail"} : Conclude(r) /\ streaming' = FALSE
       \/ LossyLink /\ \E r \in {"pass", "fail"} : Conclude(r) /\ UNCHANGED streaming
    /\ UNCHANGED <<variant, ser, save_reports, exitCode>>

(* Test 7: the error queue drained, at most ten SYST:ERR? queries.        *)
TestErrorQueue ==
    vpc = "run" /\ idx = 7 /\ RunGeneric({"pass", "fail", "raised"})

(* Test 8: passed is always True, unless a send raises.                   *)
(* Mutant: the loop runs one index past the last test.                    *)
TestFinalStatusOverrun ==
    vpc = "run" /\ idx \in {8, 9} /\ RunGeneric({"pass", "raised"})

TestFinalStatus ==
    vpc = "run" /\ idx = 8 /\ RunGeneric({"pass", "raised"})

(* After the loop: with --save-reports, generate_report() may raise; that *)
(* exception is no KeyboardInterrupt, escapes __main__ after the finally  *)
(* closed the port, and the interpreter exits 1. Otherwise the summary    *)
(* compares the passed entries with all entries of test_results and      *)
(* sys.exit gives 0 or 1, the finally closing the port.                   *)
Summarize ==
    /\ vpc = "run" /\ idx = 9
    /\ vpc' = "exit"
    /\ ser' = "closed"
    /\ \/ save_reports /\ exitCode' = 1
       \/ exitCode' = IF \A t \in Tests : recorded[t] # "fail" THEN 0 ELSE 1
    /\ UNCHANGED <<idx, variant, recorded, returned, streaming, save_reports>>

(* Ctrl-C anywhere in run_all_tests: KeyboardInterrupt passes every       *)
(* `except Exception`, __main__ prints and exits 2, the finally closes.   *)
Interrupt ==
    /\ Interruptible
    /\ vpc \in {"run", "capture"}
    /\ vpc' = "exit" /\ exitCode' = 2 /\ ser' = "closed"
    /\ UNCHANGED <<idx, variant, recorded, returned, streaming, save_reports>>

(* The process has exited.                                                *)
Exited == vpc = "exit" /\ UNCHANGED vvars

Tester == \/ Connect \/ TestPowerAndIdentification \/ TestDacConfiguration
          \/ TestAdcConfiguration \/ TestAdcReadings \/ TestInternalMonitoring
          \/ StartStreaming \/ StopStreaming \/ TestErrorQueue
          \/ TestFinalStatus \/ Summarize

VNext == Tester \/ Interrupt \/ Exited

(* One thread; every send has a serial timeout, the capture a 5 s bound.  *)
VSpec == Init /\ [][VNext]_vvars /\ WF_vvars(Tester)

-----------------------------------------------------------------------------
(* Properties.                                                             *)

TypeOK ==
    /\ vpc \in {"init", "run", "capture", "exit"}
    /\ idx \in 1..9
    /\ variant \in Nyquist \cup {"None", "Unknown"}
    /\ recorded \in [Tests -> {"none", "pass", "fail"}]
    /\ returned \in [Tests -> {"none", "pass", "fail", "raised"}]
    /\ streaming \in BOOLEAN
    /\ ser \in {"open", "closed"}
    /\ save_reports \in BOOLEAN
    /\ exitCode \in {NoExit, 0, 1, 2}

(* Exit code 0 means every one of the eight tests returned True, although *)
(* run_all_tests ignores what the tests return and counts only the        *)
(* entries of test_results, which test 3 skips on an unknown variant.    *)
VerdictSound ==
    exitCode = 0 => \A t \in Tests : returned[t] = "pass"

(* A run that exits 0 leaves the device not streaming: whatever stops     *)
(* test 6 between StartStreamData and StopStreamData is recorded as a     *)
(* failure. test_streaming logs "Stopped streaming" (line 483) after the  *)
(* stop, which it never checks; the property needs a link that processes  *)
(* every written line.                                                    *)
PassLeavesStreamingOff ==
    exitCode = 0 => ~streaming

(* test_streaming stops the stream it started (line 482): on every exit  *)
(* of the program the device is no longer streaming.                      *)
StreamingStoppedAtExit ==
    vpc = "exit" => ~streaming

=============================================================================
