--------------------------- MODULE ValidatorProofs ---------------------------
(***************************************************************************)
(* Proofs about Validator: type correctness and the soundness of the exit *)
(* code, with and without Ctrl-C and --save-reports.                      *)
(***************************************************************************)
EXTENDS Validator, TLAPS

(* The strengthening of VerdictSound that is inductive:                   *)
(*  - every finished test that did not return True left a False in        *)
(*    test_results, or it is test 3 skipping an unknown variant, in which *)
(*    case test 1 left a False;                                           *)
(*  - after test 1, the variant is a Nyquist exactly when test 1 passed,  *)
(*    and test 1 has its entry; before it, no variant is known;           *)
(*  - test_streaming's capture is at index 6, and the exit code is set    *)
(*    only on exit.                                                       *)
VInv ==
    /\ TypeOK
    /\ \A t \in Tests :
          (t < idx /\ returned[t] # "pass")
             => (recorded[t] = "fail" \/ (t = 3 /\ recorded[1] = "fail"))
    /\ idx > 1 => /\ variant \in Nyquist <=> recorded[1] = "pass"
                  /\ recorded[1] # "none"
    /\ idx = 1 => variant = "None"
    /\ vpc = "capture" => idx = 6
    /\ vpc # "exit" => exitCode = NoExit
    /\ exitCode = 0 => \A t \in Tests : returned[t] = "pass"

(* The strengthening of PassLeavesStreamingOff: a streaming device means  *)
(* test 6 is capturing, or recorded a failure, or Ctrl-C ended the run;   *)
(* exit code 0 is only given when no entry of test_results is False.      *)
WInv ==
    /\ VInv
    /\ streaming => (vpc = "capture" \/ recorded[6] = "fail" \/ exitCode = 2)
    /\ exitCode = 0 => \A t \in Tests : recorded[t] # "fail"

-----------------------------------------------------------------------------
(* The initial states are well typed.                                    *)
LEMMA VTypeInit == Init => TypeOK
<1> SUFFICES ASSUME Init PROVE TypeOK
  OBVIOUS
<1>1. save_reports \in BOOLEAN /\ streaming \in BOOLEAN
  BY Zenon DEF Init
<1>2. QED
  BY <1>1 DEF Init, TypeOK, Tests, NoExit

(* The types, with the one fact about the index they need: the capture of *)
(* test_streaming happens at index 6, so concluding it cannot overrun.    *)
TInv == TypeOK /\ (vpc = "capture" => idx = 6)

(* One step keeps TInv; the index stays in 1..9 because the last test is  *)
(* at index 8 and the summary leaves it at 9.                             *)
LEMMA VTypeStep == TInv /\ [VNext]_vvars => TInv'
<1> SUFFICES ASSUME TInv, [VNext]_vvars PROVE TInv'
  OBVIOUS
<1>. USE DEF TInv, TypeOK, Tests, Nyquist, NoExit, Conclude, RunGeneric
<1>1. CASE Connect
  BY <1>1 DEF Connect
<1>2. CASE TestPowerAndIdentification
  BY <1>2 DEF TestPowerAndIdentification
<1>3. CASE TestDacConfiguration
  BY <1>3 DEF TestDacConfiguration
<1>4. CASE TestAdcConfiguration
  BY <1>4 DEF TestAdcConfiguration
<1>5. CASE TestAdcReadings \/ TestInternalMonitoring \/ TestErrorQueue
           \/ TestFinalStatus
  BY <1>5 DEF TestAdcReadings, TestInternalMonitoring, TestErrorQueue,
              TestFinalStatus
<1>6. CASE StartStreaming
  <2>1. streaming' \in BOOLEAN
    BY <1>6, Zenon DEF StartStreaming
  <2>2. QED
    BY <1>6, <2>1 DEF StartStreaming
<1>7. CASE StopStreaming
  <2>1. streaming' \in BOOLEAN
    BY <1>7, Zenon DEF StopStreaming
  <2>2. QED
    BY <1>7, <2>1 DEF StopStreaming
<1>8. CASE Summarize
  BY <1>8 DEF Summarize
<1>9. CASE Interrupt
  BY <1>9 DEF Interrupt
<1>10. CASE Exited \/ UNCHANGED vvars
  BY <1>10 DEF Exited, vvars
<1>11. QED
  BY <1>1, <1>2, <1>3, <1>4, <1>5, <1>6, <1>7, <1>8, <1>9, <1>10
     DEF VNext, Tester

(* Type correctness of the tester.                                       *)
THEOREM VTypeCorrect == VSpec => []TypeOK
<1>1. Init => TInv
  BY VTypeInit DEF Init, TInv
<1>2. QED
  BY <1>1, VTypeStep, PTL DEF VSpec, TInv

(* VInv holds initially.                                                  *)
LEMMA VInvInit == Init => VInv
<1> SUFFICES ASSUME Init PROVE VInv
  OBVIOUS
<1>1. TypeOK
  BY VTypeInit
<1>2. QED
  BY <1>1 DEF Init, VInv, Tests, NoExit

(* A test after the first that concludes keeps VInv: its own entry is    *)
(* False unless it returned True, the entries of the other tests and the  *)
(* variant are untouched, and nothing has exited.                         *)
LEMMA ConcludeKeeps ==
    ASSUME VInv, TypeOK', idx \in 2..8, vpc # "exit",
           NEW r \in {"pass", "fail", "raised"}, Conclude(r),
           UNCHANGED <<variant, exitCode>>
    PROVE  VInv'
<1>. USE DEF Tests, NoExit
<1>1. /\ recorded' = [recorded EXCEPT ![idx] = IF r = "pass" THEN "pass"
                                                ELSE "fail"]
      /\ returned' = [returned EXCEPT ![idx] = r]
      /\ idx' = idx + 1 /\ vpc' = "run"
  BY DEF Conclude
<1>2. \A t \in Tests :
          (t < idx' /\ returned'[t] # "pass")
             => (recorded'[t] = "fail" \/ (t = 3 /\ recorded'[1] = "fail"))
  <2>1. SUFFICES ASSUME NEW t \in Tests, t < idx', returned'[t] # "pass"
                 PROVE  recorded'[t] = "fail" \/ (t = 3 /\ recorded'[1] = "fail")
    OBVIOUS
  <2>2. CASE t = idx
    BY <1>1, <2>1, <2>2 DEF VInv, TypeOK
  <2>3. CASE t # idx
    <3>1. t < idx /\ returned[t] # "pass"
      BY <1>1, <2>1, <2>3 DEF VInv, TypeOK
    <3>2. recorded[t] = "fail" \/ (t = 3 /\ recorded[1] = "fail")
      BY <3>1 DEF VInv
    <3>3. recorded'[t] = recorded[t] /\ recorded'[1] = recorded[1]
      BY <1>1, <2>3 DEF VInv, TypeOK
    <3>4. QED
      BY <3>2, <3>3
  <2>4. QED
    BY <2>2, <2>3
<1>3. /\ variant' \in Nyquist <=> recorded'[1] = "pass"
      /\ recorded'[1] # "none"
  BY <1>1 DEF VInv, TypeOK
<1>4. QED
  BY <1>1, <1>2, <1>3 DEF VInv

(* Every step keeps VInv. The steps that matter: test 1 sets the variant *)
(* together with its own entry; test 3's silent return happens only when  *)
(* test 1 recorded a failure; the summary exits 0 only when no entry is   *)
(* False, which by the second conjunct means every test returned True.   *)
LEMMA VInvStep == VInv /\ [VNext]_vvars => VInv'
<1> SUFFICES ASSUME VInv, [VNext]_vvars PROVE VInv'
  OBVIOUS
<1>. USE DEF VInv, Tests, Nyquist, NoExit
<1>0. TypeOK'
  BY VTypeStep DEF TInv
<1>1. CASE Connect
  BY <1>0, <1>1 DEF Connect
<1>2. CASE TestPowerAndIdentification
  <2>1. idx = 1 /\ vpc = "run"
    BY <1>2 DEF TestPowerAndIdentification
  <2>0. exitCode' = exitCode
    BY <1>2 DEF TestPowerAndIdentification
  <2>2. CASE Conclude("raised") /\ UNCHANGED variant
    <3>1. /\ recorded' = [recorded EXCEPT ![1] = "fail"]
          /\ returned' = [returned EXCEPT ![1] = "raised"]
          /\ idx' = 2 /\ vpc' = "run" /\ variant' = "None"
      BY <2>1, <2>2 DEF Conclude
    <3>2. QED
      BY <1>0, <2>0, <2>1, <3>1 DEF TypeOK
  <2>3. CASE \E v \in Nyquist \cup {"Unknown"} :
               variant' = v /\ Conclude(IF v \in Nyquist THEN "pass" ELSE "fail")
    <3>1. PICK v \in Nyquist \cup {"Unknown"} :
               variant' = v /\ Conclude(IF v \in Nyquist THEN "pass" ELSE "fail")
      BY <2>3
    <3>2. CASE v \in Nyquist
      <4>1. /\ recorded' = [recorded EXCEPT ![1] = "pass"]
            /\ returned' = [returned EXCEPT ![1] = "pass"]
            /\ idx' = 2 /\ vpc' = "run" /\ variant' \in Nyquist
        BY <2>1, <3>1, <3>2 DEF Conclude
      <4>2. QED
        BY <1>0, <2>0, <2>1, <4>1 DEF TypeOK
    <3>3. CASE v = "Unknown"
      <4>1. /\ recorded' = [recorded EXCEPT ![1] = "fail"]
            /\ returned' = [returned EXCEPT ![1] = "fail"]
            /\ idx' = 2 /\ vpc' = "run" /\ variant' = "Unknown"
        BY <2>1, <3>1, <3>3 DEF Conclude
      <4>2. QED
        BY <1>0, <2>0, <2>1, <4>1 DEF TypeOK
    <3>4. QED
      BY <3>1, <3>2, <3>3
  <2>4. QED
    BY <1>2, <2>2, <2>3 DEF TestPowerAndIdentification
<1>3. CASE TestDacConfiguration
  <2>1. idx = 2 /\ vpc = "run"
    BY <1>3 DEF TestDacConfiguration
  <2>2. PICK r \in {"pass", "fail", "raised"} :
          Conclude(r) /\ UNCHANGED <<variant, streaming, ser, save_reports, exitCode>>
    BY <1>3 DEF TestDacConfiguration, RunGeneric
  <2>3. QED
    BY <1>0, <2>1, <2>2, ConcludeKeeps
<1>4. CASE TestAdcConfiguration
  <2>1. idx = 3 /\ vpc = "run"
    BY <1>4 DEF TestAdcConfiguration
  <2>2. CASE variant \in Nyquist
    <3>1. PICK r \in {"pass", "fail", "raised"} :
            Conclude(r) /\ UNCHANGED <<variant, streaming, ser, save_reports, exitCode>>
      BY <1>4, <2>2 DEF TestAdcConfiguration, RunGeneric
    <3>2. QED
      BY <1>0, <2>1, <3>1, ConcludeKeeps
  <2>3. CASE variant \notin Nyquist
    <3>1. recorded[1] = "fail"
      BY <2>1, <2>3 DEF TypeOK
    <3>2. QED
      BY <1>0, <1>4, <2>1, <2>3, <3>1 DEF TestAdcConfiguration, TypeOK
  <2>4. QED
    BY <2>2, <2>3
<1>5. CASE TestAdcReadings \/ TestInternalMonitoring \/ TestErrorQueue
           \/ TestFinalStatus
  <2>1. idx \in 4..8 /\ vpc = "run"
    BY <1>5 DEF TestAdcReadings, TestInternalMonitoring, TestErrorQueue,
                TestFinalStatus
  <2>2. PICK r \in {"pass", "fail", "raised"} :
          Conclude(r) /\ UNCHANGED <<variant, streaming, ser, save_reports, exitCode>>
    BY <1>5 DEF TestAdcReadings, TestInternalMonitoring, TestErrorQueue,
                TestFinalStatus, RunGeneric
  <2>3. QED
    BY <1>0, <2>1, <2>2, ConcludeKeeps
<1>6. CASE StartStreaming
  <2>1. idx = 6 /\ vpc = "run"
    BY <1>6 DEF StartStreaming
  <2>2. CASE vpc' = "capture" /\ UNCHANGED <<recorded, returned, idx, variant, exitCode>>
    BY <1>0, <2>1, <2>2 DEF TypeOK
  <2>3. CASE Conclude("raised") /\ UNCHANGED <<variant, exitCode>>
    BY <1>0, <2>1, <2>3, ConcludeKeeps
  <2>4. QED
    BY <1>6, <2>2, <2>3 DEF StartStreaming
<1>7. CASE StopStreaming
  <2>1. idx = 6 /\ vpc = "capture" /\ UNCHANGED <<variant, exitCode>>
    BY <1>7 DEF StopStreaming
  <2>2. PICK r \in {"pass", "fail", "raised"} : Conclude(r)
    BY <1>7 DEF StopStreaming
  <2>3. QED
    BY <1>0, <2>1, <2>2, ConcludeKeeps
<1>8. CASE Summarize
  <2>1. idx = 9 /\ vpc' = "exit" /\ UNCHANGED <<idx, variant, recorded, returned>>
    BY <1>8 DEF Summarize
  <2>2. exitCode' = 0 => \A t \in Tests : recorded[t] # "fail"
    BY <1>8 DEF Summarize
  <2>3. QED
    BY <1>0, <2>1, <2>2 DEF TypeOK
<1>9. CASE Interrupt
  BY <1>0, <1>9 DEF Interrupt
<1>10. CASE Exited \/ UNCHANGED vvars
  BY <1>0, <1>10 DEF Exited, vvars
<1>11. QED
  BY <1>1, <1>2, <1>3, <1>4, <1>5, <1>6, <1>7, <1>8, <1>9, <1>10
     DEF VNext, Tester

(* Exit code 0 of validate.py means that all eight tests returned True,  *)
(* with or without Ctrl-C and --save-reports: the property the core run  *)
(* of MCValidator checks, for every interleaving of results.             *)
THEOREM VerdictSoundThm == VSpec => []VerdictSound
<1>1. VInv => VerdictSound
  BY DEF VInv, VerdictSound
<1>2. QED
  BY VInvInit, VInvStep, <1>1, PTL DEF VSpec

(* WInv holds initially.                                                  *)
LEMMA WInvInit == Init => WInv
<1> SUFFICES ASSUME Init PROVE WInv
  OBVIOUS
<1>1. VInv
  BY VInvInit
<1>2. ~streaming /\ exitCode = NoExit
  BY DEF Init
<1>3. QED
  BY <1>1, <1>2 DEF WInv, NoExit

(* A step of the tester's own test loop that leaves test 6's entry, the   *)
(* streaming state and the exit code alone keeps the two new conjuncts.   *)
LEMMA QuietStepKeeps ==
    ASSUME WInv, vpc = "run", vpc' \in {"run", "capture"},
           recorded'[6] = recorded[6],
           UNCHANGED <<streaming, exitCode>>
    PROVE  /\ streaming' => (vpc' = "capture" \/ recorded'[6] = "fail"
                             \/ exitCode' = 2)
           /\ exitCode' = 0 => \A t \in Tests : recorded'[t] # "fail"
  BY DEF WInv, VInv, NoExit

(* Every step keeps WInv: the only steps that leave the device streaming  *)
(* outside the capture are the raising ends of test 6, which record a     *)
(* failure, and Ctrl-C, which exits 2; the summary exits 0 only without a *)
(* False entry. On a reliable link a StopStreamData that does not raise   *)
(* stops streaming.                                                       *)
LEMMA WInvStep == ASSUME ~LossyLink PROVE WInv /\ [VNext]_vvars => WInv'
<1> SUFFICES ASSUME WInv, [VNext]_vvars PROVE WInv'
  OBVIOUS
<1>. USE DEF Tests, NoExit
<1>0. VInv /\ VInv'
  BY VInvStep DEF WInv
<1>. DEFINE Keeps == /\ streaming' => (vpc' = "capture" \/ recorded'[6] = "fail"
                                      \/ exitCode' = 2)
                     /\ exitCode' = 0 => \A t \in Tests : recorded'[t] # "fail"
<1>1. SUFFICES Keeps
  BY <1>0 DEF WInv
<1>2. CASE Connect
  BY <1>2 DEF Connect, WInv, VInv
<1>3. CASE TestPowerAndIdentification \/ TestDacConfiguration
           \/ TestAdcReadings \/ TestInternalMonitoring \/ TestErrorQueue
           \/ TestFinalStatus
  <2>1. idx \in {1, 2, 4, 5, 7, 8} /\ vpc = "run" /\ vpc' = "run"
        /\ UNCHANGED <<streaming, exitCode>>
        /\ \E r \in {"pass", "fail", "raised"} : Conclude(r)
    BY <1>3 DEF TestPowerAndIdentification, TestDacConfiguration,
                TestAdcReadings, TestInternalMonitoring, TestErrorQueue,
                TestFinalStatus, RunGeneric, Conclude
  <2>2. recorded'[6] = recorded[6]
    BY <1>0, <2>1 DEF Conclude, VInv, TypeOK
  <2>3. QED
    BY <2>1, <2>2, QuietStepKeeps
<1>4. CASE TestAdcConfiguration
  <2>1. idx = 3 /\ vpc = "run" /\ vpc' = "run" /\ UNCHANGED <<streaming, exitCode>>
    BY <1>4 DEF TestAdcConfiguration, RunGeneric, Conclude
  <2>2. recorded'[6] = recorded[6]
    BY <1>0, <1>4, <2>1 DEF TestAdcConfiguration, RunGeneric, Conclude, VInv, TypeOK
  <2>3. QED
    BY <2>1, <2>2, QuietStepKeeps
<1>5. CASE StartStreaming
  <2>1. idx = 6 /\ UNCHANGED exitCode
    BY <1>5 DEF StartStreaming
  <2>0. exitCode' # 0
    BY <1>5, <2>1 DEF StartStreaming, WInv, VInv
  <2>2. CASE vpc' = "capture" /\ streaming' = TRUE
    BY <2>0, <2>2, Zenon
  <2>3. CASE Conclude("raised")
    <3>1. recorded'[6] = "fail"
      BY <1>0, <2>1, <2>3 DEF Conclude, VInv, TypeOK
    <3>2. QED
      BY <2>0, <3>1, Zenon
  <2>4. QED
    BY <1>5, <2>2, <2>3 DEF StartStreaming
<1>6. CASE StopStreaming
  <2>1. idx = 6 /\ vpc = "capture" /\ UNCHANGED exitCode
    BY <1>0, <1>6 DEF StopStreaming, VInv
  <2>2. CASE Conclude("raised")
    <3>1. recorded'[6] = "fail"
      BY <1>0, <2>1, <2>2 DEF Conclude, VInv, TypeOK
    <3>2. QED
      BY <2>1, <3>1 DEF WInv, VInv
  <2>3. CASE ~Conclude("raised")
    <3>1. ~streaming'
      BY <1>6, <2>3, Zenon DEF StopStreaming
    <3>2. QED
      BY <2>1, <3>1 DEF WInv, VInv
  <2>4. QED
    BY <2>2, <2>3
<1>7. CASE Summarize
  <2>1. vpc = "run" /\ UNCHANGED <<recorded, streaming>>
    BY <1>7 DEF Summarize
  <2>2. exitCode' = 0 => \A t \in Tests : recorded[t] # "fail"
    BY <1>7 DEF Summarize
  <2>3. streaming => recorded[6] = "fail"
    BY <2>1 DEF WInv, VInv
  <2>4. QED
    BY <2>1, <2>2, <2>3
<1>8. CASE Interrupt
  BY <1>8 DEF Interrupt
<1>9. CASE Exited \/ UNCHANGED vvars
  BY <1>9 DEF Exited, vvars, WInv
<1>10. QED
  BY <1>2, <1>3, <1>4, <1>5, <1>6, <1>7, <1>8, <1>9 DEF VNext, Tester

(* On a link that processes every line written to it, a run of          *)
(* validate.py that exits 0 never leaves the device streaming, with or    *)
(* without Ctrl-C and --save-reports: the property of the reliable run of *)
(* MCValidator. The lossy_stop run shows the assumption is needed, since  *)
(* test_streaming never checks that its StopStreamData took effect.       *)
THEOREM PassLeavesStreamingOffThm ==
    ASSUME ~LossyLink PROVE VSpec => []PassLeavesStreamingOff
<1>1. WInv => PassLeavesStreamingOff
  <2>1. SUFFICES ASSUME WInv, exitCode = 0 PROVE ~streaming
    BY DEF PassLeavesStreamingOff
  <2>2. vpc # "capture"
    BY <2>1 DEF WInv, VInv, NoExit
  <2>3. recorded[6] # "fail" /\ exitCode # 2
    BY <2>1 DEF WInv, Tests
  <2>4. QED
    BY <2>1, <2>2, <2>3, Zenon DEF WInv
<1>2. QED
  BY WInvInit, WInvStep, <1>1, PTL DEF VSpec

=============================================================================
