# Verification of the DAQiFi Nyquist WiFi firmware updater

TLA+ models, TLC runs and TLAPS proofs for the Python tooling in `src/`. The
focus is `src/firmware/utilities/update_wifi_firmware.py`: the procedure that
switches the board into WINC1500 update mode, runs `winc_flash_tool.cmd`, and
must always try to put the board back into normal mode.

## 1. Inventory

### Components

| Component | Source | State it keeps | Operations |
|---|---|---|---|
| UpdateOrchestrator | `update_wifi_firmware.py` `update()`, `main()` | position in the procedure, `flash_success`, `verified` | probe, prepare, disconnect and flash, reconnect, restore, verify, emergency restore, return, exit code |
| CommandChannel | `connect`, `disconnect`, `send_command` | `self.ser` (open or closed) | open at 115200 baud; close and wait 1 s; send a line, sleep for the settle delay, read what is buffered |
| VersionProbe | `check_current_version`, `verify_update` | none | `*IDN?`, `SYST:INFO?` (logged only), `GETChipInfo?` checked for the target version |
| FlashInvoker | `find_winc_tool`, `run_flash_tool` | `tool_path` | look for the tool; `subprocess.run(shell=True, timeout=300, cwd=tool_dir)` |
| Device | not in this repository | operating mode (normal or USB transparent), WINC firmware | handles FWUpdate, SetTransparentMode 0, LAN:ENabled, APPLY, GETChipInfo? |
| Programmer process | started by `winc_flash_tool.cmd`, not in this repository | running or exited, exit code | erases and writes the module through the board in transparent mode |
| TestSuite | `test_suite.py` | `results` per group | menu loop, CLI groups, `run_wifi_update` (confirm, tool check, `update()`), final summary, exit code |
| SdStreamingTest | `test_5khz_sd.py` | port, streaming on or off on the device | power up, configure, start and stop streaming, drain the error queue (at most 10), Ctrl-C handler |
| FirmwareValidator | `validate.py` `DAQiFiTester`, `__main__` | board variant, `test_results`, the device's streaming state, the port | eight tests in order, each under `except Exception`; summary; report; exit code 0/1/2 |
| UsbCdcTester | `test_circular_buffer_fix.py` | pass/fail counts | timing-based checks of the device's prompt, echo and buffer behaviour |

### How they interact

`update()` owns one `serial.Serial` handle. It opens it, probes, sends the
prepare script, and closes it. The programmer then takes the same COM port:
Windows opens COM ports exclusively. `update()` waits 5 s, opens the port
again, sends the restore script and verifies. The device changes mode only in
reaction to the lines it receives. `send_command` never reads a reply's
meaning. It sleeps for a fixed time and returns whatever bytes have arrived.
`test_suite.py` calls `update()` from its menu. The other scripts are separate
test clients of the same serial protocol.

### What is hard here

- **Partial failure.** Any `send_command` can raise after its line reached the
  device. In the prepare script, that happens after the board is already in
  transparent mode.
- **Unreliable delivery.** No reply is checked. A dropped line is
  indistinguishable from a processed one.
- **Timeouts.** The settle delay is the only synchronisation. The 300 s
  subprocess timeout kills `cmd.exe`, not the programmer it started. On
  Windows, `subprocess.run` then calls `communicate()` with no timeout and waits
  for the programmer's pipes.
- **Asynchronous interruption.** Ctrl-C raises `KeyboardInterrupt`, which no
  `except Exception` catches.
- **A second process.** The programmer may outlive the updater.

### What makes each component correct

- Orchestrator: the board is never left in transparent mode silently. `True`
  means updated and restored. A restore follows every flash. `update()`
  returns.
- Channel: a send happens only on an open port. The programmer and the
  updater never use the port at once.
- Probe: a match is accepted only for the target firmware on a board in
  normal mode. A missed reply degrades to "needs update".
- FlashInvoker: the timeout bounds the call. Every exit code leads to the
  restore.
- TestSuite: the exit code reflects the groups that ran.
- SdStreamingTest: streaming is stopped on every exit path. The error-queue
  drain is bounded.

## 2. Plan

Done:

1. **`WifiUpdater`.** The orchestrator together with the channel, the probe,
   the flash invoker, the device's mode and the programmer.
2. **`WifiUpdateOutcome` and `WifiUpdaterRefinement`.** The abstract
   five-phase machine of spec 4.4 and the refinement of `WifiUpdater` into
   it, checked by TLC and proved by TLAPS (section 4).
3. **Version strings.** The probe compares version strings with the code's
   substring test (section 3).
4. **`Validator`.** `validate.py`'s test driver, on a reliable and on a
   lossy link (section 6).
5. **`PortDiscipline`.** Checked on the `core` run and proved (section 7).

Next:

6. **`TestSuite`.** The menu and CLI loop of `test_suite.py` over the
   outcome of `update()` and the test groups.
7. **`SdStreamTest`.** `test_5khz_sd.py`: streaming state, the bounded
   `check_errors` loop, the Ctrl-C handler.
8. **Stranded start.** A run that begins with the board already in
   transparent mode (hazard at line 316), once the device's answers in that
   mode are pinned down.

## 3. Module `WifiUpdater`

### State

| Variable | Code | Values |
|---|---|---|
| `pc` | position in `update()` | connect, probe, prepare, flash, flashing, draining, reconnect, restore, verify, emergency, done |
| `cmd` | index into the prepare or restore script | 1..3 |
| `ser` | `self.ser` open or closed | open, closed |
| `mode` | the board's USB transparent mode | normal, update |
| `wifiFw` | firmware on the WINC1500 | old, target, erased |
| `tool` | the programmer process | idle, running, ok, fail |
| `tool_path` | `find_winc_tool()` or `--tool-path` found a file | Boolean |
| `flash_success` | return value of `run_flash_tool()` | Boolean |
| `ret` | which `return` of `update()` was taken | the `Returns` set, or none |

### Constants

- `LossyLink`: whether the device may drop a line that `send_command` wrote.
- `Interruptible`: whether the operator may press Ctrl-C.
- `FirmwareVersion`: `--firmware-version`, a non-empty string of digits and
  dots (`VersionAssumption`).
- `InstalledVersion`: the version the module runs before the update.

The runs use 19.7.7 as the target, and 19.5.4 or 19.7.70 as the installed
version, each as a tuple of characters.

### Abstractions

A `send_command` call is one element of `Outcomes`:

- `raised`: whether `reset_input_buffer`, `write` or `read` threw.
- `applied`: whether the device processed the line.

A call that returns wrote its line. Only on a lossy link can such a line go
unprocessed. A raising call may or may not have been processed.

The device's reaction is `ModeAfter`: FWUpdate enters transparent mode and
SetTransparentMode 0 leaves it. It is modelled from the spec, because the
firmware is not in this repository. The GETChipInfo? reply holds the target
version exactly when the device processed the query in normal mode with the
module's version: `FirmwareVersion` after the programmer wrote it,
`InstalledVersion` before (`ChipInfoVersion`). Otherwise it is an error or
nothing. A reply is accepted as the code accepts it, when the target is a
substring of it (`VersionIn`, lines 227 and 298). The SCPI echo and prompt
stripping is left out: it does not change whether the substring occurs.

### Actions

| Action | Code |
|---|---|
| `FirstConnect` | lines 315–317 |
| `CheckCurrentVersion` | the first `try` of `update()`; the queries change nothing |
| `PrepareForUpdate` | one send of the prepare script; an exception returns `PrepareFailed` |
| `RunFlashTool` | `disconnect()` at line 341, then `run_flash_tool` up to `subprocess.run`, including "tool not found" and a launch error |
| `FlashToolReturns` | exit code 0 or non-zero |
| `FlashTimeout` | the 300 s expiry |
| `TimeoutReturns` | the Windows drain ending when the programmer exits |
| `Reconnect` | lines 349–353; fails while the programmer holds the port |
| `RestoreNormalOperation` | one send of the restore script, whatever `flash_success` is |
| `VerifyUpdate` | the GETChipInfo? check |
| `EmergencyRestore` | the handler at 366–377 |
| `Interrupt` | Ctrl-C: escapes with no restore; the `finally` at 376 closes the port |
| `ToolExit` | the programmer ending, possibly after `update()` returned |
| `Terminated` | the process has exited |

### Fairness

`WF_vars(Updater)`: the updater is one thread, and every blocking call it
makes has a timeout (serial timeout 2 s, settle sleeps). Ctrl-C is never
forced.

`SpecToolEnds` adds `WF_vars(ToolExit)`, the assumption that the programmer
eventually exits. Nothing in the code guarantees it. The `hung_tool` run
drops the assumption.

## 4. Abstract outcome and refinement

`WifiUpdateOutcome` is what spec 4.4 promises, with no serial port, device or
programmer in it. Its state is the phase (Probe, Prepare, Flash, Restore,
Verify, Done), `flashOk` (what the flash tool reported) and the outcome. Its
rules are these:

- the restore phase always follows the flash;
- Verify is entered only after a successful flash;
- a failed flash ends as `FlashFailed`;
- the process-level interrupt of spec 5 may end any phase (`Interrupted`).

`WifiUpdaterRefinement` maps `WifiUpdater` onto it:

- `phaseBar` takes `pc` to a phase (flash, flashing and draining are Flash;
  reconnect and restore are Restore; verify is Verify; emergency and done
  are Done);
- `flashOk` is `flash_success`;
- `outcomeBar` is `ret` once `update()` returned, and `RestoreFailed`
  while the emergency restore runs.

`RefinesOutcome == Abs!AbsSpec` is a PROPERTY of the `core` run. It is not
checked on the `lossy` run: a dropped line changes the device's mode and
firmware, which the abstract machine hides, so that run would repeat this one. The fairness part holds because `update()` always ends there.

One divergence is kept in the abstract machine rather than hidden. The code
reaches `RestoreFailed` also from Verify: an exception in `verify_update` is
caught by the handler that encloses both phases. Spec 4.4's table gives
`RestoreFailed` only to phase 4. The `verify_raises` run shows it.

## 5. Runs (module `MCWifiUpdater`)

`MCWifiUpdater` EXTENDS `WifiUpdaterRefinement` and defines the version
strings.

| Run | Constants | Checks | Result |
|---|---|---|---|
| `core` | reliable link, Ctrl-C | `TypeOK`, `StrandedOnlyOnLoudFailure`, `SuccessIsReal`, `PortDiscipline`, `Termination`, `RestoreFollowsFlash`, `RefinesOutcome` | pass, 239 states |
| `lossy` | lossy link | `SuccessIsReal` | pass, 293 states |
| `prepare_strands` | reliable link | `NeverStranded` (spec 4.4) | violated |
| `interrupt` | reliable link, Ctrl-C | `InterruptRestores` (spec 5) | violated |
| `lossy_restore` | lossy link | `RestoredWhenReported` (line 384's message) | violated |
| `hung_tool` | no `ToolExit` fairness | `Termination` | violated |
| `substring` | 19.7.70 installed | `SuccessIsReal` | violated |
| `verify_raises` | reliable link | `RestoreFailedOnlyMidRestore` (spec 4.4) | violated |

The violations show the following:

1. **`prepare_strands`.** The FWUpdate send (line 112) raises after the
   device has already processed the line, for example when the read of
   its reply fails. `update()` returns at line 338 with the board in
   transparent mode and no restore. A later send of `prepare_for_update`
   that raises, such as APPLY at line 116, has the same effect.
2. **`interrupt`.** Ctrl-C after FWUpdate escapes every `except Exception`.
3. **`lossy_restore`.** SetTransparentMode 0 is dropped. `update()` prints
   "device restored to normal mode" while the board is in transparent mode.
4. **`hung_tool`.** A programmer that never exits keeps `subprocess.run`
   waiting after its timeout. The 300 s bound holds only for `cmd.exe`.
5. **`substring`.** The target 19.7.7 is a substring of 19.7.70. The probe
   reports `AlreadyCurrent` and `main` exits 0 with the old firmware.
6. **`verify_raises`.** The board is restored, `verify_update` raises, and
   `update()` sends the restore again and returns `RestoreFailed`.

### Bounds

The model has no counters. Every script has three commands, and every
variable ranges over a small set. TLC explores the whole reachable state
space: every interleaving of exceptions, drops and Ctrl-C with the
programmer's exit, at every command. No bound cuts a case off. The version
pair 19.7.7 / 19.5.4 is one where the substring test is exact. The pair
19.7.7 / 19.7.70 is one where it is not.

## 6. Module `Validator` (`validate.py`)

`DAQiFiTester` is driven by `__main__`:

1. the constructor opens the port, or exits 1;
2. `run_all_tests` runs eight tests in order, each under `except Exception`;
3. the optional report is generated;
4. the summary compares the passed entries of `test_results` with all its
   entries;
5. `sys.exit(0|1)`, or 2 on Ctrl-C, with the port closed in a `finally`.

| Variable | Code |
|---|---|
| `vpc` | init, run (between tests), capture (inside `test_streaming`), exit |
| `idx` | the loop index of `run_all_tests`, 1-based |
| `variant` | `self.board_variant`: None, NQ1, NQ3, Unknown |
| `recorded[t]` | the `passed` test `t` appended, or the handler's False |
| `returned[t]` | what test `t` returned, or raised |
| `streaming` | the device received StartStreamData and no StopStreamData |
| `ser`, `save_reports`, `exitCode` | the port, `--save-reports`, the exit code (`NoExit` before it) |

Each test is one action, with its SCPI exchange abstracted to its result. The
control that links the tests is kept:

- test 1 sets the variant;
- test 2 is skipped as passed unless the board is an NQ3;
- test 3 returns False on an unknown variant without appending (line 323);
- test 6 is split in two (`StartStreaming`, `StopStreaming`) because an
  exception between them leaves the device streaming;
- `generate_report` may raise, which escapes `__main__` with exit 1.

Fairness: `WF_vvars(Tester)`. It is one thread, and every send has a serial
timeout and the capture a 5 s bound.

The constant `LossyLink` says whether the device may drop a line
`send_command` wrote. Only the drop of StopStreamData is modelled, because
no other reply is left unchecked in a way that changes the device's state.
`send_command` writes the line and reads whatever arrived. Test 6 never
checks the reply to its StopStreamData: line 483 logs "Stopped streaming"
regardless. With `LossyLink`, `StopStreaming` therefore has a fourth
outcome: the test passes or fails on its data and its SYST:ERR? reply,
while the device is still streaming.

| Run | Constants | Checks | Result |
|---|---|---|---|
| `validator_core` | Ctrl-C, lossy link | `TypeOK`, `VerdictSound` | pass, 40596 states |
| `validator_reliable` | Ctrl-C, reliable link | `PassLeavesStreamingOff` | pass, 27490 states |
| `validator_lossy_stop` | no Ctrl-C, lossy link | `PassLeavesStreamingOff` | violated |
| `validator_streaming` | no Ctrl-C, reliable link | `StreamingStoppedAtExit` | violated |

- `VerdictSound`: exit 0 means every test returned True. This is not
  obvious, because the summary ignores return values and test 3 appends
  nothing on an unknown variant. It holds only because test 1 has then
  already recorded a failure.
- `PassLeavesStreamingOff`: on a reliable link, exit 0 means the device is
  not streaming. Whatever ends test 6 between StartStreamData and
  StopStreamData records a failure, and Ctrl-C exits 2.
- `validator_lossy_stop`: the device drops StopStreamData. Test 6 still
  passes on its captured data and its SYST:ERR? reply, every later test
  passes, and `validate.py` exits 0 with the device streaming. The stop is
  never checked.
- `validator_streaming`: an exception during the capture skips
  StopStreamData, which is not in a `finally` (line 482). The program exits
  with the device streaming.

## 7. Proofs

All theorems hold for every value of the constants, except where an
assumption is stated.

### `WifiUpdaterProofs`

- **`TypeCorrect`:** `Spec => []TypeOK`. Lemmas `TypeInit` and `TypeStep`.
  The step has one case per action.
- **`SuccessIsRealThm`:** assumes `DistinctVersions` (the installed version
  does not contain the target; the `substring` run shows why it is needed)
  and proves `Spec => []SuccessIsReal`. It goes through the inductive
  invariant `IInv`, which adds four facts:
  - `pc = "done"` exactly when `ret` is set;
  - the programmer is idle before the flash phase;
  - the programmer is not running after `subprocess.run` returned (the
    Windows drain waits for it);
  - a successful return is taken with the programmer stopped.

  The last fact is why `SuccessIsReal` is not inductive alone. Without it, a
  `ToolExit` after `Verified` could change the firmware. Lemma
  `AcceptedIsTarget` turns an accepted reply into "target firmware, normal
  mode".
- **`StrandedOnlyOnLoudFailureThm`:** assumes `~LossyLink`, and proves
  `Spec => []StrandedOnlyOnLoudFailure`. It goes through `JInv`:
  - the board is in normal mode before prepare, in verify, and in the
    restore script after its first command;
  - a return with the board in transparent mode is one of the
    `LoudFailures`.

  The key step is lemma `ReliableOutcome`: on a reliable link, a send that
  returned was processed. The `lossy_restore` run shows that the assumption
  is needed.
- **`PortDisciplineThm`:** `Spec => []PortDiscipline`: every send goes to
  an open port, and the port is closed whenever the programmer runs. It
  holds on a lossy link and with Ctrl-C. It goes through `PInv`, which adds
  "the programmer is idle before the flash phase". Without that fact, the
  first `connect()` could open the port under a running programmer.
  Otherwise the argument is the code's order (disconnect at line 341, then
  the launch) and the OS refusing the reconnect while the programmer holds
  the port.

### `WifiUpdaterRefinementProofs`

- **`Refinement`:** `Spec => Abs!AbsSafety`. `InitMaps` shows that the
  initial state maps to `AbsInit`. `StepMaps` shows that every step maps to
  an abstract step or a stutter, with one case per action. It rests on
  `RInv`: `flash_success` is FALSE before the flash result, and TRUE in
  verify. Without it, a verify state could map to the abstract Verify with
  `flashOk` false, which the abstract machine forbids.

### `ValidatorProofs`

- **`VTypeCorrect`:** `VSpec => []TypeOK`, through
  `TInv == TypeOK /\ (capture => idx = 6)`. Without the second conjunct the
  end of test 6 could push `idx` past 9.
- **`VerdictSoundThm`:** `VSpec => []VerdictSound`, through `VInv`, whose
  key conjuncts are these:
  - a test before `idx` that did not return True has a False entry, or it
    is test 3 and test 1's entry is False;
  - after test 1, the variant is NQ1/NQ3 exactly when test 1 recorded a pass.

  Lemma `ConcludeKeeps` covers every test's append.
- **`PassLeavesStreamingOffThm`:** assumes `~LossyLink`, and proves
  `VSpec => []PassLeavesStreamingOff`. The `validator_lossy_stop` run shows
  that the assumption is needed. The proof goes through `WInv`, which adds two facts to `VInv`:
  - streaming outside the capture implies test 6 recorded False, or Ctrl-C
    (exit 2);
  - exit 0 implies no False entry.

`IInv`, `JInv`, `PInv`, `RInv`, `VInv` and `WInv` were checked with TLC as
invariants before they were proved.

Only TLC checks the following. TLAPS does not reason about them:

- the liveness properties (`Termination`, `RestoreFollowsFlash`, and the
  fairness part of `RefinesOutcome`), which need
  fairness and ENABLED;
- the violations.

## 8. Not modelled

- Byte-level serial I/O, decoding, logging and settle durations. Only their
  effect is modelled: a reply arrived or not.
- `*IDN?` and `SYST:INFO?` parsing in the updater, which only logs.
- The POSIX branch of `subprocess.run`. The tool is a `.cmd` script, so the
  code targets Windows.
- A start with the board already stranded by an earlier run (hazard listed).
- In `validate.py`: the SCPI parsing inside each test, the hex dumps and
  the Markdown report. Only their result is kept. Ctrl-C inside the
  constructor, before the `try` of `__main__`, is not modelled.
- `test_circular_buffer_fix.py`. It probes firmware buffers that are not in
  this repository by timing.
- For now, `test_suite.py` and `test_5khz_sd.py` (see the plan).
