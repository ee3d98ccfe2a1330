-------------------------- MODULE WifiUpdateOutcome --------------------------
(***************************************************************************)
(* What the WiFi firmware update promises, one step per phase of spec     *)
(* 4.4: Probe, Prepare, Flash, Reconnect & Restore, Verify, and the typed *)
(* outcome it ends with. Serial commands, the device and the programmer   *)
(* process are hidden: only the phase, whether the flash tool reported    *)
(* success, and the outcome are visible.                                  *)
(*                                                                         *)
(* Two outcomes go beyond the truth table of 4.4: ConnectFailed (the      *)
(* first connection cannot be opened, spec 7's ConnectError) and          *)
(* Interrupted (the process-level interrupt of spec 5 ends the procedure  *)
(* in any phase). An exception while verifying ends in RestoreFailed,     *)
(* the outcome of the handler that encloses both phase 4 and phase 5.     *)
(***************************************************************************)
VARIABLES
    phase,      \* "Probe", "Prepare", "Flash", "Restore", "Verify", "Done"
    flashOk,    \* flashSucceeded of phase 3 (FALSE before it)
    outcome     \* the terminal outcome, "none" before Done

avars == <<phase, flashOk, outcome>>

Outcome == {"ConnectFailed", "AlreadyCurrent", "PrepareFailed",
            "ReconnectFailed", "RestoreFailed", "FlashFailed", "Verified",
            "Interrupted"}

AbsTypeOK ==
    /\ phase \in {"Probe", "Prepare", "Flash", "Restore", "Verify", "Done"}
    /\ flashOk \in BOOLEAN
    /\ outcome \in Outcome \cup {"none"}

AbsInit == phase = "Probe" /\ flashOk = FALSE /\ outcome = "none"

(* The procedure ends with outcome o.                                     *)
Finish(o) == phase' = "Done" /\ outcome' = o /\ UNCHANGED flashOk

(* 1. Probe: the connection fails, the target is already present, or the  *)
(* update goes ahead (a failed probe included).                           *)
Probe ==
    /\ phase = "Probe"
    /\ \/ Finish("ConnectFailed")
       \/ Finish("AlreadyCurrent")
       \/ phase' = "Prepare" /\ UNCHANGED <<flashOk, outcome>>

(* 2. Prepare: an exception ends the procedure before any flash.          *)
Prepare ==
    /\ phase = "Prepare"
    /\ \/ Finish("PrepareFailed")
       \/ phase' = "Flash" /\ UNCHANGED <<flashOk, outcome>>

(* 3. Flash: the tool's success or failure is recorded, and phase 4       *)
(* always follows.                                                        *)
Flash ==
    /\ phase = "Flash"
    /\ phase' = "Restore"
    /\ flashOk' \in BOOLEAN
    /\ UNCHANGED outcome

(* 4. Reconnect & Restore, whatever flashOk is; Verify only after a       *)
(* successful flash, FlashFailed at once after a failed one.              *)
Restore ==
    /\ phase = "Restore"
    /\ \/ Finish("ReconnectFailed")
       \/ Finish("RestoreFailed")
       \/ ~flashOk /\ Finish("FlashFailed")
       \/ flashOk /\ phase' = "Verify" /\ UNCHANGED <<flashOk, outcome>>

(* 5. Verify: the target version is present, or a mismatch ends as        *)
(* FlashFailed; an exception is handled as a failed restore.              *)
Verify ==
    /\ phase = "Verify"
    /\ flashOk
    /\ \/ Finish("Verified")
       \/ Finish("FlashFailed")
       \/ Finish("RestoreFailed")

(* The process-level interrupt, in any phase before the end.             *)
Interrupted ==
    /\ phase # "Done"
    /\ Finish("Interrupted")

AbsNext == Probe \/ Prepare \/ Flash \/ Restore \/ Verify \/ Interrupted

(* The safety part, which TLAPS proves the detailed model implements.     *)
AbsSafety == AbsInit /\ [][AbsNext]_avars

(* Spec 5: every operation is bounded, so the procedure reaches an end.   *)
AbsSpec == AbsSafety /\ WF_avars(AbsNext)

=============================================================================
