----------------------------- MODULE MCValidator -----------------------------
(***************************************************************************)
(* Model-checking instance of Validator: the state space is finite as it  *)
(* stands (eight tests, a bounded index); Interruptible and LossyLink    *)
(* are set per .cfg.                                                       *)
(***************************************************************************)
EXTENDS Validator

=============================================================================
